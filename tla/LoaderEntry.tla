---------------------------- MODULE LoaderEntry ----------------------------
(***************************************************************************)
(* 95-sd-boot-loaderentry-modify.install: kernel-install add writes a      *)
(* loader entry (90-loaderentry.install), then runs this plugin, which     *)
(* copies the entry row by row into a temporary file beside it, changing   *)
(* rows on the way, and renames the copy over the entry.  What to do it    *)
(* learns from arguments and environment variables, some of them missing.  *)
(*                                                                         *)
(* The copy goes through a stdio buffer: a row that fwrite accepted is in  *)
(* the file only when the buffer was flushed.  fgets reads rows in pieces  *)
(* of ROW_SZ bytes; a file is modelled as the sequence of those pieces.    *)
(***************************************************************************)
EXTENDS Naturals, Sequences

CONSTANTS
  Written,      \* the entry files kernel-install writes, as sequences of pieces
  NoFile,       \* there is no such file
  MaxAdds,      \* bound: additions in a behaviour
  MaxFaults     \* bound: failures in a behaviour

Keys == {"title", "linux", "uki", "efi", "options", "other", "blank"}
Vals == {"own", "pkg"}

\* A piece: its first word, and whether its text is kernel-install's own or the
\* package name.  Of a row longer than ROW_SZ only the first piece has the
\* row's word, the rest is "other".
Piece(k, v) == [key |-> k, val |-> v]
Pieces == [key : Keys, val : Vals]

ASSUME WrittenAssumption == Written \subseteq Seq(Pieces)
ASSUME BoundAssumption == MaxAdds \in Nat /\ MaxFaults \in Nat

VARIABLES
  entry,    \* the entry file, NoFile if there is none
  temp,     \* the temporary file as others see it
  buf,      \* pieces in the stdio buffer of the temporary file
  args,     \* the arguments kernel-install gives: command, version, directory, image
  layout,   \* KERNEL_INSTALL_LAYOUT
  listed,   \* is the package of the entry's image in the managed list?
  due,      \* the entry kernel-install wrote last, and how it is to be changed
  plugin,   \* the KIplugin
  src,      \* the entry file the plugin opened
  lost,     \* where rows are lost that nobody asks about: the "copy", the "entry", "none"
  pos,      \* the next piece fgets reads
  pc,       \* where the plugin is
  nAdds,    \* additions so far
  nFaults   \* failures so far

vars == <<entry, temp, buf, args, layout, listed, due, plugin, src, lost, pos, pc, nAdds, nFaults>>
given == <<args, layout, listed, due>>
kept == <<given, plugin, lost>>

NoDue == [file |-> <<>>, change |-> FALSE, efi |-> FALSE]
NoPlugin == [command |-> "", version |-> "", isKernel |-> FALSE, isUki |-> FALSE]

Init ==
  /\ entry = NoFile /\ temp = NoFile
  /\ args = <<>> /\ layout = "" /\ listed = FALSE /\ due = NoDue /\ lost = "none"
  /\ plugin = NoPlugin
  /\ buf = <<>> /\ src = <<>> /\ pos = 1
  /\ pc = "idle"
  /\ nAdds = 0 /\ nFaults = 0

Fault ==
  /\ nFaults < MaxFaults
  /\ nFaults' = nFaults + 1

-----------------------------------------------------------------------------
(* What becomes of a row.                                                  *)

\* title_update: the title is the package name.
TitleUpdate(piece) ==
  IF piece.key = "title" THEN <<Piece("title", "pkg")>> ELSE <<piece>>

MutantEfiToolUpdate(piece) ==
  CASE piece.key = "options" -> <<>>
    [] piece.key = "linux" -> <<Piece("efi", piece.val), Piece("blank", "own")>>
    [] OTHER -> <<piece>>

\* efi_tool_update: kernel options go, the program is an efi program.  The
\* row keeps its newline and gets another one.
EfiToolUpdate(piece) ==
  CASE piece.key = "options" -> <<>>
    [] piece.key \in {"linux", "uki"} -> <<Piece("efi", piece.val), Piece("blank", "own")>>
    [] OTHER -> <<piece>>

\* entry_row_modify: the first change that applies.
RowModify(isEfi, piece) ==
  IF piece.key = "title" \/ ~isEfi THEN TitleUpdate(piece) ELSE EfiToolUpdate(piece)

\* The first k pieces of a file changed, and the whole file, for the properties.
ModifiedUpTo(isEfi, file) ==
  LET m[k \in 0..Len(file)] == IF k = 0 THEN <<>> ELSE m[k - 1] \o RowModify(isEfi, file[k])
  IN  m

Modified(isEfi, file) == ModifiedUpTo(isEfi, file)[Len(file)]

-----------------------------------------------------------------------------
(* kernel-install.                                                         *)

\* It runs the plugin with arguments a.
RunPlugin(a) ==
  /\ pc = "idle"
  /\ nAdds < MaxAdds
  /\ args' = a
  /\ pc' = "start"
  /\ nAdds' = nAdds + 1
  /\ UNCHANGED <<temp, buf, plugin, src, pos, nFaults>>

\* kernel-install add writes the entry, except for a kernel in the uki layout:
\* that has none, but one of another layout may be there.
Add ==
  /\ \E image \in {"kernel", "tool"} : RunPlugin(<<"add", "version", "dir", image>>)
  /\ layout' \in {"bls", "uki"} /\ listed' \in BOOLEAN
  /\ IF args'[4] = "kernel" /\ layout' = "uki"
       THEN UNCHANGED <<entry, due, lost>>
       ELSE /\ entry' \in Written /\ lost' = "none"
            /\ due' = [file |-> entry', change |-> listed', efi |-> args'[4] = "tool"]

\* kernel-install remove deletes the entry and runs the plugin with no image.
RemoveRun ==
  /\ RunPlugin(<<"remove", "version", "dir">>)
  /\ layout' \in {"bls", "uki"}
  /\ entry' = NoFile /\ lost' = "none"
  /\ UNCHANGED <<listed, due>>

\* The plugin is run by hand, with nothing.
BareRun ==
  /\ RunPlugin(<<>>)
  /\ layout' = ""
  /\ UNCHANGED <<entry, listed, due, lost>>

\* Another kernel-install deletes the entry while the plugin is at it.
Remove ==
  /\ pc # "idle"
  /\ entry # NoFile
  /\ entry' = NoFile
  /\ UNCHANGED <<kept, temp, buf, src, pos, pc, nAdds, nFaults>>

-----------------------------------------------------------------------------
(* loaderentry_modify_file.                                                *)

MutantPluginOver ==
  /\ pc' = "idle"
  /\ buf' = <<>> /\ src' = <<>> /\ UNCHANGED pos

\* The plugin is over; main returns 0 to kernel-install in every case.
PluginOver ==
  /\ pc' = "idle"
  /\ buf' = <<>> /\ src' = <<>> /\ pos' = 1

\* copy_argv_item: a missing argument is an empty string.
Item(k) == IF k > Len(args) THEN "" ELSE args[k]

\* plugin_init copies what kernel-install hands over; only "add" is for us.
PluginInit ==
  /\ pc = "start"
  /\ plugin' = [command |-> Item(1), version |-> Item(2),
                 isKernel |-> Item(4) = "kernel", isUki |-> layout = "uki"]
  /\ IF Item(1) = "add"
       THEN pc' = "look" /\ UNCHANGED <<buf, src, pos>>
       ELSE PluginOver
  /\ UNCHANGED <<given, lost, entry, temp, nAdds, nFaults>>

MutantStart ==
  /\ pc = "look"
  /\ pc' = "open"
  /\ UNCHANGED <<kept, entry, temp, buf, src, pos, nAdds, nFaults>>

\* loaderentry_modify_kernel and loaderentry_modify_efi: only the entries of
\* managed packages are changed, and no kernel's in the uki layout.
Start ==
  /\ pc = "look"
  /\ IF plugin.version # "" /\ ~(plugin.isKernel /\ plugin.isUki) /\ listed
       THEN pc' = "open" /\ UNCHANGED <<buf, src, pos>>
       ELSE PluginOver
  /\ UNCHANGED <<kept, entry, temp, nAdds, nFaults>>

MutantOpenEntry ==
  /\ pc = "open"
  /\ entry # NoFile
  /\ src' = entry
  /\ pc' = "temp"
  /\ UNCHANGED <<kept, entry, temp, buf, pos, nAdds, nFaults>>

\* open_entry_file: no entry file is not an error, there is nothing to do.
OpenEntry ==
  /\ pc = "open"
  /\ \/ /\ entry = NoFile
        /\ PluginOver
     \/ /\ entry # NoFile
        /\ src' = entry
        /\ pc' = "temp"
        /\ UNCHANGED <<buf, pos>>
  /\ UNCHANGED <<kept, entry, temp, nAdds, nFaults>>

MutantOpenTemp ==
  /\ pc = "temp"
  /\ temp' = <<>>
  /\ entry' = <<>>
  /\ pc' = "copy"
  /\ UNCHANGED <<kept, buf, src, pos, nAdds, nFaults>>

\* open_temp_file: mkstemp in the directory of the entry.
OpenTemp ==
  /\ pc = "temp"
  /\ temp' = <<>>
  /\ pc' = "copy"
  /\ UNCHANGED <<kept, entry, buf, src, pos, nAdds, nFaults>>

\* The next piece is read, changed and written to the stream.
CopyRow ==
  /\ pc = "copy"
  /\ pos <= Len(src)
  /\ buf' = buf \o RowModify(~plugin.isKernel, src[pos])
  /\ pos' = pos + 1
  /\ UNCHANGED <<kept, entry, temp, src, pc, nAdds, nFaults>>

\* The stream's buffer is full and goes to the file.
Flush ==
  /\ pc = "copy"
  /\ buf # <<>>
  /\ temp' = temp \o buf
  /\ buf' = <<>>
  /\ UNCHANGED <<kept, entry, src, pos, pc, nAdds, nFaults>>

MutantWriteFails ==
  /\ pc \in {"start", "look", "open", "temp"} \/ (pc = "copy" /\ pos <= Len(src))
  /\ Fault
  /\ PluginOver
  /\ UNCHANGED <<kept, entry, temp, nAdds>>

\* The list, an open, a fwrite or a row fails: the temporary file is unlinked.
WriteFails ==
  /\ pc \in {"start", "look", "open", "temp"} \/ (pc = "copy" /\ pos <= Len(src))
  /\ Fault
  /\ temp' = NoFile
  /\ PluginOver
  /\ UNCHANGED <<kept, entry, nAdds>>

\* fgets fails, and the loop takes that for the end of the file: the rows left
\* are lost, and the copy goes the way of a whole one.
ReadFails ==
  /\ pc = "copy"
  /\ pos <= Len(src)
  /\ Fault
  /\ pos' = Len(src) + 1
  /\ lost' = "copy"
  /\ UNCHANGED <<given, plugin, entry, temp, buf, src, pc, nAdds>>

\* fclose writes what is left in the buffer.
Close ==
  /\ pc = "copy"
  /\ pos > Len(src)
  /\ temp' = temp \o buf
  /\ buf' = <<>>
  /\ pc' = "rename"
  /\ UNCHANGED <<kept, entry, src, pos, nAdds, nFaults>>

\* fclose cannot write all of it and says so to nobody.
CloseFails ==
  /\ pc = "copy"
  /\ pos > Len(src)
  /\ Fault
  /\ \E n \in 0..Len(buf) : temp' = temp \o SubSeq(buf, 1, n)
  /\ buf' = <<>>
  /\ lost' = "copy"
  /\ pc' = "rename"
  /\ UNCHANGED <<given, plugin, entry, src, pos, nAdds>>

\* rename puts the copy in the entry's place in one step.
Rename ==
  /\ pc = "rename"
  /\ entry' = temp
  /\ temp' = NoFile
  /\ lost' = IF lost = "copy" THEN "entry" ELSE lost
  /\ PluginOver
  /\ UNCHANGED <<given, plugin, nAdds, nFaults>>

RenameFails ==
  /\ pc = "rename"
  /\ Fault
  /\ temp' = NoFile
  /\ PluginOver
  /\ lost' = "none"
  /\ UNCHANGED <<given, plugin, entry, nAdds>>

\* A signal kills the plugin.  Its temporary file stays, and no later run
\* takes it for its own: mkstemp makes a new name.
Kill ==
  /\ pc # "idle"
  /\ Fault
  /\ temp' = NoFile
  /\ PluginOver
  /\ lost' = IF lost = "copy" THEN "none" ELSE lost
  /\ UNCHANGED <<given, plugin, entry, nAdds>>

Plugin == PluginInit \/ Start \/ OpenEntry \/ OpenTemp \/ CopyRow \/ Flush \/ Close \/ Rename
Failure == WriteFails \/ ReadFails \/ CloseFails \/ RenameFails \/ Kill

Next == Add \/ RemoveRun \/ BareRun \/ Remove \/ Plugin \/ Failure

\* The kernel runs the plugin.
Spec == Init /\ [][Next]_vars /\ WF_vars(Plugin)

-----------------------------------------------------------------------------
(* Correctness.                                                            *)

Words == {"add", "remove", "version", "dir", "kernel", "tool"}
Due == [file : Seq(Pieces), change : BOOLEAN, efi : BOOLEAN]
KIplugin == [command : {"", "add", "remove"}, version : {"", "version"},
             isKernel : BOOLEAN, isUki : BOOLEAN]
IsFile(f) == f = NoFile \/ f \in Seq(Pieces)

\* The variables have their types.
TypeOK ==
  /\ IsFile(entry) /\ IsFile(temp)
  /\ buf \in Seq(Pieces) /\ src \in Seq(Pieces)
  /\ args \in Seq(Words)
  /\ layout \in {"", "bls", "uki"}
  /\ listed \in BOOLEAN /\ lost \in {"none", "copy", "entry"}
  /\ due \in Due
  /\ plugin \in KIplugin
  /\ pos \in 1..(Len(src) + 1)
  /\ pc \in {"idle", "start", "look", "open", "temp", "copy", "rename"}
  /\ nAdds \in 0..MaxAdds /\ nFaults \in 0..MaxFaults

\* The plugin changes the entry in one step: no kill and no failure it notices
\* leaves it half copied or empty.  The two failures nobody asks about, of fgets
\* and of fclose, do: of such an entry nothing is promised, it counts as gone.
Atomic == INSTANCE AtomicEntry WITH
  entry <- IF lost = "entry" THEN NoFile ELSE entry,
  Changes <- [file \in Written |-> {Modified(e, file) : e \in BOOLEAN}]
AtomicSpec == Atomic!Spec

\* start is how the changed file begins.
IsStart(isEfi, file, start) ==
  LET rows == ModifiedUpTo(isEfi, file)
  IN  \E n \in 0..Len(file) : \E k \in 0..Len(rows[n]) : start = SubSeq(rows[n], 1, k)

Bootable(file) ==
  LET keys == {file[k].key : k \in DOMAIN file}
  IN  IF args[4] = "tool"
        THEN "efi" \in keys /\ keys \cap {"linux", "uki", "options"} = {}
        ELSE keys \cap {"linux", "uki"} # {} /\ "options" \in keys

\* If no row was lost, an efi tool's entry the plugin is through with starts an
\* efi program and has lost what is for kernels only; a kernel's entry has lost
\* nothing.  If rows were lost, they are the last ones: the copy is the start of
\* a changed entry.
RenamedIsBootable ==
  pc = "rename" =>
    /\ args[1] = "add"
    /\ lost # "copy" => Bootable(temp) /\ \A k \in DOMAIN temp : temp[k] # Piece("title", "own")
    /\ lost = "copy" => IsStart(args[4] = "tool", src, temp)

\* Without failures the entry that stays is the one kernel-install wrote last,
\* changed row by row where the package is managed and untouched where not; a
\* later run for a removal, or for a kernel in the uki layout, leaves it alone.
EntryIsRight ==
  pc = "idle" /\ nFaults = 0 /\ entry # NoFile =>
    entry = IF due.change THEN Modified(due.efi, due.file) ELSE due.file

\* No failure the plugin notices leaves a temporary file among the entries.
NoLitter == pc = "idle" => temp = NoFile

\* kernel-install waits for the plugin: it ends, whatever fails.
PluginEnds == pc # "idle" ~> pc = "idle"

-----------------------------------------------------------------------------
(* What the repository says and the code does not do.                      *)

\* loaderentry_modify_file.c: "All well then rename the file (atomic)".  The
\* file that takes the entry's place is the whole changed entry.
RenamedIsComplete == pc = "rename" => temp = Modified(args[4] = "tool", src)

=============================================================================
