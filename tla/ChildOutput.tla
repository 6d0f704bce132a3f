---------------------------- MODULE ChildOutput ----------------------------
(***************************************************************************)
(* run_cmd_output: a child is spawned with its stdout on a pipe, and the   *)
(* parent reads the pipe to its end into a buffer that grows, then reaps   *)
(* the child.  The pipe holds PipeCap pieces: a child that writes more     *)
(* waits for the parent, and the parent waits for the child.               *)
(*                                                                         *)
(* A component of its own, for a caller to drive: Called starts it, and it *)
(* is over in "returned".  Any error is 1 here, -1 or 1 in the code.       *)
(***************************************************************************)
EXTENDS Naturals, Sequences

CONSTANTS
  Chunk,     \* CHUNK: what one read asks for, in pieces of output
  MemMax,    \* MEM_MAX: the most dynamic_str_alloc gives
  PipeCap,   \* the pieces a pipe holds
  NoOutput   \* *output_p when there is none

ASSUME SizeAssumption ==
  /\ Chunk \in Nat \ {0} /\ PipeCap \in Nat \ {0}
  /\ MemMax \in Nat /\ Chunk < MemMax

VARIABLES
  cmd,    \* the parent: where it is, the pipe ends it holds, what it returns
  str,    \* the Dynamic_str: bytes allocated, bytes used, their content
  pipe,   \* what was written and not yet read
  child   \* the child: its state, what it has to say, how much of it is written

cvars == <<cmd, str, pipe, child>>

NoCmd == [pc |-> "idle", ends |-> {}, ret |-> 0, childRet |-> 0, out |-> NoOutput]
NoStr == [alloc |-> 0, used |-> 0, bytes |-> <<>>]
NoChild == [state |-> "none", text |-> <<>>, wrote |-> 0, status |-> 0, reaped |-> FALSE]

CmdInit ==
  /\ cmd = NoCmd
  /\ str = NoStr
  /\ pipe = <<>>
  /\ child = NoChild

\* Everything of an earlier call is gone.
CmdReset == cmd' = NoCmd /\ str' = NoStr /\ pipe' = <<>> /\ child' = NoChild

Called ==
  /\ cmd' = [NoCmd EXCEPT !.pc = "spawn"]
  /\ str' = NoStr /\ pipe' = <<>> /\ child' = NoChild

-----------------------------------------------------------------------------
(* The parent.                                                             *)

\* The pipe is made and the child runs with its write end as stdout; the
\* parent still has both ends.
Spawn(text) ==
  /\ cmd.pc = "spawn"
  /\ cmd' = [cmd EXCEPT !.pc = "close", !.ends = {"read", "write"}]
  /\ child' = [NoChild EXCEPT !.state = "running", !.text = text]
  /\ UNCHANGED <<str, pipe>>

\* No attributes, no pipe, no file actions or no child: both ends are closed.
SpawnFails ==
  /\ cmd.pc = "spawn"
  /\ cmd' = [cmd EXCEPT !.pc = "returned", !.ret = 1]
  /\ UNCHANGED <<str, pipe, child>>

CloseWrite ==
  /\ cmd.pc = "close"
  /\ cmd' = [cmd EXCEPT !.pc = "read", !.ends = @ \ {"write"}]
  /\ UNCHANGED <<str, pipe, child>>

\* close reports an error, the end is closed all the same and the call goes on.
CloseWriteFails ==
  /\ cmd.pc = "close"
  /\ cmd' = [cmd EXCEPT !.pc = "read", !.ends = @ \ {"write"}, !.ret = 1]
  /\ UNCHANGED <<str, pipe, child>>

MutantMustGrow(s) == s.alloc <= s.used

\* mem_grow_if_needed: there is no room for a whole chunk.
MustGrow(s) == s.alloc < s.used + Chunk

Needed(s) == s.used + Chunk

\* The size doubles, or is what is needed where that is more or where doubling
\* is over the limit; the first chunk is the case of nothing allocated.
NewSize(s) ==
  IF 2 * s.alloc > Needed(s) /\ 2 * s.alloc <= MemMax THEN 2 * s.alloc ELSE Needed(s)

\* The reading ends: the read end is closed, whatever was read is handed over
\* or freed, and the child is still to be reaped.
ReadOver(out) == cmd' = [cmd EXCEPT !.pc = "reap", !.ends = {}, !.out = out]

Grow ==
  /\ cmd.pc = "read"
  /\ MustGrow(str)
  /\ NewSize(str) <= MemMax
  /\ str' = [str EXCEPT !.alloc = NewSize(str)]
  /\ UNCHANGED <<cmd, pipe, child>>

MutantGrowTooBig ==
  /\ cmd.pc = "read"
  /\ MustGrow(str)
  /\ NewSize(str) > MemMax
  /\ cmd' = [cmd EXCEPT !.pc = "returned", !.ends = {}]
  /\ str' = NoStr
  /\ UNCHANGED <<pipe, child>>

GrowTooBig ==
  /\ cmd.pc = "read"
  /\ MustGrow(str)
  /\ NewSize(str) > MemMax
  /\ ReadOver(NoOutput)
  /\ str' = NoStr
  /\ UNCHANGED <<pipe, child>>

\* There is no memory for twice the size, but for what is needed.
GrowLess ==
  /\ cmd.pc = "read"
  /\ MustGrow(str)
  /\ NewSize(str) > Needed(str)
  /\ str' = [str EXCEPT !.alloc = Needed(str)]
  /\ UNCHANGED <<cmd, pipe, child>>

\* What one read takes from the pipe.
Portion == IF Len(pipe) < Chunk THEN Len(pipe) ELSE Chunk

Read ==
  /\ cmd.pc = "read"
  /\ ~MustGrow(str)
  /\ pipe # <<>>
  /\ str' = [str EXCEPT !.used = @ + Portion,
                        !.bytes = @ \o SubSeq(pipe, 1, Portion)]
  /\ pipe' = SubSeq(pipe, Portion + 1, Len(pipe))
  /\ UNCHANGED <<cmd, child>>

\* Nobody can write any more: the parent closed its write end, the child is gone.
AllWritersGone == "write" \notin cmd.ends /\ child.state # "running"

MutantEof ==
  /\ cmd.pc = "read"
  /\ ~MustGrow(str)
  /\ pipe = <<>>
  /\ str' = [str EXCEPT !.alloc = str.used + 1]
  /\ ReadOver(str.bytes)
  /\ UNCHANGED <<pipe, child>>

MutantNoEof ==
  /\ cmd.pc = "read"
  /\ ~MustGrow(str)
  /\ pipe = <<>>
  /\ AllWritersGone
  /\ UNCHANGED cvars

\* The buffer is cut down to the output and its terminating byte.
Eof ==
  /\ cmd.pc = "read"
  /\ ~MustGrow(str)
  /\ pipe = <<>>
  /\ AllWritersGone
  /\ str' = [str EXCEPT !.alloc = str.used + 1]
  /\ ReadOver(str.bytes)
  /\ UNCHANGED <<pipe, child>>

\* A read fails or there is no memory; run_cmd_output ignores it.
ReadFails ==
  /\ cmd.pc = "read"
  /\ ReadOver(NoOutput)
  /\ str' = NoStr
  /\ UNCHANGED <<pipe, child>>

\* waitpid: a killed child counts as exit status 0.
Reap ==
  /\ cmd.pc = "reap"
  /\ child.state # "running"
  /\ cmd' = [cmd EXCEPT !.pc = "returned",
                        !.childRet = IF child.state = "exited" THEN child.status ELSE 0]
  /\ child' = [child EXCEPT !.reaped = TRUE]
  /\ UNCHANGED <<str, pipe>>

\* waitpid waits in vain: SIGCHLD is ignored and the kernel reaps the child.
WaitFails ==
  /\ cmd.pc = "reap"
  /\ child.state # "running"
  /\ cmd' = [cmd EXCEPT !.pc = "returned", !.childRet = 1]
  /\ child' = [child EXCEPT !.reaped = TRUE]
  /\ UNCHANGED <<str, pipe>>

-----------------------------------------------------------------------------
(* The child.                                                              *)

ChildWrites ==
  /\ child.state = "running"
  /\ "read" \in cmd.ends
  /\ child.wrote < Len(child.text)
  /\ Len(pipe) < PipeCap
  /\ pipe' = Append(pipe, child.text[child.wrote + 1])
  /\ child' = [child EXCEPT !.wrote = @ + 1]
  /\ UNCHANGED <<cmd, str>>

\* Nobody reads any more: SIGPIPE ends the child.
ChildBrokenPipe ==
  /\ child.state = "running"
  /\ "read" \notin cmd.ends
  /\ child.wrote < Len(child.text)
  /\ child' = [child EXCEPT !.state = "broken"]
  /\ UNCHANGED <<cmd, str, pipe>>

ChildExits(status) ==
  /\ child.state = "running"
  /\ child.wrote = Len(child.text)
  /\ child' = [child EXCEPT !.state = "exited", !.status = status]
  /\ UNCHANGED <<cmd, str, pipe>>

ChildKilled ==
  /\ child.state = "running"
  /\ child' = [child EXCEPT !.state = "killed"]
  /\ UNCHANGED <<cmd, str, pipe>>

-----------------------------------------------------------------------------
\* The steps of a call once the child is spawned, and those that fail.
ParentStep == CloseWrite \/ Grow \/ GrowTooBig \/ Read \/ Eof \/ Reap
ChildStep == ChildWrites \/ ChildBrokenPipe \/ \E status \in {0, 1} : ChildExits(status)
CmdFailure ==
  SpawnFails \/ CloseWriteFails \/ GrowLess \/ ReadFails \/ WaitFails \/ ChildKilled

-----------------------------------------------------------------------------
(* Correctness.                                                            *)

\* The types of a call's variables, Piece being the set of pieces of output.
CmdTypeOK(Piece) ==
  /\ cmd.pc \in {"idle", "spawn", "close", "read", "reap", "returned"}
  /\ cmd.ends \subseteq {"read", "write"}
  /\ cmd.ret \in {0, 1} /\ cmd.childRet \in {0, 1}
  /\ cmd.out \in Seq(Piece) \cup {NoOutput}
  /\ str \in [alloc : Nat, used : Nat, bytes : Seq(Piece)]
  /\ pipe \in Seq(Piece)
  /\ child \in [state : {"none", "running", "exited", "killed", "broken"}, text : Seq(Piece),
                wrote : Nat, status : {0, 1}, reaped : BOOLEAN]

\* Every read has the room it asks for and the terminating byte is inside the
\* buffer, at every length of output and however the buffer grew.
BufferHolds ==
  /\ str.used = Len(str.bytes) /\ str.used <= str.alloc /\ str.alloc <= MemMax
  /\ cmd.out # NoOutput => cmd.out = str.bytes /\ str.used < str.alloc

\* The caller gets all the child said, in order, however writes and reads
\* interleave, and no child is cut short for it; of a killed child it gets what
\* that said before.
OutputWhole ==
  cmd.out # NoOutput =>
    /\ cmd.out = SubSeq(child.text, 1, child.wrote)
    /\ child.state \in {"exited", "killed"}
    /\ child.state = "exited" => cmd.out = child.text

\* On every path, with output or without, the call returns with both ends of
\* the pipe closed and no child running or unreaped.
NothingLeft ==
  cmd.pc = "returned" =>
    /\ cmd.ends = {}
    /\ child.state # "running"
    /\ child.state = "none" \/ child.reaped

=============================================================================
