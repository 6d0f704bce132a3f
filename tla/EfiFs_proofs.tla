---------------------------- MODULE EfiFs_proofs ----------------------------
(***************************************************************************)
(* Theorems about EfiFs and the ChildOutput it drives, for every set of    *)
(* drivers, every text bootctl may print, every size of pipe, chunk and    *)
(* buffer, and every number of transactions, failures and crashes.         *)
(***************************************************************************)
EXTENDS EfiFs, FiniteSetTheorems, TLAPS

(***************************************************************************)
(* One call of run_cmd_output, over any set P of pieces of output.         *)
(***************************************************************************)

CmdRec(P) ==
  [pc : {"idle", "spawn", "close", "read", "reap", "returned"},
   ends : SUBSET {"read", "write"}, ret : {0, 1}, childRet : {0, 1},
   out : Seq(P) \cup {NoOutput}]

StrRec(P) == [alloc : Nat, used : Nat, bytes : Seq(P)]

ChildRec(P) ==
  [state : {"none", "running", "exited", "killed", "broken"}, text : Seq(P),
   wrote : Nat, status : {0, 1}, reaped : BOOLEAN]

CTypes(P) ==
  /\ cmd \in CmdRec(P)
  /\ str \in StrRec(P)
  /\ pipe \in Seq(P)
  /\ child \in ChildRec(P)

\* Where the parent is tells which ends it holds and what the child may be.
EndsRight ==
  /\ cmd.pc \in {"idle", "spawn"} =>
       cmd.ends = {} /\ child.state = "none" /\ str = NoStr /\ pipe = <<>> /\ cmd.out = NoOutput
  /\ cmd.pc = "close" => cmd.ends = {"read", "write"}
  /\ cmd.pc = "read" => cmd.ends = {"read"}
  /\ cmd.pc \in {"close", "read"} =>
       child.state \in {"running", "exited", "killed"} /\ cmd.out = NoOutput
  /\ cmd.pc = "reap" => cmd.ends = {} /\ child.state # "none"

\* What the parent has and what is in the pipe are what the child wrote.
FlowRight ==
  /\ child.wrote <= Len(child.text)
  /\ child.state = "exited" => child.wrote = Len(child.text)
  /\ cmd.pc \in {"close", "read"} =>
       /\ Len(str.bytes) + Len(pipe) = child.wrote
       /\ \A k \in 1..Len(str.bytes) : str.bytes[k] = child.text[k]
       /\ \A k \in 1..Len(pipe) : pipe[k] = child.text[Len(str.bytes) + k]

CInv(P) ==
  /\ CTypes(P)
  /\ BufferHolds
  /\ EndsRight
  /\ FlowRight
  /\ OutputWhole
  /\ NothingLeft

LEMMA CmdInitInv ==
  ASSUME NEW P, CmdInit
  PROVE  CInv(P)
BY SizeAssumption DEF CmdInit, CInv, CTypes, CmdRec, StrRec, ChildRec, NoCmd, NoStr, NoChild,
   BufferHolds, EndsRight, FlowRight, OutputWhole, NothingLeft

LEMMA CmdResetInv ==
  ASSUME NEW P, CmdReset
  PROVE  CInv(P)'
BY SizeAssumption DEF CmdReset, CInv, CTypes, CmdRec, StrRec, ChildRec, NoCmd, NoStr, NoChild,
   BufferHolds, EndsRight, FlowRight, OutputWhole, NothingLeft

LEMMA CalledInv ==
  ASSUME NEW P, Called
  PROVE  CInv(P)'
BY SizeAssumption DEF Called, CInv, CTypes, CmdRec, StrRec, ChildRec, NoCmd, NoStr, NoChild,
   BufferHolds, EndsRight, FlowRight, OutputWhole, NothingLeft

LEMMA ReadOverType ==
  ASSUME NEW P, cmd \in CmdRec(P), NEW out \in Seq(P) \cup {NoOutput}, ReadOver(out)
  PROVE  cmd' \in CmdRec(P)
BY DEF CmdRec, ReadOver

LEMMA NoStrType ==
  ASSUME NEW P
  PROVE  NoStr \in StrRec(P)
BY DEF NoStr, StrRec

LEMMA SizeType ==
  ASSUME NEW P, NEW s \in StrRec(P)
  PROVE  Needed(s) \in Nat /\ NewSize(s) \in Nat
BY SizeAssumption DEF StrRec, Needed, NewSize

LEMMA SpawnInv ==
  ASSUME NEW P, NEW text \in Seq(P), CInv(P), Spawn(text)
  PROVE  CInv(P)'
<1>. USE SizeAssumption DEF CInv
<1>1. CTypes(P)'
  BY DEF CTypes, CmdRec, StrRec, ChildRec, Spawn, NoChild, NoStr
<1>2. BufferHolds'
  BY <1>1 DEF CTypes, CmdRec, StrRec, ChildRec, BufferHolds, EndsRight, Spawn, NoChild, NoStr
<1>3. EndsRight'
  BY <1>1 DEF CTypes, CmdRec, StrRec, ChildRec, EndsRight, Spawn, NoChild, NoStr
<1>4. FlowRight'
  <2>1. child'.text = text /\ child'.wrote = 0 /\ child'.state = "running"
    BY DEF Spawn, NoChild
  <2>2. str' = str /\ pipe' = pipe
    BY DEF Spawn
  <2>. QED
    BY <2>1, <2>2 DEF CTypes, EndsRight, FlowRight, Spawn, NoStr
<1>5. OutputWhole'
  BY <1>1 DEF CTypes, CmdRec, StrRec, ChildRec, EndsRight, FlowRight, OutputWhole, Spawn, NoChild, NoStr
<1>6. NothingLeft'
  BY <1>1 DEF CTypes, CmdRec, StrRec, ChildRec, EndsRight, NothingLeft, Spawn, NoChild, NoStr
<1>. QED
  BY <1>1, <1>2, <1>3, <1>4, <1>5, <1>6

LEMMA SpawnFailsInv ==
  ASSUME NEW P, CInv(P), SpawnFails
  PROVE  CInv(P)'
<1>. USE SizeAssumption DEF CInv
<1>1. CTypes(P)'
  BY DEF CTypes, CmdRec, StrRec, ChildRec, SpawnFails
<1>2. BufferHolds'
  BY <1>1 DEF CTypes, CmdRec, StrRec, ChildRec, BufferHolds, EndsRight, SpawnFails
<1>3. EndsRight'
  BY <1>1 DEF CTypes, CmdRec, StrRec, ChildRec, EndsRight, SpawnFails
<1>4. FlowRight'
  BY <1>1 DEF CTypes, CmdRec, StrRec, ChildRec, EndsRight, FlowRight, SpawnFails
<1>5. OutputWhole'
  BY <1>1 DEF CTypes, CmdRec, StrRec, ChildRec, EndsRight, FlowRight, OutputWhole, SpawnFails
<1>6. NothingLeft'
  BY <1>1 DEF CTypes, CmdRec, StrRec, ChildRec, EndsRight, NothingLeft, SpawnFails
<1>. QED
  BY <1>1, <1>2, <1>3, <1>4, <1>5, <1>6

LEMMA CloseWriteInv ==
  ASSUME NEW P, CInv(P), CloseWrite
  PROVE  CInv(P)'
<1>. USE SizeAssumption DEF CInv
<1>1. CTypes(P)'
  BY DEF CTypes, CmdRec, StrRec, ChildRec, CloseWrite
<1>2. BufferHolds'
  BY <1>1 DEF CTypes, CmdRec, StrRec, ChildRec, BufferHolds, EndsRight, CloseWrite
<1>3. EndsRight'
  BY <1>1 DEF CTypes, CmdRec, StrRec, ChildRec, EndsRight, CloseWrite
<1>4. FlowRight'
  BY <1>1 DEF CTypes, CmdRec, StrRec, ChildRec, EndsRight, FlowRight, CloseWrite
<1>5. OutputWhole'
  BY <1>1 DEF CTypes, CmdRec, StrRec, ChildRec, EndsRight, FlowRight, OutputWhole, CloseWrite
<1>6. NothingLeft'
  BY <1>1 DEF CTypes, CmdRec, StrRec, ChildRec, EndsRight, NothingLeft, CloseWrite
<1>. QED
  BY <1>1, <1>2, <1>3, <1>4, <1>5, <1>6

LEMMA CloseWriteFailsInv ==
  ASSUME NEW P, CInv(P), CloseWriteFails
  PROVE  CInv(P)'
<1>. USE SizeAssumption DEF CInv
<1>1. CTypes(P)'
  BY DEF CTypes, CmdRec, StrRec, ChildRec, CloseWriteFails
<1>2. BufferHolds'
  BY <1>1 DEF CTypes, CmdRec, StrRec, ChildRec, BufferHolds, EndsRight, CloseWriteFails
<1>3. EndsRight'
  BY <1>1 DEF CTypes, CmdRec, StrRec, ChildRec, EndsRight, CloseWriteFails
<1>4. FlowRight'
  BY <1>1 DEF CTypes, CmdRec, StrRec, ChildRec, EndsRight, FlowRight, CloseWriteFails
<1>5. OutputWhole'
  BY <1>1 DEF CTypes, CmdRec, StrRec, ChildRec, EndsRight, FlowRight, OutputWhole, CloseWriteFails
<1>6. NothingLeft'
  BY <1>1 DEF CTypes, CmdRec, StrRec, ChildRec, EndsRight, NothingLeft, CloseWriteFails
<1>. QED
  BY <1>1, <1>2, <1>3, <1>4, <1>5, <1>6

LEMMA GrowInv ==
  ASSUME NEW P, CInv(P), Grow
  PROVE  CInv(P)'
<1>. USE SizeAssumption DEF CInv
<1>1. CTypes(P)'
  <2>1. str' \in StrRec(P)
    BY SizeType DEF CTypes, StrRec, Grow
  <2>. QED
    BY <2>1 DEF CTypes, Grow
<1>2. BufferHolds'
  BY <1>1 DEF CTypes, CmdRec, StrRec, ChildRec, BufferHolds, EndsRight, Grow, MustGrow, NewSize, Needed
<1>3. EndsRight'
  BY <1>1 DEF CTypes, CmdRec, StrRec, ChildRec, EndsRight, Grow, MustGrow, NewSize, Needed
<1>4. FlowRight'
  BY <1>1 DEF CTypes, CmdRec, StrRec, ChildRec, EndsRight, FlowRight, Grow, MustGrow, NewSize, Needed
<1>5. OutputWhole'
  BY <1>1 DEF CTypes, CmdRec, StrRec, ChildRec, EndsRight, FlowRight, OutputWhole, Grow, MustGrow, NewSize, Needed
<1>6. NothingLeft'
  BY <1>1 DEF CTypes, CmdRec, StrRec, ChildRec, EndsRight, NothingLeft, Grow, MustGrow, NewSize, Needed
<1>. QED
  BY <1>1, <1>2, <1>3, <1>4, <1>5, <1>6

LEMMA GrowTooBigInv ==
  ASSUME NEW P, CInv(P), GrowTooBig
  PROVE  CInv(P)'
<1>. USE SizeAssumption DEF CInv
<1>1. CTypes(P)'
  <2>1. cmd' \in CmdRec(P)
    BY ReadOverType DEF CTypes, GrowTooBig
  <2>. QED
    BY <2>1, NoStrType DEF CTypes, GrowTooBig
<1>2. BufferHolds'
  BY <1>1 DEF CTypes, CmdRec, StrRec, ChildRec, BufferHolds, EndsRight, GrowTooBig, ReadOver, NoStr
<1>3. EndsRight'
  BY <1>1 DEF CTypes, CmdRec, StrRec, ChildRec, EndsRight, GrowTooBig, ReadOver, NoStr
<1>4. FlowRight'
  BY <1>1 DEF CTypes, CmdRec, StrRec, ChildRec, EndsRight, FlowRight, GrowTooBig, ReadOver, NoStr
<1>5. OutputWhole'
  BY <1>1 DEF CTypes, CmdRec, StrRec, ChildRec, EndsRight, FlowRight, OutputWhole, GrowTooBig, ReadOver, NoStr
<1>6. NothingLeft'
  BY <1>1 DEF CTypes, CmdRec, StrRec, ChildRec, EndsRight, NothingLeft, GrowTooBig, ReadOver, NoStr
<1>. QED
  BY <1>1, <1>2, <1>3, <1>4, <1>5, <1>6

LEMMA GrowLessInv ==
  ASSUME NEW P, CInv(P), GrowLess
  PROVE  CInv(P)'
<1>. USE SizeAssumption DEF CInv
<1>1. CTypes(P)'
  <2>1. str' \in StrRec(P)
    BY SizeType DEF CTypes, StrRec, GrowLess
  <2>. QED
    BY <2>1 DEF CTypes, GrowLess
<1>2. BufferHolds'
  BY <1>1 DEF CTypes, CmdRec, StrRec, ChildRec, BufferHolds, EndsRight, GrowLess, MustGrow, NewSize, Needed
<1>3. EndsRight'
  BY <1>1 DEF CTypes, CmdRec, StrRec, ChildRec, EndsRight, GrowLess, MustGrow, NewSize, Needed
<1>4. FlowRight'
  BY <1>1 DEF CTypes, CmdRec, StrRec, ChildRec, EndsRight, FlowRight, GrowLess, MustGrow, NewSize, Needed
<1>5. OutputWhole'
  BY <1>1 DEF CTypes, CmdRec, StrRec, ChildRec, EndsRight, FlowRight, OutputWhole, GrowLess, MustGrow, NewSize, Needed
<1>6. NothingLeft'
  BY <1>1 DEF CTypes, CmdRec, StrRec, ChildRec, EndsRight, NothingLeft, GrowLess, MustGrow, NewSize, Needed
<1>. QED
  BY <1>1, <1>2, <1>3, <1>4, <1>5, <1>6

LEMMA ReadInv ==
  ASSUME NEW P, CInv(P), Read
  PROVE  CInv(P)'
<1>. USE SizeAssumption DEF CInv
<1>1. CTypes(P)'
  <2>1. Portion \in 1..Len(pipe)
    BY DEF CTypes, Portion, Read
  <2>2. SubSeq(pipe, 1, Portion) \in Seq(P) /\ SubSeq(pipe, Portion + 1, Len(pipe)) \in Seq(P)
    BY <2>1 DEF CTypes
  <2>3. str.used + Portion \in Nat /\ str.bytes \o SubSeq(pipe, 1, Portion) \in Seq(P)
    BY <2>1, <2>2 DEF CTypes, StrRec
  <2>4. str' \in StrRec(P)
    BY <2>3 DEF CTypes, StrRec, Read
  <2>. QED
    BY <2>2, <2>4 DEF CTypes, Read
<1>2. BufferHolds'
  <2>1. /\ Portion \in Nat /\ Portion <= Len(pipe) /\ Portion <= Chunk /\ Portion \in 1..Len(pipe)
        /\ pipe \in Seq(P)
    BY DEF CTypes, Portion, Read
  <2>2. /\ str'.used = str.used + Portion /\ str'.alloc = str.alloc /\ cmd' = cmd
        /\ str'.bytes = str.bytes \o SubSeq(pipe, 1, Portion)
    BY DEF CTypes, StrRec, Read
  <2>3. Len(str'.bytes) = Len(str.bytes) + Portion
    BY <2>1, <2>2 DEF CTypes, StrRec
  <2>4. str.alloc >= str.used + Chunk
    BY DEF CTypes, StrRec, Read, MustGrow
  <2>5. str.used = Len(str.bytes) /\ str.alloc <= MemMax /\ str.used \in Nat /\ str.alloc \in Nat
    BY DEF CTypes, StrRec, BufferHolds
  <2>6. str'.used <= str'.alloc
    BY <2>1, <2>2, <2>4, <2>5
  <2>7. cmd'.out = NoOutput
    BY <2>2 DEF EndsRight, Read
  <2>. QED
    BY <2>2, <2>3, <2>5, <2>6, <2>7 DEF BufferHolds
<1>3. EndsRight'
  BY <1>1 DEF CTypes, CmdRec, StrRec, ChildRec, EndsRight, Read, MustGrow, Portion
<1>4. FlowRight'
  <2>. DEFINE n == Portion
  <2>1. n \in 1..Len(pipe)
    BY DEF CTypes, Portion, Read
  <2>2. /\ str'.bytes = str.bytes \o SubSeq(pipe, 1, n)
        /\ pipe' = SubSeq(pipe, n + 1, Len(pipe))
        /\ cmd' = cmd /\ child' = child /\ cmd.pc = "read"
    BY DEF CTypes, StrRec, Read
  <2>3. /\ str.bytes \in Seq(P) /\ pipe \in Seq(P)
        /\ Len(str'.bytes) = Len(str.bytes) + n
        /\ \A k \in 1..Len(str'.bytes) :
             str'.bytes[k] = IF k <= Len(str.bytes) THEN str.bytes[k] ELSE pipe[k - Len(str.bytes)]
    BY <2>1, <2>2 DEF CTypes, StrRec
  <2>4. /\ Len(pipe') = Len(pipe) - n
        /\ \A k \in 1..Len(pipe') : pipe'[k] = pipe[n + k]
    BY <2>1, <2>2, <2>3
  <2>. HIDE DEF n
  <2>4a. /\ Len(str.bytes) \in Nat /\ Len(pipe) \in Nat /\ n \in Nat /\ n <= Len(pipe)
         /\ Len(str.bytes) + Len(pipe) = child.wrote
         /\ \A k \in 1..Len(str.bytes) : str.bytes[k] = child.text[k]
         /\ \A k \in 1..Len(pipe) : pipe[k] = child.text[Len(str.bytes) + k]
    BY <2>1, <2>2, <2>3 DEF FlowRight
  <2>5. Len(str'.bytes) + Len(pipe') = child.wrote
    BY <2>3, <2>4, <2>4a
  <2>6. \A k \in 1..Len(str'.bytes) : str'.bytes[k] = child.text[k]
    <3>1. SUFFICES ASSUME NEW k \in 1..Len(str'.bytes), k > Len(str.bytes)
                   PROVE  pipe[k - Len(str.bytes)] = child.text[k]
      BY <2>3, <2>4a
    <3>2. k - Len(str.bytes) \in 1..Len(pipe) /\ Len(str.bytes) + (k - Len(str.bytes)) = k
      BY <2>3, <2>4a, <3>1
    <3>. QED
      BY <2>4a, <3>2
  <2>7. \A k \in 1..Len(pipe') : pipe'[k] = child.text[Len(str'.bytes) + k]
    <3>1. SUFFICES ASSUME NEW k \in 1..Len(pipe')
                   PROVE  pipe[n + k] = child.text[Len(str.bytes) + n + k]
      BY <2>3, <2>4, <2>4a
    <3>2. n + k \in 1..Len(pipe) /\ Len(str.bytes) + (n + k) = Len(str.bytes) + n + k
      BY <2>4, <2>4a, <3>1
    <3>. QED
      BY <2>4a, <3>2
  <2>. QED
    BY <2>2, <2>5, <2>6, <2>7 DEF FlowRight
<1>5. OutputWhole'
  BY <1>1 DEF CTypes, CmdRec, StrRec, ChildRec, EndsRight, FlowRight, OutputWhole, Read, MustGrow, Portion
<1>6. NothingLeft'
  BY <1>1 DEF CTypes, CmdRec, StrRec, ChildRec, EndsRight, NothingLeft, Read, MustGrow, Portion
<1>. QED
  BY <1>1, <1>2, <1>3, <1>4, <1>5, <1>6

LEMMA EofWhole ==
  ASSUME NEW P, CInv(P), Eof
  PROVE  /\ child' = child /\ cmd'.out = str.bytes
         /\ child.state \in {"exited", "killed"}
         /\ str.bytes = SubSeq(child.text, 1, child.wrote)
         /\ child.state = "exited" => str.bytes = child.text
<1>. USE SizeAssumption DEF CInv
<1>1. child' = child /\ cmd'.out = str.bytes
  BY DEF CTypes, CmdRec, Eof, ReadOver
<1>2. child.state \in {"exited", "killed"} /\ Len(str.bytes) = child.wrote
  BY DEF EndsRight, FlowRight, Eof, AllWritersGone
<1>3. str.bytes = SubSeq(child.text, 1, child.wrote)
  BY <1>2 DEF CTypes, StrRec, ChildRec, FlowRight, Eof
<1>4. child.state = "exited" => str.bytes = child.text
  BY <1>2 DEF CTypes, StrRec, ChildRec, FlowRight, Eof
<1>. QED
  BY <1>1, <1>2, <1>3, <1>4

LEMMA EofInv ==
  ASSUME NEW P, CInv(P), Eof
  PROVE  CInv(P)'
<1>. USE SizeAssumption DEF CInv
<1>1. CTypes(P)'
  <2>1. cmd' \in CmdRec(P)
    BY ReadOverType DEF CTypes, StrRec, Eof
  <2>2. str' \in StrRec(P)
    BY DEF CTypes, StrRec, Eof
  <2>. QED
    BY <2>1, <2>2 DEF CTypes, Eof
<1>2. BufferHolds'
  BY <1>1 DEF CTypes, CmdRec, StrRec, ChildRec, BufferHolds, EndsRight, Eof, MustGrow, ReadOver, AllWritersGone
<1>3. EndsRight'
  BY <1>1 DEF CTypes, CmdRec, StrRec, ChildRec, EndsRight, Eof, MustGrow, ReadOver, AllWritersGone
<1>4. FlowRight'
  BY <1>1 DEF CTypes, CmdRec, StrRec, ChildRec, EndsRight, FlowRight, Eof, MustGrow, ReadOver, AllWritersGone
<1>5. OutputWhole'
  BY EofWhole DEF OutputWhole
<1>6. NothingLeft'
  BY <1>1 DEF CTypes, CmdRec, StrRec, ChildRec, EndsRight, NothingLeft, Eof, MustGrow, ReadOver, AllWritersGone
<1>. QED
  BY <1>1, <1>2, <1>3, <1>4, <1>5, <1>6

LEMMA ReadFailsInv ==
  ASSUME NEW P, CInv(P), ReadFails
  PROVE  CInv(P)'
<1>. USE SizeAssumption DEF CInv
<1>1. CTypes(P)'
  <2>1. cmd' \in CmdRec(P)
    BY ReadOverType DEF CTypes, ReadFails
  <2>. QED
    BY <2>1, NoStrType DEF CTypes, ReadFails
<1>2. BufferHolds'
  BY <1>1 DEF CTypes, CmdRec, StrRec, ChildRec, BufferHolds, EndsRight, ReadFails, ReadOver, NoStr
<1>3. EndsRight'
  BY <1>1 DEF CTypes, CmdRec, StrRec, ChildRec, EndsRight, ReadFails, ReadOver, NoStr
<1>4. FlowRight'
  BY <1>1 DEF CTypes, CmdRec, StrRec, ChildRec, EndsRight, FlowRight, ReadFails, ReadOver, NoStr
<1>5. OutputWhole'
  BY <1>1 DEF CTypes, CmdRec, StrRec, ChildRec, EndsRight, FlowRight, OutputWhole, ReadFails, ReadOver, NoStr
<1>6. NothingLeft'
  BY <1>1 DEF CTypes, CmdRec, StrRec, ChildRec, EndsRight, NothingLeft, ReadFails, ReadOver, NoStr
<1>. QED
  BY <1>1, <1>2, <1>3, <1>4, <1>5, <1>6

LEMMA ReapInv ==
  ASSUME NEW P, CInv(P), Reap
  PROVE  CInv(P)'
<1>. USE SizeAssumption DEF CInv
<1>1. CTypes(P)'
  BY DEF CTypes, CmdRec, StrRec, ChildRec, Reap
<1>2. BufferHolds'
  BY <1>1 DEF CTypes, CmdRec, StrRec, ChildRec, BufferHolds, EndsRight, Reap
<1>3. EndsRight'
  BY <1>1 DEF CTypes, CmdRec, StrRec, ChildRec, EndsRight, Reap
<1>4. FlowRight'
  BY <1>1 DEF CTypes, CmdRec, StrRec, ChildRec, EndsRight, FlowRight, Reap
<1>5. OutputWhole'
  BY <1>1 DEF CTypes, CmdRec, StrRec, ChildRec, EndsRight, FlowRight, OutputWhole, Reap
<1>6. NothingLeft'
  BY <1>1 DEF CTypes, CmdRec, StrRec, ChildRec, EndsRight, NothingLeft, Reap
<1>. QED
  BY <1>1, <1>2, <1>3, <1>4, <1>5, <1>6

LEMMA WaitFailsInv ==
  ASSUME NEW P, CInv(P), WaitFails
  PROVE  CInv(P)'
<1>. USE SizeAssumption DEF CInv
<1>1. CTypes(P)'
  BY DEF CTypes, CmdRec, StrRec, ChildRec, WaitFails
<1>2. BufferHolds'
  BY <1>1 DEF CTypes, CmdRec, StrRec, ChildRec, BufferHolds, EndsRight, WaitFails
<1>3. EndsRight'
  BY <1>1 DEF CTypes, CmdRec, StrRec, ChildRec, EndsRight, WaitFails
<1>4. FlowRight'
  BY <1>1 DEF CTypes, CmdRec, StrRec, ChildRec, EndsRight, FlowRight, WaitFails
<1>5. OutputWhole'
  BY <1>1 DEF CTypes, CmdRec, StrRec, ChildRec, EndsRight, FlowRight, OutputWhole, WaitFails
<1>6. NothingLeft'
  BY <1>1 DEF CTypes, CmdRec, StrRec, ChildRec, EndsRight, NothingLeft, WaitFails
<1>. QED
  BY <1>1, <1>2, <1>3, <1>4, <1>5, <1>6

LEMMA ChildWritesInv ==
  ASSUME NEW P, CInv(P), ChildWrites
  PROVE  CInv(P)'
<1>. USE SizeAssumption DEF CInv
<1>1. CTypes(P)'
  <2>1. child.text[child.wrote + 1] \in P
    BY DEF CTypes, ChildRec, ChildWrites
  <2>2. child' \in ChildRec(P)
    <3>1. child \in ChildRec(P) /\ child' = [child EXCEPT !.wrote = child.wrote + 1]
      BY DEF CTypes, ChildWrites
    <3>. QED
      BY <3>1 DEF ChildRec
  <2>3. pipe' \in Seq(P)
    BY <2>1 DEF CTypes, ChildWrites
  <2>. QED
    BY <2>2, <2>3 DEF CTypes, ChildWrites
<1>2. BufferHolds'
  BY <1>1 DEF CTypes, CmdRec, StrRec, ChildRec, BufferHolds, EndsRight, ChildWrites
<1>3. EndsRight'
  BY <1>1 DEF CTypes, CmdRec, StrRec, ChildRec, EndsRight, ChildWrites
<1>4. FlowRight'
  <2>1. /\ child'.wrote = child.wrote + 1 /\ child'.text = child.text
        /\ child'.state = "running" /\ cmd' = cmd /\ str' = str
    BY DEF CTypes, ChildRec, ChildWrites
  <2>2. /\ pipe \in Seq(P) /\ str.bytes \in Seq(P) /\ child.text \in Seq(P)
        /\ pipe' = Append(pipe, child.text[child.wrote + 1]) /\ pipe' \in Seq(P)
    BY <1>1 DEF CTypes, StrRec, ChildRec, ChildWrites
  <2>2a. /\ child.wrote \in Nat /\ Len(child.text) \in Nat /\ child.wrote < Len(child.text)
         /\ Len(pipe) \in Nat /\ Len(str.bytes) \in Nat /\ Len(pipe') = Len(pipe) + 1
    BY <2>2 DEF CTypes, ChildRec, ChildWrites
  <2>3. \A k \in 1..Len(pipe') :
          pipe'[k] = IF k <= Len(pipe) THEN pipe[k] ELSE child.text[child.wrote + 1]
    BY <2>2
  <2>. DEFINE w == child.wrote
              p == Len(pipe)
              b == Len(str.bytes)
              t == Len(child.text)
  <2>4. CASE cmd.pc \in {"close", "read"}
    <3>1. /\ w \in Nat /\ p \in Nat /\ b \in Nat /\ t \in Nat /\ w < t
          /\ b + p = w /\ Len(pipe') = p + 1
      BY <2>2, <2>2a, <2>4 DEF FlowRight
    <3>2. /\ \A k \in 1..p : pipe[k] = child.text[b + k]
          /\ \A k \in 1..p : pipe'[k] = pipe[k]
          /\ pipe'[p + 1] = child.text[w + 1]
          /\ \A k \in 1..b : str.bytes[k] = child.text[k]
      BY <2>2, <2>2a, <2>3, <2>4 DEF FlowRight
    <3>. HIDE DEF w, p, b, t
    <3>3. b + (p + 1) = w + 1 /\ w + 1 <= t
      BY <3>1
    <3>4. \A k \in 1..(p + 1) : k \in 1..p \/ k = p + 1
      BY <3>1
    <3>5. \A k \in 1..Len(pipe') : pipe'[k] = child.text[b + k]
      BY <3>1, <3>2, <3>3, <3>4
    <3>6. b + Len(pipe') = w + 1
      BY <3>1, <3>3
    <3>. QED
      BY <2>1, <3>2, <3>3, <3>5, <3>6 DEF FlowRight, w, b, t
  <2>5. CASE cmd.pc \notin {"close", "read"}
    <3>1. w \in Nat /\ t \in Nat /\ w < t
      BY <2>2a
    <3>. HIDE DEF w, t
    <3>2. w + 1 <= t
      BY <3>1
    <3>. QED
      BY <2>1, <2>5, <3>2 DEF FlowRight, w, t
  <2>. QED
    BY <2>4, <2>5
<1>5. OutputWhole'
  BY <1>1 DEF CTypes, CmdRec, StrRec, ChildRec, EndsRight, FlowRight, OutputWhole, ChildWrites
<1>6. NothingLeft'
  BY <1>1 DEF CTypes, CmdRec, StrRec, ChildRec, EndsRight, NothingLeft, ChildWrites
<1>. QED
  BY <1>1, <1>2, <1>3, <1>4, <1>5, <1>6

LEMMA ChildBrokenPipeInv ==
  ASSUME NEW P, CInv(P), ChildBrokenPipe
  PROVE  CInv(P)'
<1>. USE SizeAssumption DEF CInv
<1>1. CTypes(P)'
  BY DEF CTypes, CmdRec, StrRec, ChildRec, ChildBrokenPipe
<1>2. BufferHolds'
  BY <1>1 DEF CTypes, CmdRec, StrRec, ChildRec, BufferHolds, EndsRight, ChildBrokenPipe
<1>3. EndsRight'
  BY <1>1 DEF CTypes, CmdRec, StrRec, ChildRec, EndsRight, ChildBrokenPipe
<1>4. FlowRight'
  BY <1>1 DEF CTypes, CmdRec, StrRec, ChildRec, EndsRight, FlowRight, ChildBrokenPipe
<1>5. OutputWhole'
  BY <1>1 DEF CTypes, CmdRec, StrRec, ChildRec, EndsRight, FlowRight, OutputWhole, ChildBrokenPipe
<1>6. NothingLeft'
  BY <1>1 DEF CTypes, CmdRec, StrRec, ChildRec, EndsRight, NothingLeft, ChildBrokenPipe
<1>. QED
  BY <1>1, <1>2, <1>3, <1>4, <1>5, <1>6

LEMMA ChildExitsInv ==
  ASSUME NEW P, NEW status \in {0, 1}, CInv(P), ChildExits(status)
  PROVE  CInv(P)'
<1>. USE SizeAssumption DEF CInv
<1>1. CTypes(P)'
  BY DEF CTypes, CmdRec, StrRec, ChildRec, ChildExits
<1>2. BufferHolds'
  BY <1>1 DEF CTypes, CmdRec, StrRec, ChildRec, BufferHolds, EndsRight, ChildExits
<1>3. EndsRight'
  BY <1>1 DEF CTypes, CmdRec, StrRec, ChildRec, EndsRight, ChildExits
<1>4. FlowRight'
  BY <1>1 DEF CTypes, CmdRec, StrRec, ChildRec, EndsRight, FlowRight, ChildExits
<1>5. OutputWhole'
  BY <1>1 DEF CTypes, CmdRec, StrRec, ChildRec, EndsRight, FlowRight, OutputWhole, ChildExits
<1>6. NothingLeft'
  BY <1>1 DEF CTypes, CmdRec, StrRec, ChildRec, EndsRight, NothingLeft, ChildExits
<1>. QED
  BY <1>1, <1>2, <1>3, <1>4, <1>5, <1>6

LEMMA ChildKilledInv ==
  ASSUME NEW P, CInv(P), ChildKilled
  PROVE  CInv(P)'
<1>. USE SizeAssumption DEF CInv
<1>1. CTypes(P)'
  BY DEF CTypes, CmdRec, StrRec, ChildRec, ChildKilled
<1>2. BufferHolds'
  BY <1>1 DEF CTypes, CmdRec, StrRec, ChildRec, BufferHolds, EndsRight, ChildKilled
<1>3. EndsRight'
  BY <1>1 DEF CTypes, CmdRec, StrRec, ChildRec, EndsRight, ChildKilled
<1>4. FlowRight'
  BY <1>1 DEF CTypes, CmdRec, StrRec, ChildRec, EndsRight, FlowRight, ChildKilled
<1>5. OutputWhole'
  BY <1>1 DEF CTypes, CmdRec, StrRec, ChildRec, EndsRight, FlowRight, OutputWhole, ChildKilled
<1>6. NothingLeft'
  BY <1>1 DEF CTypes, CmdRec, StrRec, ChildRec, EndsRight, NothingLeft, ChildKilled
<1>. QED
  BY <1>1, <1>2, <1>3, <1>4, <1>5, <1>6

(***************************************************************************)
(* The driver tool around it.                                              *)
(***************************************************************************)

Bits == {"row", "key", "end"}

ToolRec ==
  [pc : {"idle", "locate", "bootctl", "copy", "delete", "done"},
   oper : {"none", "add", "remove"}, seen : BOOLEAN,
   todo : SUBSET Driver, open : SUBSET Driver, cut : SUBSET Driver, ret : {0, 1}]

TransRec == [new : Package, gone : SUBSET Driver, left : SUBSET Driver]

ETypes ==
  /\ efivars \in BOOLEAN
  /\ pkg \in Package
  /\ esp \in [Driver -> 0..Part]
  /\ phase \in {"idle", "commit", "removeRun", "install", "installRun"}
  /\ trans \in TransRec
  /\ tool \in ToolRec
  /\ \A d, e \in tool.open : d = e
  /\ nTrans \in 0..MaxTrans /\ nFaults \in 0..MaxFaults

\* The files of the package stand still while the tool runs, and a hook's run
\* does what the hook asks for.
RunRight ==
  /\ tool.pc # "idle" => phase \in {"idle", "removeRun", "installRun"} /\ tool.oper # "none"
  /\ phase = "removeRun" => tool.oper = "remove"
  /\ phase = "installRun" => tool.oper = "add"
  /\ tool.pc = "copy" => tool.oper = "add"
  /\ tool.pc = "delete" => tool.oper = "remove"
  /\ tool.open # {} => tool.pc = "copy"

\* A driver that is no longer to do, and was not cut, has its copy, whatever was
\* there before.
CopyRight ==
  tool.pc = "copy" =>
    \A d \in Driver :
      pkg[d] # 0 => d \in tool.todo \cup tool.open \/ d \in tool.cut \/ esp[d] = pkg[d]

EInv ==
  /\ ETypes
  /\ CInv(Bits)
  /\ RunRight
  /\ CopyRight
  /\ AddDone

LEMMA EInit == Init => EInv
<1>. SUFFICES ASSUME Init PROVE EInv
  OBVIOUS
<1>1. pkg \in [Driver -> 0..Part] /\ NoFiles \in Package
  BY BoundAssumption DEF Init, Package, Part, NoFiles
<1>2. ETypes
  BY <1>1, BoundAssumption DEF Init, ETypes, IdleTool, ToolRec, NoTrans, TransRec
<1>3. CInv(Bits)
  BY CmdInitInv DEF Init
<1>4. RunRight /\ CopyRight /\ AddDone
  BY DEF Init, IdleTool, RunRight, CopyRight, AddDone
<1>. QED
  BY <1>2, <1>3, <1>4 DEF EInv

(* What run_cmd_output does between two steps of the tool.                 *)

LEMMA ParentStepInv ==
  ASSUME NEW P, CInv(P), ParentStep
  PROVE  CInv(P)'
BY CloseWriteInv, GrowInv, GrowTooBigInv, ReadInv, EofInv, ReapInv DEF ParentStep

LEMMA ChildStepInv ==
  ASSUME NEW P, CInv(P), ChildStep
  PROVE  CInv(P)'
BY ChildWritesInv, ChildBrokenPipeInv, ChildExitsInv DEF ChildStep

LEMMA CmdFailureInv ==
  ASSUME NEW P, CInv(P), CmdFailure
  PROVE  CInv(P)'
BY SpawnFailsInv, CloseWriteFailsInv, GrowLessInv, ReadFailsInv, WaitFailsInv, ChildKilledInv
   DEF CmdFailure

LEMMA CmdStutterInv ==
  ASSUME NEW P, CInv(P), UNCHANGED cvars
  PROVE  CInv(P)'
BY DEF cvars, CInv, CTypes, BufferHolds, EndsRight, FlowRight, OutputWhole, NothingLeft

LEMMA FaultType ==
  ASSUME nFaults \in 0..MaxFaults, Fault
  PROVE  nFaults' \in 0..MaxFaults
BY BoundAssumption DEF Fault

LEMMA EndsWithInv ==
  ASSUME ETypes, RunRight, NEW seen \in BOOLEAN, NEW ok \in BOOLEAN,
         EndsWith(seen, ok), tool.pc # "idle",
         ok /\ tool.oper = "add" => \A d \in Names(pkg) \ tool.cut : esp[d] = pkg[d],
         UNCHANGED <<efivars, pkg, esp, phase, trans, nTrans>>, nFaults' \in 0..MaxFaults
  PROVE  ETypes' /\ RunRight' /\ CopyRight' /\ AddDone'
<1>1. /\ tool' \in ToolRec /\ tool'.pc = "done" /\ tool'.oper = tool.oper /\ tool'.open = {}
      /\ tool'.cut = tool.cut
  BY DEF ETypes, ToolRec, EndsWith
<1>2. tool'.seen /\ tool'.ret = 0 => ok
  BY DEF ETypes, ToolRec, EndsWith
<1>3. ETypes'
  BY <1>1 DEF ETypes
<1>4. RunRight' /\ CopyRight'
  BY <1>1 DEF RunRight, CopyRight
<1>5. AddDone'
  BY <1>1, <1>2 DEF AddDone, Names
<1>. QED
  BY <1>3, <1>4, <1>5

LEMMA PartType == 0 \in 0..Part /\ Part \in 0..Part
BY BoundAssumption DEF Part

LEMMA NewRunType ==
  ASSUME NEW oper \in {"add", "remove"}
  PROVE  /\ NewRun(oper) \in ToolRec
         /\ NewRun(oper).pc = "locate" /\ NewRun(oper).oper = oper
         /\ NewRun(oper).open = {} /\ NewRun(oper).cut = {}
BY DEF NewRun, IdleTool, ToolRec

LEMMA EBegin ==
  ASSUME EInv, Begin
  PROVE  EInv'
<1>. USE DEF EInv
<1>1. CInv(Bits)'
  BY CmdStutterInv DEF Begin
<1>2. ETypes'
  <2>1. PICK new \in Package :
          trans' = [new |-> new, gone |-> Names(pkg) \ Names(new), left |-> Names(pkg) \cup Names(new)]
    BY DEF Begin
  <2>2. trans' \in TransRec
    BY <2>1 DEF TransRec, Names
  <2>. QED
    BY <2>2, BoundAssumption DEF ETypes, Begin
<1>3. RunRight' /\ CopyRight' /\ AddDone'
  BY DEF Begin, RunRight, CopyRight, AddDone
<1>. QED
  BY <1>1, <1>2, <1>3 DEF EInv

LEMMA ECommit ==
  ASSUME EInv, NEW d \in Driver, Commit(d)
  PROVE  EInv'
<1>. USE DEF EInv
<1>1. CInv(Bits)'
  BY CmdStutterInv DEF Commit
<1>2. ETypes'
  <2>1. pkg' \in Package /\ trans' \in TransRec
    BY DEF ETypes, Commit, TransRec, Package
  <2>. QED
    BY <2>1 DEF ETypes, Commit
<1>3. RunRight' /\ CopyRight' /\ AddDone'
  <2>1. tool.pc = "idle"
    BY DEF RunRight, Commit
  <2>. QED
    BY <2>1 DEF Commit, RunRight, CopyRight, AddDone
<1>. QED
  BY <1>1, <1>2, <1>3 DEF EInv

LEMMA ERemoveHook ==
  ASSUME EInv, RemoveHook
  PROVE  EInv'
<1>. USE DEF EInv
<1>1. CInv(Bits)'
  BY CmdStutterInv DEF RemoveHook
<1>2. ETypes'
  BY NewRunType DEF ETypes, RemoveHook
<1>3. RunRight' /\ CopyRight' /\ AddDone'
  BY NewRunType DEF RemoveHook, RunRight, CopyRight, AddDone
<1>. QED
  BY <1>1, <1>2, <1>3 DEF EInv

LEMMA EInstallHook ==
  ASSUME EInv, InstallHook
  PROVE  EInv'
<1>. USE DEF EInv
<1>1. CInv(Bits)'
  BY CmdStutterInv DEF InstallHook
<1>2. ETypes'
  <2>1. NoTrans \in TransRec
    BY BoundAssumption DEF NoTrans, NoFiles, TransRec, Package
  <2>. QED
    BY <2>1, NewRunType DEF ETypes, InstallHook
<1>3. RunRight' /\ CopyRight' /\ AddDone'
  BY NewRunType DEF InstallHook, RunRight, CopyRight, AddDone
<1>. QED
  BY <1>1, <1>2, <1>3 DEF EInv

LEMMA EAdminRun ==
  ASSUME EInv, NEW oper \in AdminOpers, AdminRun(oper)
  PROVE  EInv'
<1>. USE DEF EInv
<1>0. oper \in {"add", "remove"}
  BY OperAssumption
<1>1. CInv(Bits)'
  BY CmdStutterInv DEF AdminRun
<1>2. ETypes'
  BY <1>0, NewRunType DEF ETypes, AdminRun
<1>3. RunRight' /\ CopyRight' /\ AddDone'
  BY <1>0, NewRunType DEF AdminRun, RunRight, CopyRight, AddDone
<1>. QED
  BY <1>1, <1>2, <1>3 DEF EInv

LEMMA ELocates ==
  ASSUME EInv, NEW seen \in BOOLEAN, Locates(seen), nFaults' \in 0..MaxFaults
  PROVE  EInv'
<1>. USE DEF EInv
<1>1. CInv(Bits)'
  BY CalledInv DEF Locates
<1>2. ETypes'
  <2>1. tool' \in ToolRec /\ tool'.open = tool.open
    BY DEF ETypes, ToolRec, Locates
  <2>. QED
    BY <2>1 DEF ETypes, Locates
<1>3. RunRight' /\ CopyRight' /\ AddDone'
  BY DEF ETypes, ToolRec, Locates, RunRight, CopyRight, AddDone
<1>. QED
  BY <1>1, <1>2, <1>3 DEF EInv

LEMMA EStart ==
  ASSUME EInv, Start \/ StartUnseen
  PROVE  EInv'
<1>1. efivars \in BOOLEAN /\ nFaults' \in 0..MaxFaults
  BY FaultType DEF EInv, ETypes, Start, StartUnseen
<1>. QED
  BY <1>1, ELocates DEF Start, StartUnseen

LEMMA EBootctl ==
  ASSUME EInv, Bootctl
  PROVE  EInv'
<1>. USE DEF EInv
<1>1. CInv(Bits)'
  <2>1. ASSUME NEW text \in IF efivars THEN Texts ELSE NoEspTexts, Spawn(text)
        PROVE  CInv(Bits)'
    BY <2>1, SpawnInv, TextAssumption DEF Bits
  <2>. QED
    BY <2>1, ParentStepInv, ChildStepInv DEF Bootctl
<1>2. ETypes'
  BY DEF ETypes, Bootctl, evars
<1>3. RunRight' /\ CopyRight' /\ AddDone'
  BY DEF Bootctl, evars, RunRight, CopyRight, AddDone
<1>. QED
  BY <1>1, <1>2, <1>3 DEF EInv

LEMMA EBootctlFails ==
  ASSUME EInv, BootctlFails
  PROVE  EInv'
<1>. USE DEF EInv
<1>1. CInv(Bits)'
  BY CmdFailureInv DEF BootctlFails
<1>2. ETypes'
  BY FaultType DEF ETypes, BootctlFails
<1>3. RunRight' /\ CopyRight' /\ AddDone'
  BY DEF BootctlFails, RunRight, CopyRight, AddDone
<1>. QED
  BY <1>1, <1>2, <1>3 DEF EInv

LEMMA ELocated ==
  ASSUME EInv, Located
  PROVE  EInv'
<1>. USE DEF EInv
<1>1. CInv(Bits)'
  BY CmdResetInv DEF Located
<1>a. /\ UNCHANGED <<efivars, pkg, esp, phase, trans, nTrans, nFaults>> /\ tool.pc = "bootctl"
      /\ nFaults' \in 0..MaxFaults
  BY DEF Located, ETypes
<1>b. tool.seen \in BOOLEAN
  BY DEF ETypes, ToolRec
<1>2. CASE EndsWith(tool.seen, FALSE)
  BY <1>1, <1>2, <1>a, <1>b, EndsWithInv
<1>3. CASE Place = "cut" /\ EndsWith(tool.seen, tool.oper = "remove")
  BY <1>1, <1>3, <1>a, <1>b, EndsWithInv
<1>4. CASE tool.oper = "add" /\ tool' = [tool EXCEPT !.pc = "copy", !.todo = Names(pkg)]
  <2>1. /\ tool' \in ToolRec /\ tool'.open = tool.open /\ tool'.oper = tool.oper
        /\ tool'.pc = "copy" /\ tool'.todo = Names(pkg)
    BY <1>4 DEF ETypes, ToolRec, Names
  <2>. QED
    BY <1>1, <1>4, <1>a, <2>1 DEF ETypes, RunRight, CopyRight, AddDone, Names
<1>5. CASE tool.oper # "add" /\ tool' = [tool EXCEPT !.pc = "delete", !.todo = Names(esp)]
  <2>1. /\ tool' \in ToolRec /\ tool'.open = tool.open /\ tool'.oper = tool.oper
        /\ tool'.pc = "delete"
    BY <1>5 DEF ETypes, ToolRec, Names
  <2>2. tool.oper = "remove"
    BY <1>5, <1>a DEF ETypes, ToolRec, RunRight
  <2>. QED
    BY <1>1, <1>a, <2>1, <2>2 DEF ETypes, RunRight, CopyRight, AddDone
<1>. QED
  BY <1>2, <1>3, <1>4, <1>5 DEF Located, Place, EspIn

LEMMA EStartFails ==
  ASSUME EInv, StartFails
  PROVE  EInv'
<1>. USE DEF EInv
<1>1. CInv(Bits)'
  BY CmdResetInv DEF StartFails
<1>2. ETypes' /\ RunRight' /\ CopyRight' /\ AddDone'
  <2>1. nFaults' \in 0..MaxFaults
    BY FaultType DEF ETypes, StartFails
  <2>2. PICK seen \in BOOLEAN : EndsWith(seen, FALSE)
    BY DEF ETypes, ToolRec, StartFails
  <2>. QED
    BY <2>1, <2>2, EndsWithInv DEF StartFails
<1>. QED
  BY <1>1, <1>2

LEMMA EOpenCopy ==
  ASSUME EInv, OpenCopy
  PROVE  EInv'
<1>. USE DEF EInv
<1>1. CInv(Bits)'
  BY CmdStutterInv DEF OpenCopy
<1>2. PICK d \in tool.todo : /\ esp' = [esp EXCEPT ![d] = Part]
                             /\ tool' = [tool EXCEPT !.todo = @ \ {d}, !.open = {d}]
  BY DEF OpenCopy
<1>3. /\ tool' \in ToolRec /\ tool'.todo = tool.todo \ {d} /\ tool'.open = {d}
      /\ tool'.pc = tool.pc /\ tool'.oper = tool.oper /\ tool'.cut = tool.cut /\ d \in Driver
  BY <1>2 DEF ETypes, ToolRec
<1>4. ETypes'
  <2>1. esp' \in [Driver -> 0..Part]
    BY <1>2, PartType DEF ETypes
  <2>. QED
    BY <1>3, <2>1 DEF ETypes, OpenCopy
<1>5. CopyRight'
  BY <1>2, <1>3 DEF ETypes, CopyRight, OpenCopy
<1>6. RunRight' /\ AddDone'
  BY <1>3 DEF RunRight, AddDone, OpenCopy
<1>. QED
  BY <1>1, <1>4, <1>5, <1>6

LEMMA ECloseCopy ==
  ASSUME EInv, CloseCopy
  PROVE  EInv'
<1>. USE DEF EInv
<1>1. CInv(Bits)'
  BY CmdStutterInv DEF CloseCopy
<1>2. PICK d \in tool.open : /\ esp' = [esp EXCEPT ![d] = pkg[d]]
                             /\ tool' = [tool EXCEPT !.open = {}]
  BY DEF CloseCopy
<1>3. /\ tool' \in ToolRec /\ tool'.todo = tool.todo /\ tool'.open = {}
      /\ tool'.pc = tool.pc /\ tool'.oper = tool.oper /\ tool'.cut = tool.cut
      /\ d \in Driver /\ tool.open = {d}
  BY <1>2 DEF ETypes, ToolRec
<1>4. ETypes'
  <2>1. esp' \in [Driver -> 0..Part]
    BY <1>2, <1>3, BoundAssumption DEF ETypes, Part, Package
  <2>. QED
    BY <1>3, <2>1 DEF ETypes, CloseCopy
<1>5. CopyRight'
  BY <1>2, <1>3 DEF ETypes, CopyRight, CloseCopy
<1>6. RunRight' /\ AddDone'
  BY <1>3 DEF RunRight, AddDone, CloseCopy
<1>. QED
  BY <1>1, <1>4, <1>5, <1>6

LEMMA EDelete ==
  ASSUME EInv, Delete
  PROVE  EInv'
<1>. USE DEF EInv
<1>1. CInv(Bits)'
  BY CmdStutterInv DEF Delete
<1>2. PICK d \in tool.todo : /\ esp' = [esp EXCEPT ![d] = 0]
                             /\ tool' = [tool EXCEPT !.todo = @ \ {d}]
  BY DEF Delete
<1>3. /\ tool' \in ToolRec /\ tool'.open = tool.open /\ tool'.pc = tool.pc
      /\ tool'.oper = tool.oper
  BY <1>2 DEF ETypes, ToolRec
<1>4. ETypes'
  <2>1. esp' \in [Driver -> 0..Part]
    BY <1>2, PartType DEF ETypes
  <2>. QED
    BY <1>3, <2>1 DEF ETypes, Delete
<1>5. RunRight' /\ CopyRight' /\ AddDone'
  BY <1>3 DEF RunRight, CopyRight, AddDone, Delete
<1>. QED
  BY <1>1, <1>4, <1>5

\* A file is cut, or the directory: the driver is one nobody vouches for.
LEMMA ECut ==
  ASSUME EInv, CutCopy \/ CutList
  PROVE  EInv'
<1>. USE DEF EInv
<1>1. CInv(Bits)'
  BY CmdStutterInv DEF CutCopy, CutList
<1>2. /\ UNCHANGED <<efivars, pkg, esp, phase, trans, nTrans>> /\ tool.pc = "copy"
      /\ nFaults' \in 0..MaxFaults
  BY FaultType DEF ETypes, CutCopy, CutList
<1>3. /\ tool' \in ToolRec /\ tool'.pc = tool.pc /\ tool'.oper = tool.oper
      /\ tool'.open = {}
      /\ \A d \in Driver :
           d \in tool.todo \cup tool.open \/ d \in tool.cut =>
             d \in tool'.todo \cup tool'.open \/ d \in tool'.cut
  <2>1. CASE CutCopy
    <3>1. PICK d \in tool.open : tool' = [tool EXCEPT !.open = {}, !.cut = @ \cup {d}]
      BY <2>1 DEF CutCopy
    <3>2. tool.open = {d}
      BY DEF ETypes
    <3>. QED
      BY <3>1, <3>2 DEF ETypes, ToolRec
  <2>2. CASE CutList
    BY <2>2 DEF ETypes, ToolRec, CutList
  <2>. QED
    BY <2>1, <2>2
<1>4. ETypes'
  BY <1>2, <1>3 DEF ETypes
<1>5. RunRight' /\ CopyRight' /\ AddDone'
  BY <1>2, <1>3 DEF RunRight, CopyRight, AddDone
<1>. QED
  BY <1>1, <1>4, <1>5

LEMMA EFileFails ==
  ASSUME EInv, FileFails
  PROVE  EInv'
<1>. USE DEF EInv
<1>1. CInv(Bits)'
  BY CmdStutterInv DEF FileFails
<1>2. ETypes' /\ RunRight' /\ CopyRight' /\ AddDone'
  <2>1. nFaults' \in 0..MaxFaults
    BY FaultType DEF ETypes, FileFails
  <2>2. tool.seen \in BOOLEAN
    BY DEF ETypes, ToolRec
  <2>. QED
    BY <2>1, <2>2, EndsWithInv DEF FileFails
<1>. QED
  BY <1>1, <1>2

LEMMA EEndFiles ==
  ASSUME EInv, EndFiles
  PROVE  EInv'
<1>. USE DEF EInv
<1>1. CInv(Bits)'
  BY CmdStutterInv DEF EndFiles
<1>2. tool.oper = "add" => \A d \in Names(pkg) \ tool.cut : esp[d] = pkg[d]
  BY DEF EndFiles, RunRight, CopyRight, Names
<1>3. ETypes' /\ RunRight' /\ CopyRight' /\ AddDone'
  <2>1. nFaults' \in 0..MaxFaults
    BY DEF ETypes, EndFiles
  <2>2. tool.seen \in BOOLEAN
    BY DEF ETypes, ToolRec
  <2>. QED
    BY <1>2, <2>1, <2>2, EndsWithInv DEF EndFiles
<1>. QED
  BY <1>1, <1>3

LEMMA NoTransType == NoTrans \in TransRec /\ IdleTool \in ToolRec
BY BoundAssumption DEF NoTrans, NoFiles, TransRec, Package, IdleTool, ToolRec

LEMMA EExit ==
  ASSUME EInv, Exit
  PROVE  EInv'
<1>. USE DEF EInv
<1>1. CInv(Bits)'
  BY CmdStutterInv DEF Exit
<1>2. ETypes'
  BY NoTransType DEF ETypes, Exit, IdleTool
<1>3. RunRight' /\ CopyRight' /\ AddDone'
  BY DEF Exit, IdleTool, RunRight, CopyRight, AddDone
<1>. QED
  BY <1>1, <1>2, <1>3 DEF EInv

LEMMA ECrash ==
  ASSUME EInv, Crash
  PROVE  EInv'
<1>. USE DEF EInv
<1>1. CInv(Bits)'
  BY CmdResetInv DEF Crash
<1>2. ETypes'
  BY NoTransType, FaultType DEF ETypes, Crash, IdleTool
<1>3. RunRight' /\ CopyRight' /\ AddDone'
  BY DEF Crash, IdleTool, RunRight, CopyRight, AddDone
<1>. QED
  BY <1>1, <1>2, <1>3 DEF EInv

LEMMA EStutter ==
  ASSUME EInv, UNCHANGED vars
  PROVE  EInv'
<1>1. CInv(Bits)'
  BY CmdStutterInv DEF EInv, vars
<1>. QED
  BY <1>1 DEF EInv, vars, evars, ETypes, RunRight, CopyRight, AddDone

LEMMA ENext == EInv /\ [Next]_vars => EInv'
<1>. SUFFICES ASSUME EInv, [Next]_vars PROVE EInv'
  OBVIOUS
<1>1. CASE Begin \/ Pacman
  BY <1>1, EBegin, ECommit, ERemoveHook, EInstallHook DEF Pacman
<1>2. CASE \E oper \in AdminOpers : AdminRun(oper)
  BY <1>2, EAdminRun
<1>3. CASE Run
  BY <1>3, EStart, ELocated, EOpenCopy, ECloseCopy, EDelete, EEndFiles, EExit DEF Run
<1>4. CASE \/ Bootctl \/ StartUnseen \/ BootctlFails \/ StartFails
           \/ CutCopy \/ CutList \/ FileFails \/ Crash
  BY <1>4, EStart, EBootctl, EBootctlFails, EStartFails, ECut, EFileFails, ECrash
<1>5. CASE UNCHANGED vars
  BY <1>5, EStutter
<1>. QED
  BY <1>1, <1>2, <1>3, <1>4, <1>5 DEF Next

(* Types, and what the component and the tool promise.                     *)

LEMMA EAlways == Spec => []EInv
<1>1. Init => EInv
  BY EInit
<1>2. EInv /\ [Next]_vars => EInv'
  BY ENext
<1>. QED
  BY <1>1, <1>2, PTL DEF Spec

LEMMA AtMostOne ==
  ASSUME NEW S, \A d, e \in S : d = e
  PROVE  Cardinality(S) <= 1
<1>1. CASE S = {}
  BY <1>1, FS_EmptySet
<1>2. CASE S # {}
  <2>1. PICK d \in S : S = {d}
    BY <1>2
  <2>. QED
    <3>1. Cardinality({d}) = 1
      BY FS_Singleton
    <3>. QED
      BY <2>1, <3>1
<1>. QED
  BY <1>1, <1>2

\* Every variable of the tool, of its call of bootctl and of that child keeps
\* its type, and at most one driver is open for writing.
THEOREM EfiFsTypes == Spec => []TypeOK
<1>1. EInv => TypeOK
  BY AtMostOne DEF EInv, ETypes, TypeOK, ToolRec, TransRec, CInv, CTypes, CmdRec, StrRec, ChildRec,
     CmdTypeOK, Bits
<1>. QED
  BY <1>1, EAlways, PTL

\* Whatever failures and crashes left on the ESP before, an add that saw the efi
\* variables and exits with 0 leaves every driver of the package whole and
\* current, but for those its own fread, last fwrite or readdir failed on: nobody
\* asks.
THEOREM AddDoneAlways == Spec => []AddDone
<1>1. EInv => AddDone
  BY DEF EInv
<1>. QED
  BY <1>1, EAlways, PTL

\* read_child_output never writes past its buffer, for every CHUNK and MEM_MAX.
THEOREM BufferHoldsAlways == Spec => []BufferHolds
<1>1. EInv => BufferHolds
  BY DEF EInv, CInv
<1>. QED
  BY <1>1, EAlways, PTL

\* The output a caller of run_cmd_output gets is what the child wrote, for
\* every interleaving of writes and reads and every size of the pipe.
THEOREM OutputWholeAlways == Spec => []OutputWhole
<1>1. EInv => OutputWhole
  BY DEF EInv, CInv
<1>. QED
  BY <1>1, EAlways, PTL

\* run_cmd_output returns with both ends of the pipe closed and its child
\* reaped, on every path.
THEOREM NothingLeftAlways == Spec => []NothingLeft
<1>1. EInv => NothingLeft
  BY DEF EInv, CInv
<1>. QED
  BY <1>1, EAlways, PTL

(***************************************************************************)
(* Without failures the ESP has the package's drivers, if what bootctl     *)
(* prints names the ESP and fits the buffer and nobody but the hooks takes *)
(* drivers away.                                                           *)
(***************************************************************************)

EspNamed ==
  /\ NoOutput \notin Texts
  /\ \A t \in Texts :
       /\ Len(t) + Chunk <= MemMax
       /\ \E k \in DOMAIN t : t[k] = "key"
       /\ t[Len(t)] # "key"

OnlyAdds == AdminOpers \subseteq {"add"}

Good == nFaults = 0 /\ efivars

\* bootctl is heard to its end.
CmdFine ==
  tool.pc = "bootctl" =>
    /\ cmd.pc # "idle" /\ cmd.ret = 0
    /\ cmd.pc # "spawn" => child.text \in Texts /\ child.state \in {"running", "exited"}
    /\ cmd.pc \in {"reap", "returned"} => child.state = "exited" /\ cmd.out = child.text

\* What is still to commit is as on the ESP, what is committed is new.
CommitFine ==
  phase = "commit" =>
    /\ tool.pc = "idle"
    /\ \A d \in Driver : IF d \in trans.left THEN pkg[d] = esp[d] ELSE pkg[d] = trans.new[d]
    /\ \A d \in Driver : d \in trans.gone <=> esp[d] # 0 /\ trans.new[d] = 0

\* No driver is on the ESP that the package does not have.
NoneLeft == \A d \in Driver : pkg[d] = 0 => esp[d] = 0

HookFine ==
  /\ phase \in {"removeRun", "install", "installRun"} => pkg = trans.new
  /\ phase = "install" => tool.pc = "idle"
  /\ phase \in {"removeRun", "installRun"} => tool.pc # "idle"
  /\ phase = "install" \/ (tool.pc # "idle" /\ tool.oper = "add") => NoneLeft
  /\ phase = "idle" => IF tool.pc = "idle" THEN esp = pkg ELSE tool.oper = "add"

FilesFine ==
  /\ tool.cut = {}
  /\ tool.pc = "delete" => \A d \in Driver : d \in tool.todo \/ esp[d] = 0
  /\ tool.pc = "copy" => tool.todo \cup tool.open \subseteq Names(pkg)
  /\ tool.pc = "done" => /\ tool.oper = "add" => esp = pkg
                         /\ tool.oper = "remove" => esp = NoFiles

DInv == Good => CmdFine /\ CommitFine /\ HookFine /\ FilesFine

LEMMA DInit == Init => DInv
BY DEF Init, DInv, CmdFine, CommitFine, HookFine, FilesFine, IdleTool

LEMMA DCommandStep ==
  ASSUME EspNamed, EInv, EInv', CmdFine, efivars, Bootctl
  PROVE  CmdFine'
<1>. USE DEF EInv
<1>0. tool.pc = "bootctl" /\ tool' = tool
  BY DEF Bootctl, evars
<1>1. ASSUME NEW text \in Texts, Spawn(text)
      PROVE  CmdFine'
  BY <1>0, <1>1 DEF CInv, CTypes, CmdRec, CmdFine, Spawn, NoChild
<1>2. CASE CloseWrite \/ Grow \/ Read
  BY <1>0, <1>2 DEF CInv, CTypes, CmdRec, CmdFine, CloseWrite, Grow, Read
<1>3. CASE GrowTooBig
  <2>1. Len(str.bytes) <= Len(child.text) /\ Len(child.text) + Chunk <= MemMax
    <3>. DEFINE b == Len(str.bytes)
                p == Len(pipe)
                w == child.wrote
                t == Len(child.text)
    <3>1. /\ b \in Nat /\ p \in Nat /\ w \in Nat /\ t \in Nat
          /\ b + p = w /\ w <= t /\ t + Chunk <= MemMax
      BY <1>0, <1>3 DEF GrowTooBig, CInv, CTypes, StrRec, ChildRec, FlowRight, CmdFine, EspNamed
    <3>. HIDE DEF b, p, w, t
    <3>2. b <= t
      BY <3>1
    <3>. QED
      BY <3>1, <3>2 DEF b, t
  <2>2. /\ str.used = Len(str.bytes) /\ str.used \in Nat /\ str.alloc \in Nat /\ str.alloc <= MemMax
        /\ Len(child.text) \in Nat
    BY DEF CInv, CTypes, StrRec, ChildRec, BufferHolds
  <2>3. NewSize(str) <= MemMax
    <3>. DEFINE u == str.used
                a == str.alloc
                t == Len(child.text)
    <3>1. u \in Nat /\ a \in Nat /\ t \in Nat /\ u <= t /\ t + Chunk <= MemMax
      BY <2>1, <2>2
    <3>2. NewSize(str) = IF 2 * a > u + Chunk /\ 2 * a <= MemMax THEN 2 * a ELSE u + Chunk
      BY DEF NewSize, Needed
    <3>. HIDE DEF u, a, t
    <3>3. u + Chunk <= MemMax
      BY <3>1, SizeAssumption
    <3>. QED
      BY <3>1, <3>2, <3>3, SizeAssumption
  <2>4. NewSize(str) \in Nat
    BY SizeType DEF CInv, CTypes
  <2>. QED
    BY <1>3, <2>3, <2>4, SizeAssumption DEF GrowTooBig
<1>4. CASE Eof
  BY <1>0, <1>4, EofWhole DEF CInv, CTypes, CmdRec, CmdFine, Eof, ReadOver, AllWritersGone
<1>5. CASE Reap
  BY <1>0, <1>5 DEF CInv, CTypes, CmdRec, ChildRec, CmdFine, Reap
<1>6. CASE ChildWrites
  BY <1>0, <1>6 DEF CInv, CTypes, ChildRec, CmdFine, ChildWrites
<1>7. CASE ChildBrokenPipe
  BY <1>0, <1>7 DEF CInv, CTypes, CmdRec, EndsRight, CmdFine, ChildBrokenPipe
<1>8. ASSUME NEW status \in {0, 1}, ChildExits(status)
      PROVE  CmdFine'
  BY <1>0, <1>8 DEF CInv, CTypes, ChildRec, CmdFine, ChildExits
<1>. QED
  BY <1>1, <1>2, <1>3, <1>4, <1>5, <1>6, <1>7, <1>8 DEF Bootctl, ParentStep, ChildStep

LEMMA DBegin ==
  ASSUME EInv, EInv', DInv, Begin
  PROVE  DInv'
<1>. SUFFICES ASSUME Good' PROVE CmdFine' /\ CommitFine' /\ HookFine' /\ FilesFine'
  BY DEF DInv
<1>. USE DEF EInv
<1>1. /\ CmdFine /\ CommitFine /\ HookFine /\ FilesFine
      /\ Good
  BY DEF DInv, Good, Begin
<1>2. CmdFine'
  BY <1>1 DEF CmdFine, CommitFine, HookFine, RunRight, Begin, cvars
<1>3. CommitFine'
  <2>1. PICK new \in Package :
          trans' = [new |-> new, gone |-> Names(pkg) \ Names(new), left |-> Names(pkg) \cup Names(new)]
    BY DEF Begin
  <2>2. pkg = esp /\ UNCHANGED <<pkg, esp, tool>> /\ tool.pc = "idle"
    BY <1>1 DEF HookFine, Begin
  <2>3. /\ trans'.new = new /\ trans'.gone = Names(pkg) \ Names(new)
        /\ trans'.left = Names(pkg) \cup Names(new)
    BY <2>1
  <2>. QED
    BY <2>2, <2>3 DEF CommitFine, Names
<1>4. HookFine'
  BY <1>1 DEF HookFine, CommitFine, NoneLeft, RunRight, Begin
<1>5. FilesFine'
  BY <1>1 DEF FilesFine, RunRight, Begin
<1>. QED
  BY <1>2, <1>3, <1>4, <1>5

LEMMA DCommit ==
  ASSUME EInv, EInv', DInv, NEW d \in Driver, Commit(d)
  PROVE  DInv'
<1>. SUFFICES ASSUME Good' PROVE CmdFine' /\ CommitFine' /\ HookFine' /\ FilesFine'
  BY DEF DInv
<1>. USE DEF EInv
<1>1. /\ CmdFine /\ CommitFine /\ HookFine /\ FilesFine
      /\ Good
  BY DEF DInv, Good, Commit
<1>2. CmdFine'
  BY <1>1 DEF CmdFine, CommitFine, HookFine, RunRight, Commit, cvars
<1>3. CommitFine'
  <2>1. /\ trans'.new = trans.new /\ trans'.gone = trans.gone /\ trans'.left = trans.left \ {d}
        /\ pkg' = [pkg EXCEPT ![d] = trans.new[d]] /\ UNCHANGED <<esp, tool>>
        /\ phase = "commit"
    BY DEF ETypes, TransRec, Commit
  <2>. QED
    BY <1>1, <2>1 DEF ETypes, Package, CommitFine
<1>4. HookFine'
  BY <1>1 DEF HookFine, CommitFine, NoneLeft, RunRight, Commit
<1>5. FilesFine'
  BY <1>1 DEF FilesFine, RunRight, Commit
<1>. QED
  BY <1>2, <1>3, <1>4, <1>5

LEMMA DRemoveHook ==
  ASSUME EInv, EInv', DInv, RemoveHook
  PROVE  DInv'
<1>. SUFFICES ASSUME Good' PROVE CmdFine' /\ CommitFine' /\ HookFine' /\ FilesFine'
  BY DEF DInv
<1>. USE DEF EInv
<1>1. /\ CmdFine /\ CommitFine /\ HookFine /\ FilesFine
      /\ Good
  BY DEF DInv, Good, RemoveHook
<1>2. CmdFine'
  BY <1>1, NewRunType DEF CmdFine, CommitFine, HookFine, RunRight, RemoveHook, cvars
<1>3. CommitFine'
  BY <1>1, NewRunType DEF CommitFine, RunRight, RemoveHook
<1>4. HookFine'
  <2>1. pkg = trans.new
    BY <1>1 DEF ETypes, Package, TransRec, CommitFine, RemoveHook
  <2>2. CASE trans.gone = {}
    <3>1. NoneLeft
      BY <1>1, <2>1, <2>2 DEF CommitFine, NoneLeft, RemoveHook
    <3>. QED
      BY <1>1, <2>1, <2>2, <3>1 DEF HookFine, CommitFine, NoneLeft, RemoveHook
  <2>3. CASE trans.gone # {}
    BY <2>1, <2>3, NewRunType DEF HookFine, RemoveHook
  <2>. QED
    BY <2>2, <2>3
<1>5. FilesFine'
  BY <1>1, NewRunType DEF FilesFine, RunRight, RemoveHook
<1>. QED
  BY <1>2, <1>3, <1>4, <1>5

LEMMA DInstallHook ==
  ASSUME EInv, EInv', DInv, InstallHook
  PROVE  DInv'
<1>. SUFFICES ASSUME Good' PROVE CmdFine' /\ CommitFine' /\ HookFine' /\ FilesFine'
  BY DEF DInv
<1>. USE DEF EInv
<1>1. /\ CmdFine /\ CommitFine /\ HookFine /\ FilesFine
      /\ Good
  BY DEF DInv, Good, InstallHook
<1>2. CmdFine'
  BY <1>1, NewRunType DEF CmdFine, CommitFine, HookFine, RunRight, InstallHook, cvars
<1>3. CommitFine'
  BY <1>1, NewRunType DEF CommitFine, RunRight, InstallHook
<1>4. HookFine'
  <2>1. pkg = trans.new /\ NoneLeft /\ tool.pc = "idle"
    BY <1>1 DEF HookFine, InstallHook
  <2>2. CASE Names(trans.new) = {}
    <3>1. \A d \in Driver : esp[d] = pkg[d]
      BY <2>1, <2>2 DEF NoneLeft, Names
    <3>2. esp = pkg
      BY <3>1 DEF ETypes, Package
    <3>. QED
      BY <2>1, <2>2, <3>2 DEF HookFine, InstallHook
  <2>3. CASE Names(trans.new) # {}
    BY <2>1, <2>3, NewRunType DEF HookFine, NoneLeft, InstallHook
  <2>. QED
    BY <2>2, <2>3
<1>5. FilesFine'
  BY <1>1, NewRunType DEF FilesFine, RunRight, InstallHook
<1>. QED
  BY <1>2, <1>3, <1>4, <1>5

LEMMA DAdminRun ==
  ASSUME EInv, EInv', DInv, OnlyAdds, NEW oper \in AdminOpers, AdminRun(oper)
  PROVE  DInv'
<1>. SUFFICES ASSUME Good' PROVE CmdFine' /\ CommitFine' /\ HookFine' /\ FilesFine'
  BY DEF DInv
<1>. USE DEF EInv
<1>1. /\ CmdFine /\ CommitFine /\ HookFine /\ FilesFine
      /\ Good
  BY DEF DInv, Good, AdminRun
<1>2. CmdFine'
  BY <1>1, NewRunType DEF CmdFine, CommitFine, HookFine, RunRight, AdminRun, cvars, OnlyAdds
<1>3. CommitFine'
  BY <1>1, NewRunType DEF CommitFine, RunRight, AdminRun, OnlyAdds
<1>4. HookFine'
  BY <1>1, NewRunType DEF HookFine, CommitFine, NoneLeft, RunRight, AdminRun, OnlyAdds
<1>5. FilesFine'
  BY <1>1, NewRunType DEF FilesFine, RunRight, AdminRun, OnlyAdds
<1>. QED
  BY <1>2, <1>3, <1>4, <1>5

LEMMA DStart ==
  ASSUME EInv, EInv', DInv, Start
  PROVE  DInv'
<1>. SUFFICES ASSUME Good' PROVE CmdFine' /\ CommitFine' /\ HookFine' /\ FilesFine'
  BY DEF DInv
<1>. USE DEF EInv
<1>1. /\ CmdFine /\ CommitFine /\ HookFine /\ FilesFine
      /\ Good
  BY DEF DInv, Good, Start, Locates
<1>2. /\ tool'.pc = "bootctl" /\ tool'.oper = tool.oper /\ tool.pc = "locate"
      /\ tool'.cut = tool.cut /\ UNCHANGED <<pkg, esp, phase, trans>>
  BY DEF ETypes, ToolRec, Start, Locates
<1>3. CmdFine'
  BY DEF CmdFine, Start, Locates, Called, NoCmd
<1>4. CommitFine' /\ HookFine' /\ FilesFine'
  BY <1>1, <1>2 DEF CommitFine, HookFine, NoneLeft, FilesFine
<1>. QED
  BY <1>3, <1>4

LEMMA DBootctl ==
  ASSUME EInv, EInv', DInv, EspNamed, Bootctl
  PROVE  DInv'
<1>. SUFFICES ASSUME Good' PROVE CmdFine' /\ CommitFine' /\ HookFine' /\ FilesFine'
  BY DEF DInv
<1>. USE DEF EInv
<1>1. /\ CmdFine /\ CommitFine /\ HookFine /\ FilesFine
      /\ Good
  BY DEF DInv, Good, Bootctl, evars
<1>2. CmdFine'
  BY <1>1, DCommandStep DEF Good
<1>3. CommitFine' /\ HookFine' /\ FilesFine'
  BY <1>1 DEF CommitFine, HookFine, NoneLeft, FilesFine, Names, Bootctl, evars
<1>. QED
  BY <1>2, <1>3

LEMMA DLocated ==
  ASSUME EInv, EInv', DInv, EspNamed, Located
  PROVE  DInv'
<1>. SUFFICES ASSUME Good' PROVE CmdFine' /\ CommitFine' /\ HookFine' /\ FilesFine'
  BY DEF DInv
<1>. USE DEF EInv
<1>1. /\ CmdFine /\ CommitFine /\ HookFine /\ FilesFine
      /\ Good
  BY DEF DInv, Good, Located
<1>2. Place = "esp"
  <2>1. cmd.ret = 0 /\ cmd.out = child.text /\ child.text \in Texts
    BY <1>1 DEF CmdFine, Located
  <2>. QED
    BY <2>1 DEF Place, EspIn, EspNamed
<1>3. UNCHANGED <<pkg, esp, phase, trans>> /\ tool.pc = "bootctl"
  BY DEF Located
<1>4. CASE tool.oper = "add" /\ tool' = [tool EXCEPT !.pc = "copy", !.todo = Names(pkg)]
  <2>1. /\ tool'.pc = "copy" /\ tool'.oper = "add" /\ tool'.todo = Names(pkg)
        /\ tool'.open = {}
    BY <1>3, <1>4 DEF ETypes, ToolRec, RunRight
  <2>. QED
    BY <1>1, <1>3, <1>4, <2>1 DEF CmdFine, CommitFine, HookFine, NoneLeft, FilesFine, Names
<1>5. CASE tool.oper # "add" /\ tool' = [tool EXCEPT !.pc = "delete", !.todo = Names(esp)]
  <2>1. tool'.pc = "delete" /\ tool'.oper = tool.oper /\ tool'.todo = Names(esp)
    BY <1>5 DEF ETypes, ToolRec
  <2>. QED
    BY <1>1, <1>3, <1>5, <2>1 DEF CmdFine, CommitFine, HookFine, NoneLeft, FilesFine, Names
<1>. QED
  BY <1>2, <1>4, <1>5 DEF Located

LEMMA DOpenCopy ==
  ASSUME EInv, EInv', DInv, OpenCopy
  PROVE  DInv'
<1>. SUFFICES ASSUME Good' PROVE CmdFine' /\ CommitFine' /\ HookFine' /\ FilesFine'
  BY DEF DInv
<1>. USE DEF EInv
<1>1. /\ CmdFine /\ CommitFine /\ HookFine /\ FilesFine
      /\ Good
  BY DEF DInv, Good, OpenCopy
<1>2. PICK d \in tool.todo : /\ esp' = [esp EXCEPT ![d] = Part]
                             /\ tool' = [tool EXCEPT !.todo = @ \ {d}, !.open = {d}]
  BY DEF OpenCopy
<1>3. /\ tool'.todo = tool.todo \ {d} /\ tool'.open = {d} /\ tool'.cut = tool.cut
      /\ tool'.pc = tool.pc /\ tool.pc = "copy"
      /\ tool'.oper = tool.oper /\ d \in Names(pkg) /\ UNCHANGED <<pkg, phase, trans>>
  BY <1>1, <1>2 DEF ETypes, ToolRec, FilesFine, OpenCopy
<1>4. HookFine'
  BY <1>1, <1>2, <1>3 DEF ETypes, HookFine, NoneLeft, Names
<1>5. CmdFine' /\ CommitFine' /\ FilesFine'
  BY <1>1, <1>3 DEF CmdFine, CommitFine, FilesFine, Names
<1>. QED
  BY <1>4, <1>5

LEMMA DCloseCopy ==
  ASSUME EInv, EInv', DInv, CloseCopy
  PROVE  DInv'
<1>. SUFFICES ASSUME Good' PROVE CmdFine' /\ CommitFine' /\ HookFine' /\ FilesFine'
  BY DEF DInv
<1>. USE DEF EInv
<1>1. /\ CmdFine /\ CommitFine /\ HookFine /\ FilesFine
      /\ Good
  BY DEF DInv, Good, CloseCopy
<1>2. PICK d \in tool.open : /\ esp' = [esp EXCEPT ![d] = pkg[d]]
                             /\ tool' = [tool EXCEPT !.open = {}]
  BY DEF CloseCopy
<1>3. /\ tool'.todo = tool.todo /\ tool'.open = {} /\ tool'.cut = tool.cut
      /\ tool'.pc = tool.pc /\ tool.pc = "copy"
      /\ tool'.oper = tool.oper /\ UNCHANGED <<pkg, phase, trans>>
  BY <1>2 DEF ETypes, ToolRec, CloseCopy
<1>4. HookFine'
  BY <1>1, <1>2, <1>3 DEF ETypes, HookFine, NoneLeft
<1>5. CmdFine' /\ CommitFine' /\ FilesFine'
  BY <1>1, <1>3 DEF CmdFine, CommitFine, FilesFine, Names
<1>. QED
  BY <1>4, <1>5

LEMMA DDelete ==
  ASSUME EInv, EInv', DInv, Delete
  PROVE  DInv'
<1>. SUFFICES ASSUME Good' PROVE CmdFine' /\ CommitFine' /\ HookFine' /\ FilesFine'
  BY DEF DInv
<1>. USE DEF EInv
<1>1. /\ CmdFine /\ CommitFine /\ HookFine /\ FilesFine
      /\ Good
  BY DEF DInv, Good, Delete
<1>2. PICK d \in tool.todo : /\ esp' = [esp EXCEPT ![d] = 0]
                             /\ tool' = [tool EXCEPT !.todo = @ \ {d}]
  BY DEF Delete
<1>3. /\ tool'.todo = tool.todo \ {d} /\ tool'.cut = tool.cut
      /\ tool'.pc = tool.pc /\ tool.pc = "delete"
      /\ tool'.oper = "remove" /\ tool.oper = "remove" /\ UNCHANGED <<pkg, phase, trans>>
  BY <1>2 DEF ETypes, ToolRec, RunRight, Delete
<1>4. FilesFine'
  BY <1>1, <1>2, <1>3 DEF ETypes, FilesFine
<1>5. CmdFine' /\ CommitFine' /\ HookFine'
  BY <1>1, <1>3 DEF CmdFine, CommitFine, HookFine
<1>. QED
  BY <1>4, <1>5

LEMMA DEndFiles ==
  ASSUME EInv, EInv', DInv, EndFiles
  PROVE  DInv'
<1>. SUFFICES ASSUME Good' PROVE CmdFine' /\ CommitFine' /\ HookFine' /\ FilesFine'
  BY DEF DInv
<1>. USE DEF EInv
<1>1. /\ CmdFine /\ CommitFine /\ HookFine /\ FilesFine
      /\ Good
  BY DEF DInv, Good, EndFiles
<1>2. /\ tool'.pc = "done" /\ tool'.oper = tool.oper /\ UNCHANGED <<pkg, esp, phase, trans>>
      /\ tool.pc \in {"copy", "delete"} /\ tool.todo = {} /\ tool.open = {}
      /\ tool.cut = {} /\ tool'.cut = {}
  BY <1>1 DEF ETypes, ToolRec, EndFiles, EndsWith, FilesFine
<1>3. CASE tool.pc = "copy"
  <2>1. \A d \in Driver : esp[d] = pkg[d]
    BY <1>1, <1>2, <1>3 DEF RunRight, CopyRight, HookFine, NoneLeft
  <2>2. esp = pkg /\ tool.oper = "add"
    BY <1>3, <2>1 DEF ETypes, Package, RunRight
  <2>. QED
    BY <1>1, <1>2, <2>2 DEF CmdFine, CommitFine, HookFine, NoneLeft, FilesFine
<1>4. CASE tool.pc = "delete"
  <2>1. \A d \in Driver : esp[d] = 0
    BY <1>1, <1>2, <1>4 DEF FilesFine
  <2>2. esp = NoFiles /\ tool.oper = "remove"
    BY <1>4, <2>1 DEF ETypes, NoFiles, RunRight
  <2>. QED
    BY <1>1, <1>2, <2>2 DEF CmdFine, CommitFine, HookFine, NoneLeft, FilesFine, NoFiles
<1>. QED
  BY <1>2, <1>3, <1>4

LEMMA DExit ==
  ASSUME EInv, EInv', DInv, Exit
  PROVE  DInv'
<1>. SUFFICES ASSUME Good' PROVE CmdFine' /\ CommitFine' /\ HookFine' /\ FilesFine'
  BY DEF DInv
<1>. USE DEF EInv
<1>1. /\ CmdFine /\ CommitFine /\ HookFine /\ FilesFine
      /\ Good
  BY DEF DInv, Good, Exit
<1>2. /\ tool' = IdleTool /\ UNCHANGED <<pkg, esp>> /\ tool.pc = "done"
      /\ phase' = IF phase = "removeRun" THEN "install" ELSE "idle"
      /\ trans' = IF phase = "removeRun" THEN trans ELSE NoTrans
  BY DEF Exit
<1>3. HookFine'
  <2>1. CASE phase = "removeRun"
    BY <1>1, <1>2, <2>1 DEF HookFine, NoneLeft, FilesFine, RunRight, IdleTool, NoFiles
  <2>2. CASE phase # "removeRun"
    BY <1>1, <1>2, <2>2 DEF HookFine, FilesFine, RunRight, IdleTool
  <2>. QED
    BY <2>1, <2>2
<1>4. CmdFine' /\ CommitFine' /\ FilesFine'
  BY <1>2 DEF CmdFine, CommitFine, FilesFine, IdleTool
<1>. QED
  BY <1>3, <1>4

LEMMA NoGood ==
  ASSUME EInv, Fault
  PROVE  DInv'
<1>1. nFaults' # 0
  BY BoundAssumption DEF EInv, ETypes, Fault
<1>. QED
  BY <1>1 DEF DInv, Good

LEMMA DNext ==
  ASSUME EspNamed, OnlyAdds, EInv, EInv', DInv, [Next]_vars
  PROVE  DInv'
<1>1. CASE Begin \/ Pacman
  BY <1>1, DBegin, DCommit, DRemoveHook, DInstallHook DEF Pacman
<1>2. CASE \E oper \in AdminOpers : AdminRun(oper)
  BY <1>2, DAdminRun
<1>3. CASE Run
  BY <1>3, DStart, DLocated, DOpenCopy, DCloseCopy, DDelete, DEndFiles, DExit DEF Run
<1>4. CASE Bootctl
  BY <1>4, DBootctl
<1>5. CASE StartUnseen \/ BootctlFails \/ StartFails \/ CutCopy \/ CutList \/ FileFails \/ Crash
  BY <1>5, NoGood DEF StartUnseen, BootctlFails, StartFails, CutCopy, CutList, FileFails, Crash
<1>6. CASE UNCHANGED vars
  BY <1>6 DEF vars, evars, cvars, DInv, Good, CmdFine, CommitFine, HookFine, NoneLeft, FilesFine, Names
<1>. QED
  BY <1>1, <1>2, <1>3, <1>4, <1>5, <1>6 DEF Next

\* Through installs, upgrades and removals of the package, and added runs of the
\* administrator, systemd-boot finds exactly the package's drivers once pacman
\* is done, unless something fails: the two hooks and their order suffice.
THEOREM DriversMatchAlways ==
  ASSUME EspNamed, OnlyAdds
  PROVE  Spec => []DriversMatch
<1>1. Init => EInv /\ DInv
  BY EInit, DInit
<1>2. EInv /\ DInv /\ [Next]_vars => (EInv /\ DInv)'
  BY ENext, DNext
<1>3. EInv /\ DInv => DriversMatch
  BY DEF DInv, Good, HookFine, DriversMatch
<1>. QED
  BY <1>1, <1>2, <1>3, PTL DEF Spec

=============================================================================
