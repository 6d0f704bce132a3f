------------------------- MODULE ShadowConf_proofs -------------------------
(***************************************************************************)
(* The shadow of etc/kernel, for any names, any number of processes and    *)
(* updates, changes of etc/kernel, failures and crashes: every invariant   *)
(* of ShadowConf.                                                          *)
(***************************************************************************)
EXTENDS ShadowConf, FiniteSetTheorems, TLAPS

Pcs == {"idle", "open", "link", "exists", "unlink", "relink", "write", "child", "failed"}
Runs == [pc : Pcs, listed : SUBSET Name, todo : SUBSET Name, name : SUBSET Name,
         alone : BOOLEAN]
InHand == {"exists", "unlink", "relink"}
Listing == {"link", "exists", "unlink", "relink", "write", "child"}

Types ==
  /\ etc \subseteq Name /\ made \subseteq Name
  /\ links \in [Name -> LinkStates]
  /\ conf \in ConfStates
  /\ run \in [Proc -> Runs]
  /\ nRuns \in 0..MaxRuns /\ nEdits \in 0..MaxEdits /\ nFaults \in 0..MaxFaults

\* A process has seen the names it has still to do and the one in hand, and
\* writes install.conf when it has done them all.
NameInv ==
  \A p \in Proc :
    /\ run[p].todo \subseteq run[p].listed /\ run[p].name \subseteq run[p].listed
    /\ run[p].pc \in InHand => \E n \in Name : run[p].name = {n}
    /\ run[p].pc \notin InHand => run[p].name = {}
    /\ run[p].pc \in {"write", "child"} => run[p].todo = {}

\* While a process runs alone all others are idle.
AloneInv == \A p, q \in Proc : run[p].alone /\ p # q => run[q].pc = "idle"

\* What a process finds and makes when it runs alone.
OwnOf(r) ==
  r.alone =>
    /\ r.pc \in Listing => \A n \in r.listed : n \notin r.todo /\ n \notin r.name => links[n] = "right"
    /\ r.pc = "child" => conf = "bls"
    /\ \A n \in r.name : /\ r.pc = "exists" => links[n] # "none"
                         /\ r.pc = "unlink" => links[n] = "wrong"
                         /\ r.pc = "relink" => links[n] = "none"
    /\ r.pc = "failed" => nFaults > 0 \/ \E n \in Name : links[n] = "file"
OwnInv == \A p \in Proc : OwnOf(run[p])

\* A name with a right link, or with none that some process is about to link.
Settled(n) ==
  \/ links[n] = "right"
  \/ links[n] = "none" /\ \E q \in Proc : run[q].pc = "relink" /\ n \in run[q].name

\* Without failures a name a process has dealt with settles, and install.conf
\* is right or about to be.
SettleInv ==
  nFaults = 0 =>
    /\ \A n \in made : Settled(n)
    /\ \A p \in Proc : run[p].pc \in Listing =>
         \A n \in run[p].listed : n \notin run[p].todo /\ n \notin run[p].name => Settled(n)
    /\ made # {} => conf = "bls" \/ \E q \in Proc : run[q].pc = "write"

SInv == Types /\ NameInv /\ AloneInv /\ OwnInv /\ SettleInv

LEMMA InitInv == Init => SInv
<1>. SUFFICES ASSUME Init PROVE SInv
  OBVIOUS
<1>1. IdleRun \in Runs
  BY DEF IdleRun, Runs, Pcs
<1>2. \A p \in Proc : run[p] = IdleRun
  BY DEF Init
<1>3. Types
  BY <1>1, BoundAssumption DEF Init, Types
<1>4. /\ IdleRun.pc = "idle" /\ IdleRun.listed = {} /\ IdleRun.todo = {}
      /\ IdleRun.name = {} /\ ~IdleRun.alone
  BY DEF IdleRun
<1>5. NameInv
  BY <1>2, <1>4 DEF NameInv, InHand
<1>6. AloneInv /\ OwnInv
  BY <1>2, <1>4 DEF AloneInv, OwnInv, OwnOf
<1>7. SettleInv
  BY <1>2, <1>4 DEF SettleInv, Init, Listing
<1>. QED
  BY <1>3, <1>5, <1>6, <1>7 DEF SInv

\* When a process that is not idle moves, all others are not alone, so what
\* has to be shown of the lonely is about the one that moves.
LEMMA OneMoves ==
  ASSUME SInv, NEW p \in Proc, run[p].pc # "idle",
         \A q \in Proc : q # p => run'[q] = run[q],
         run'[p].alone = run[p].alone
  PROVE  /\ AloneInv'
         /\ OwnOf(run[p])' => OwnInv'
<1>1. \A q \in Proc : q # p => ~run[q].alone
  BY DEF SInv, AloneInv, Types, Runs
<1>2. \A q \in Proc : q # p => ~run'[q].alone
  BY <1>1
<1>3. AloneInv'
  BY <1>2 DEF SInv, AloneInv
<1>4. OwnOf(run[p])' => OwnInv'
  BY <1>2 DEF OwnInv, OwnOf
<1>. QED
  BY <1>3, <1>4

\* One process moves: what is to be shown of the names and of what settles is
\* about it, if every name that was settled still is.
LEMMA OthersStay ==
  ASSUME SInv, NEW p \in Proc, run' \in [Proc -> Runs],
         \A q \in Proc : q # p => run'[q] = run[q]
  PROVE  /\ /\ run'[p].todo \subseteq run'[p].listed /\ run'[p].name \subseteq run'[p].listed
            /\ run'[p].pc \in InHand => \E n \in Name : run'[p].name = {n}
            /\ run'[p].pc \notin InHand => run'[p].name = {}
            /\ run'[p].pc \in {"write", "child"} => run'[p].todo = {}
            => NameInv'
         /\ /\ nFaults = 0
            /\ \A n \in Name : Settled(n) => Settled(n)'
            /\ run'[p].pc \in Listing =>
                 \A n \in run'[p].listed :
                    n \notin run'[p].todo /\ n \notin run'[p].name => Settled(n)'
            => \A q \in Proc : run'[q].pc \in Listing =>
                 \A n \in run'[q].listed :
                    n \notin run'[q].todo /\ n \notin run'[q].name => Settled(n)'
<1>1. \A q \in Proc : run'[q].listed \subseteq Name
  BY DEF Runs
<1>2. ASSUME /\ run'[p].todo \subseteq run'[p].listed /\ run'[p].name \subseteq run'[p].listed
             /\ run'[p].pc \in InHand => \E n \in Name : run'[p].name = {n}
             /\ run'[p].pc \notin InHand => run'[p].name = {}
             /\ run'[p].pc \in {"write", "child"} => run'[p].todo = {}
      PROVE  NameInv'
  <2>. SUFFICES ASSUME NEW q \in Proc
                PROVE  /\ run'[q].todo \subseteq run'[q].listed
                       /\ run'[q].name \subseteq run'[q].listed
                       /\ run'[q].pc \in InHand => \E n \in Name : run'[q].name = {n}
                       /\ run'[q].pc \notin InHand => run'[q].name = {}
                       /\ run'[q].pc \in {"write", "child"} => run'[q].todo = {}
    BY DEF NameInv
  <2>1. CASE q = p
    BY <1>2, <2>1
  <2>2. CASE q # p
    BY <2>2 DEF SInv, NameInv
  <2>. QED
    BY <2>1, <2>2
<1>3. ASSUME nFaults = 0, \A n \in Name : Settled(n) => Settled(n)',
             run'[p].pc \in Listing =>
               \A n \in run'[p].listed :
                  n \notin run'[p].todo /\ n \notin run'[p].name => Settled(n)',
             NEW q \in Proc, run'[q].pc \in Listing, NEW n \in run'[q].listed,
             n \notin run'[q].todo, n \notin run'[q].name
      PROVE  Settled(n)'
  <2>1. CASE q = p
    BY <1>3, <2>1
  <2>2. CASE q # p
    <3>1. Settled(n) /\ n \in Name
      BY <1>1, <1>3, <2>2 DEF SInv, SettleInv
    <3>. QED
      BY <1>3, <3>1
  <2>. QED
    BY <2>1, <2>2
<1>. QED
  BY <1>2, <1>3

\* A name that is settled stays so as long as who takes its link away is about
\* to link it, and who was about to does not leave without a link there.
LEMMA SettledStays ==
  ASSUME NEW p \in Proc, \A q \in Proc : q # p => run'[q] = run[q],
         \A n \in Name : \/ links'[n] = links[n]
                         \/ links'[n] = "right"
                         \/ links'[n] = "none" /\ run'[p].pc = "relink" /\ n \in run'[p].name,
         run[p].pc = "relink" => \A n \in run[p].name : links'[n] # "none"
  PROVE  \A n \in Name : Settled(n) => Settled(n)'
<1>. SUFFICES ASSUME NEW n \in Name, Settled(n) PROVE Settled(n)'
  OBVIOUS
<1>1. CASE links'[n] = "right"
  BY <1>1 DEF Settled
<1>2. CASE links'[n] = "none" /\ run'[p].pc = "relink" /\ n \in run'[p].name
  BY <1>2 DEF Settled
<1>3. CASE links'[n] = links[n] /\ links[n] # "right"
  <2>1. links[n] = "none"
    BY <1>3 DEF Settled
  <2>2. PICK q \in Proc : run[q].pc = "relink" /\ n \in run[q].name
    BY <1>3 DEF Settled
  <2>3. q # p
    BY <1>3, <2>1, <2>2
  <2>4. run'[q].pc = "relink" /\ n \in run'[q].name
    BY <2>2, <2>3
  <2>. QED
    BY <1>3, <2>1, <2>4 DEF Settled
<1>. QED
  BY <1>1, <1>2, <1>3

\* One fault more is still within the bound, and more than none.
LEMMA FaultFacts ==
  ASSUME Types, Fault
  PROVE  nFaults' \in 0..MaxFaults /\ nFaults' > 0
BY BoundAssumption DEF Types, Fault

\* An update gives up, for a failure or because it found what it cannot deal
\* with.
LEMMA FailedInv ==
  ASSUME SInv, NEW p \in Proc, run[p].pc # "idle", Failed(p),
         UNCHANGED <<etc, links, made, nRuns, nEdits>>,
         conf' \in ConfStates, nFaults' \in 0..MaxFaults,
         \/ nFaults' > 0
         \/ /\ nFaults' = nFaults /\ conf' = conf /\ run[p].pc # "write"
            /\ run[p].alone => \E n \in Name : links[n] = "file"
            /\ run[p].pc = "relink" => \A n \in run[p].name : links[n] # "none"
  PROVE  SInv'
<1>1. run \in [Proc -> Runs]
  BY DEF SInv, Types
<1>2. /\ run' = [run EXCEPT ![p] = [IdleRun EXCEPT !.pc = "failed", !.alone = run[p].alone]]
      /\ run[p].alone \in BOOLEAN
  BY <1>1 DEF Failed, Runs
<1>3. /\ run'[p] = [IdleRun EXCEPT !.pc = "failed", !.alone = run[p].alone]
      /\ \A q \in Proc : q # p => run'[q] = run[q]
  BY <1>1, <1>2
<1>4. /\ run'[p].pc = "failed" /\ run'[p].listed = {} /\ run'[p].todo = {}
      /\ run'[p].name = {} /\ run'[p].alone = run[p].alone
      /\ run'[p] \in Runs
  <2>1. run'[p] = [pc |-> "failed", listed |-> {}, todo |-> {}, name |-> {},
                   alone |-> run[p].alone]
    BY <1>3 DEF IdleRun
  <2>2. {} \in SUBSET Name /\ "failed" \in Pcs /\ run[p].alone \in BOOLEAN
    BY <1>2 DEF Pcs
  <2>3. run'[p] \in Runs
    BY <2>1, <2>2 DEF Runs
  <2>. QED
    BY <2>1, <2>3
<1>5. run' \in [Proc -> Runs]
  BY <1>1, <1>2, <1>3, <1>4
<1>6. Types'
  BY <1>5 DEF SInv, Types
<1>7. NameInv'
  BY <1>3, <1>4, <1>5, OthersStay DEF InHand
<1>8. AloneInv' /\ OwnInv'
  <2>1. OwnOf(run[p])'
    BY <1>4 DEF OwnOf, Listing
  <2>. QED
    BY <1>3, <1>4, <2>1, OneMoves
<1>9. SettleInv'
  <2>. SUFFICES ASSUME nFaults' = 0 PROVE SettleInv'
    BY DEF SettleInv
  <2>1. /\ nFaults = 0 /\ conf' = conf /\ run[p].pc # "write"
        /\ run[p].pc = "relink" => \A n \in run[p].name : links[n] # "none"
    OBVIOUS
  <2>2. \A n \in Name : Settled(n) => Settled(n)'
    BY <1>3, <2>1, SettledStays
  <2>3. \A q \in Proc : run'[q].pc \in Listing =>
          \A n \in run'[q].listed : n \notin run'[q].todo /\ n \notin run'[q].name => Settled(n)'
    BY <1>3, <1>4, <1>5, <2>1, <2>2, OthersStay DEF Listing
  <2>4. \A n \in made' : Settled(n)'
    BY <2>1, <2>2 DEF SInv, SettleInv, Types
  <2>5. made' # {} => conf' = "bls" \/ \E q \in Proc : run'[q].pc = "write"
    BY <1>3, <2>1 DEF SInv, SettleInv
  <2>. QED
    BY <2>3, <2>4, <2>5 DEF SettleInv
<1>. QED
  BY <1>6, <1>7, <1>8, <1>9 DEF SInv

\* A process goes from state to state with its aloneness and what it has seen:
\* what is left to show.
LEMMA MoveInv ==
  ASSUME SInv, NEW p \in Proc, run[p].pc \notin {"idle", "write"},
         NEW r \in Runs, run' = [run EXCEPT ![p] = r],
         r.alone = run[p].alone, r.pc \in Pcs,
         UNCHANGED <<etc, made, nRuns, nEdits, nFaults>>,
         links' \in [Name -> LinkStates], conf' \in ConfStates,
         conf' = conf \/ r.pc = "write",
         r.todo \subseteq r.listed, r.name \subseteq r.listed,
         r.pc \in InHand => \E n \in Name : r.name = {n},
         r.pc \notin InHand => r.name = {},
         r.pc \in {"write", "child"} => r.todo = {},
         OwnOf(run[p])',
         \A n \in Name : \/ links'[n] = links[n]
                         \/ links'[n] = "right"
                         \/ links'[n] = "none" /\ r.pc = "relink" /\ n \in r.name,
         run[p].pc = "relink" => \A n \in run[p].name : links'[n] # "none",
         nFaults = 0 /\ r.pc \in Listing =>
           \A n \in r.listed : n \notin r.todo /\ n \notin r.name => Settled(n) \/ links'[n] = "right"
  PROVE  SInv'
<1>1. run \in [Proc -> Runs]
  BY DEF SInv, Types
<1>2. run'[p] = r /\ \A q \in Proc : q # p => run'[q] = run[q]
  BY <1>1
<1>3. run' \in [Proc -> Runs]
  BY <1>1
<1>4. Types'
  BY <1>3 DEF SInv, Types
<1>5. NameInv'
  BY <1>2, <1>3, OthersStay
<1>6. AloneInv' /\ OwnInv'
  BY <1>2, OneMoves
<1>7. SettleInv'
  <2>. SUFFICES ASSUME nFaults = 0 PROVE SettleInv'
    BY DEF SettleInv
  <2>1. \A n \in Name : Settled(n) => Settled(n)'
    BY <1>2, SettledStays
  <2>2. \A n \in r.listed : n \in Name
    BY DEF Runs
  <2>3. r.pc \in Listing => \A n \in r.listed : n \notin r.todo /\ n \notin r.name => Settled(n)'
    BY <2>1, <2>2 DEF Settled
  <2>4. \A q \in Proc : run'[q].pc \in Listing =>
          \A n \in run'[q].listed : n \notin run'[q].todo /\ n \notin run'[q].name => Settled(n)'
    BY <1>2, <1>3, <2>1, <2>3, OthersStay
  <2>5. \A n \in made' : Settled(n)'
    BY <2>1 DEF SInv, SettleInv, Types
  <2>6. made' # {} => conf' = "bls" \/ \E q \in Proc : run'[q].pc = "write"
    BY <1>2 DEF SInv, SettleInv
  <2>. QED
    BY <2>4, <2>5, <2>6 DEF SettleInv
<1>. QED
  BY <1>4, <1>5, <1>6, <1>7 DEF SInv

\* What is known of a process that is not idle.
LEMMA RunFacts ==
  ASSUME SInv, NEW p \in Proc
  PROVE  /\ run \in [Proc -> Runs] /\ run[p] \in Runs
         /\ run[p].pc \in Pcs /\ run[p].alone \in BOOLEAN
         /\ run[p].listed \subseteq Name /\ run[p].todo \subseteq run[p].listed
         /\ run[p].name \subseteq run[p].listed
         /\ run[p].pc \in InHand => \E n \in Name : run[p].name = {n}
         /\ run[p].pc \notin InHand => run[p].name = {}
         /\ run[p].pc \in {"write", "child"} => run[p].todo = {}
         /\ OwnOf(run[p])
         /\ links \in [Name -> LinkStates] /\ conf \in ConfStates /\ etc \subseteq Name
         /\ nFaults = 0 /\ run[p].pc \in Listing =>
              \A n \in run[p].listed : n \notin run[p].todo /\ n \notin run[p].name => Settled(n)
<1>1. run \in [Proc -> Runs] /\ run[p] \in Runs
  BY DEF SInv, Types
<1>. QED
  BY <1>1 DEF SInv, Types, NameInv, OwnInv, SettleInv, Runs

LEMMA OpenDirsInv == ASSUME SInv, NEW p \in Proc, OpenDirs(p) PROVE SInv'
<1>. DEFINE r == [run[p] EXCEPT !.pc = "link", !.listed = etc, !.todo = etc]
<1>1. /\ run[p].pc = "open" /\ run' = [run EXCEPT ![p] = r]
      /\ UNCHANGED <<etc, links, conf, made, nRuns, nEdits, nFaults>>
  BY RunFacts DEF OpenDirs, Runs
<1>2. /\ run[p] \in Runs /\ etc \subseteq Name /\ run[p].name = {}
      /\ links \in [Name -> LinkStates] /\ conf \in ConfStates
      /\ run \in [Proc -> Runs]
  BY <1>1, RunFacts DEF InHand
<1>3. /\ r.pc = "link" /\ r.listed = etc /\ r.todo = etc /\ r.name = {}
      /\ r.alone = run[p].alone /\ r \in Runs
  BY <1>2 DEF Runs, Pcs
<1>4. run'[p] = r
  BY <1>1, <1>2
<1>. HIDE DEF r
<1>5. OwnOf(run[p])'
  BY <1>3, <1>4 DEF OwnOf
<1>. QED
  BY <1>1, <1>2, <1>3, <1>5, MoveInv DEF InHand, Pcs

LEMMA MakeLinkInv == ASSUME SInv, NEW p \in Proc, MakeLink(p) PROVE SInv'
<1>1. /\ run[p].pc = "link"
      /\ UNCHANGED <<etc, conf, made, nRuns, nEdits, nFaults>>
  BY DEF MakeLink
<1>2. PICK n \in run[p].todo :
        IF links[n] = "none"
          THEN /\ links' = [links EXCEPT ![n] = "right"]
               /\ run' = [run EXCEPT ![p].todo = @ \ {n}]
          ELSE /\ run' = [run EXCEPT ![p].pc = "exists", ![p].todo = @ \ {n}, ![p].name = {n}]
               /\ UNCHANGED links
  BY DEF MakeLink
<1>3. /\ run \in [Proc -> Runs] /\ run[p] \in Runs /\ run[p].name = {}
      /\ run[p].listed \subseteq Name /\ run[p].todo \subseteq run[p].listed
      /\ links \in [Name -> LinkStates] /\ conf \in ConfStates /\ OwnOf(run[p])
      /\ nFaults = 0 => \A m \in run[p].listed : m \notin run[p].todo => Settled(m)
  BY <1>1, RunFacts DEF InHand, Listing
<1>4. CASE links[n] = "none"
  <2>. DEFINE r == [run[p] EXCEPT !.todo = @ \ {n}]
  <2>1. links' = [links EXCEPT ![n] = "right"] /\ run' = [run EXCEPT ![p] = r]
    BY <1>2, <1>3, <1>4 DEF Runs
  <2>2. /\ r.pc = "link" /\ r.listed = run[p].listed /\ r.todo = run[p].todo \ {n}
        /\ r.name = {} /\ r.alone = run[p].alone /\ r \in Runs
    BY <1>1, <1>3 DEF Runs
  <2>3. run'[p] = r
    BY <1>3, <2>1
  <2>. HIDE DEF r
  <2>4. links'[n] = "right" /\ links' \in [Name -> LinkStates]
        /\ \A m \in Name : links'[m] = links[m] \/ links'[m] = "right"
    BY <1>3, <2>1 DEF LinkStates
  <2>5. OwnOf(run[p])'
    BY <1>1, <1>3, <2>2, <2>3, <2>4 DEF OwnOf, Listing
  <2>6. nFaults = 0 => \A m \in r.listed : m \notin r.todo => Settled(m) \/ links'[m] = "right"
    BY <1>3, <2>2, <2>4
  <2>. QED
    BY <1>1, <1>3, <2>1, <2>2, <2>4, <2>5, <2>6, MoveInv DEF InHand, Pcs
<1>5. CASE links[n] # "none"
  <2>. DEFINE r == [run[p] EXCEPT !.pc = "exists", !.todo = @ \ {n}, !.name = {n}]
  <2>1. UNCHANGED links /\ run' = [run EXCEPT ![p] = r]
    BY <1>2, <1>3, <1>5 DEF Runs
  <2>2. /\ r.pc = "exists" /\ r.listed = run[p].listed /\ r.todo = run[p].todo \ {n}
        /\ r.name = {n} /\ r.alone = run[p].alone /\ r \in Runs
    <3>1. {n} \in SUBSET Name /\ run[p].todo \ {n} \in SUBSET Name /\ "exists" \in Pcs
      BY <1>3 DEF Pcs
    <3>2. r = [run[p] EXCEPT !.pc = "exists", !.todo = run[p].todo \ {n}, !.name = {n}]
      OBVIOUS
    <3>. HIDE DEF r
    <3>. QED
      BY <1>1, <1>3, <3>1, <3>2 DEF Runs
  <2>3. run'[p] = r
    BY <1>3, <2>1
  <2>. HIDE DEF r
  <2>4. OwnOf(run[p])'
    BY <1>1, <1>3, <1>5, <2>1, <2>2, <2>3 DEF OwnOf, Listing
  <2>5. nFaults = 0 =>
          \A m \in r.listed : m \notin r.todo /\ m \notin r.name => Settled(m) \/ links'[m] = "right"
    BY <1>3, <2>2
  <2>6. n \in Name /\ r.name \subseteq r.listed /\ r.todo \subseteq r.listed
    BY <1>3, <2>2
  <2>. QED
    BY <1>1, <1>3, <2>1, <2>2, <2>4, <2>5, <2>6, MoveInv DEF InHand, Pcs
<1>. QED
  BY <1>4, <1>5

\* The name in hand is done with: it has a right link.
LEMMA LinkedInv ==
  ASSUME SInv, NEW p \in Proc, run[p].pc \in InHand, Linked(p),
         UNCHANGED <<etc, conf, made, nRuns, nEdits, nFaults>>,
         links' \in [Name -> LinkStates],
         \A n \in Name : links'[n] = links[n] \/ links'[n] = "right",
         \A n \in run[p].name : links'[n] = "right"
  PROVE  SInv'
<1>. DEFINE r == [run[p] EXCEPT !.pc = "link", !.name = {}]
<1>1. /\ run \in [Proc -> Runs] /\ run[p] \in Runs
      /\ run[p].listed \subseteq Name /\ run[p].todo \subseteq run[p].listed
      /\ conf \in ConfStates /\ OwnOf(run[p])
      /\ nFaults = 0 => \A m \in run[p].listed :
                          m \notin run[p].todo /\ m \notin run[p].name => Settled(m)
  BY RunFacts DEF InHand, Listing
<1>2. run' = [run EXCEPT ![p] = r]
  BY <1>1 DEF Linked, Runs
<1>3. /\ r.pc = "link" /\ r.listed = run[p].listed /\ r.todo = run[p].todo
      /\ r.name = {} /\ r.alone = run[p].alone /\ r \in Runs
  BY <1>1 DEF Runs, Pcs
<1>4. run'[p] = r
  BY <1>1, <1>2
<1>. HIDE DEF r
<1>5. OwnOf(run[p])'
  BY <1>1, <1>3, <1>4 DEF OwnOf, Listing, InHand
<1>6. nFaults = 0 => \A m \in r.listed : m \notin r.todo => Settled(m) \/ links'[m] = "right"
  BY <1>1, <1>3
<1>7. run[p].pc = "relink" => \A n \in run[p].name : links'[n] # "none"
  OBVIOUS
<1>. QED
  BY <1>1, <1>2, <1>3, <1>5, <1>6, <1>7, MoveInv DEF InHand, Pcs

LEMMA ReadLinkInv == ASSUME SInv, NEW p \in Proc, ReadLink(p) PROVE SInv'
<1>1. /\ run[p].pc = "exists"
      /\ UNCHANGED <<etc, links, conf, made, nRuns, nEdits, nFaults>>
  BY DEF ReadLink
<1>2. PICK n \in run[p].name :
        CASE links[n] = "right" -> Linked(p)
          [] links[n] = "wrong" -> run' = [run EXCEPT ![p].pc = "unlink"]
          [] OTHER -> Failed(p)
  BY DEF ReadLink
<1>3. /\ run \in [Proc -> Runs] /\ run[p] \in Runs /\ run[p].name = {n} /\ n \in Name
      /\ run[p].listed \subseteq Name /\ run[p].todo \subseteq run[p].listed
      /\ run[p].name \subseteq run[p].listed
      /\ links \in [Name -> LinkStates] /\ conf \in ConfStates /\ OwnOf(run[p])
      /\ nFaults = 0 => \A m \in run[p].listed :
                          m \notin run[p].todo /\ m \notin run[p].name => Settled(m)
      /\ nFaults \in 0..MaxFaults
  BY <1>1, RunFacts DEF InHand, Listing, SInv, Types
<1>4. CASE links[n] = "right"
  <2>1. Linked(p)
    BY <1>2, <1>4
  <2>2. \A m \in run[p].name : links'[m] = "right"
    BY <1>1, <1>3, <1>4
  <2>. QED
    BY <1>1, <1>3, <2>1, <2>2, LinkedInv DEF InHand
<1>5. CASE links[n] = "wrong"
  <2>. DEFINE r == [run[p] EXCEPT !.pc = "unlink"]
  <2>1. run' = [run EXCEPT ![p] = r]
    BY <1>2, <1>3, <1>5 DEF Runs
  <2>2. /\ r.pc = "unlink" /\ r.listed = run[p].listed /\ r.todo = run[p].todo
        /\ r.name = {n} /\ r.alone = run[p].alone /\ r \in Runs
    BY <1>3 DEF Runs, Pcs
  <2>3. run'[p] = r
    BY <1>3, <2>1
  <2>. HIDE DEF r
  <2>4. OwnOf(run[p])'
    BY <1>1, <1>3, <1>5, <2>2, <2>3 DEF OwnOf, Listing
  <2>. QED
    BY <1>1, <1>3, <2>1, <2>2, <2>4, MoveInv DEF InHand, Pcs
<1>6. CASE links[n] \notin {"right", "wrong"}
  <2>1. Failed(p)
    BY <1>2, <1>6
  <2>2. run[p].alone => links[n] = "file"
    BY <1>1, <1>3, <1>6 DEF OwnOf, LinkStates
  <2>. QED
    BY <1>1, <1>3, <2>1, <2>2, FailedInv
<1>. QED
  BY <1>4, <1>5, <1>6

LEMMA UnlinkInv == ASSUME SInv, NEW p \in Proc, Unlink(p) PROVE SInv'
<1>1. /\ run[p].pc = "unlink"
      /\ UNCHANGED <<etc, conf, made, nRuns, nEdits, nFaults>>
  BY DEF Unlink
<1>2. PICK n \in run[p].name :
        IF links[n] = "none"
          THEN Failed(p) /\ UNCHANGED links
          ELSE /\ links' = [links EXCEPT ![n] = "none"]
               /\ run' = [run EXCEPT ![p].pc = "relink"]
  BY DEF Unlink
<1>3. /\ run \in [Proc -> Runs] /\ run[p] \in Runs /\ run[p].name = {n} /\ n \in Name
      /\ run[p].listed \subseteq Name /\ run[p].todo \subseteq run[p].listed
      /\ run[p].name \subseteq run[p].listed
      /\ links \in [Name -> LinkStates] /\ conf \in ConfStates /\ OwnOf(run[p])
      /\ nFaults = 0 => \A m \in run[p].listed :
                          m \notin run[p].todo /\ m \notin run[p].name => Settled(m)
      /\ nFaults \in 0..MaxFaults
  BY <1>1, RunFacts DEF InHand, Listing, SInv, Types
<1>4. CASE links[n] = "none"
  <2>1. ~run[p].alone
    BY <1>1, <1>3, <1>4 DEF OwnOf
  <2>. QED
    BY <1>1, <1>2, <1>3, <1>4, <2>1, FailedInv
<1>5. CASE links[n] # "none"
  <2>. DEFINE r == [run[p] EXCEPT !.pc = "relink"]
  <2>1. links' = [links EXCEPT ![n] = "none"] /\ run' = [run EXCEPT ![p] = r]
    BY <1>2, <1>3, <1>5 DEF Runs
  <2>2. /\ r.pc = "relink" /\ r.listed = run[p].listed /\ r.todo = run[p].todo
        /\ r.name = {n} /\ r.alone = run[p].alone /\ r \in Runs
    BY <1>3 DEF Runs, Pcs
  <2>3. run'[p] = r
    BY <1>3, <2>1
  <2>. HIDE DEF r
  <2>4. links'[n] = "none" /\ links' \in [Name -> LinkStates]
        /\ \A m \in Name : m # n => links'[m] = links[m]
    BY <1>3, <2>1 DEF LinkStates
  <2>5. OwnOf(run[p])'
    BY <1>1, <1>3, <2>2, <2>3, <2>4 DEF OwnOf, Listing
  <2>6. \A m \in Name : links'[m] = links[m] \/ (links'[m] = "none" /\ m \in r.name)
    BY <2>2, <2>4
  <2>7. nFaults = 0 =>
          \A m \in r.listed : m \notin r.todo /\ m \notin r.name => Settled(m)
    BY <1>3, <2>2
  <2>. QED
    BY <1>1, <1>3, <2>1, <2>2, <2>4, <2>5, <2>6, <2>7, MoveInv DEF InHand, Pcs
<1>. QED
  BY <1>4, <1>5

LEMMA RelinkInv == ASSUME SInv, NEW p \in Proc, Relink(p) PROVE SInv'
<1>1. /\ run[p].pc = "relink"
      /\ UNCHANGED <<etc, conf, made, nRuns, nEdits, nFaults>>
  BY DEF Relink
<1>2. PICK n \in run[p].name :
        IF links[n] # "none"
          THEN Failed(p) /\ UNCHANGED links
          ELSE links' = [links EXCEPT ![n] = "right"] /\ Linked(p)
  BY DEF Relink
<1>3. /\ run[p].name = {n} /\ n \in Name
      /\ links \in [Name -> LinkStates] /\ conf \in ConfStates /\ OwnOf(run[p])
      /\ nFaults \in 0..MaxFaults
  BY <1>1, RunFacts DEF InHand, SInv, Types
<1>4. CASE links[n] # "none"
  <2>1. ~run[p].alone
    BY <1>1, <1>3, <1>4 DEF OwnOf
  <2>. QED
    BY <1>1, <1>2, <1>3, <1>4, <2>1, FailedInv
<1>5. CASE links[n] = "none"
  <2>1. links' = [links EXCEPT ![n] = "right"] /\ Linked(p)
    BY <1>2, <1>5
  <2>2. /\ links'[n] = "right" /\ links' \in [Name -> LinkStates]
        /\ \A m \in Name : links'[m] = links[m] \/ links'[m] = "right"
    BY <1>3, <2>1 DEF LinkStates
  <2>. QED
    BY <1>1, <1>3, <2>1, <2>2, LinkedInv DEF InHand
<1>. QED
  BY <1>4, <1>5

LEMMA TruncateInv == ASSUME SInv, NEW p \in Proc, Truncate(p) PROVE SInv'
<1>. DEFINE r == [run[p] EXCEPT !.pc = "write"]
<1>1. /\ run[p].pc = "link" /\ run[p].todo = {} /\ conf' = "empty"
      /\ UNCHANGED <<etc, links, made, nRuns, nEdits, nFaults>>
  BY DEF Truncate
<1>2. /\ run \in [Proc -> Runs] /\ run[p] \in Runs /\ run[p].name = {}
      /\ run[p].listed \subseteq Name
      /\ links \in [Name -> LinkStates] /\ OwnOf(run[p])
      /\ nFaults = 0 => \A m \in run[p].listed : Settled(m)
  BY <1>1, RunFacts DEF InHand, Listing
<1>3. run' = [run EXCEPT ![p] = r]
  BY <1>2 DEF Truncate, Runs
<1>4. /\ r.pc = "write" /\ r.listed = run[p].listed /\ r.todo = {}
      /\ r.name = {} /\ r.alone = run[p].alone /\ r \in Runs
  BY <1>1, <1>2 DEF Runs, Pcs
<1>5. run'[p] = r
  BY <1>2, <1>3
<1>. HIDE DEF r
<1>6. OwnOf(run[p])'
  BY <1>1, <1>2, <1>4, <1>5 DEF OwnOf, Listing
<1>7. "empty" \in ConfStates
  BY DEF ConfStates
<1>. QED
  BY <1>1, <1>2, <1>3, <1>4, <1>6, <1>7, MoveInv DEF InHand, Pcs

LEMMA WriteInv == ASSUME SInv, NEW p \in Proc, Write(p) PROVE SInv'
<1>. DEFINE r == [run[p] EXCEPT !.pc = "child"]
<1>1. /\ run[p].pc = "write" /\ conf' = "bls" /\ made' = made \cup run[p].listed
      /\ UNCHANGED <<etc, links, nRuns, nEdits, nFaults>>
  BY DEF Write
<1>2. /\ run \in [Proc -> Runs] /\ run[p] \in Runs /\ run[p].name = {}
      /\ run[p].listed \subseteq Name /\ run[p].todo = {} /\ OwnOf(run[p])
      /\ nFaults = 0 => \A m \in run[p].listed : Settled(m)
  BY <1>1, RunFacts DEF InHand, Listing
<1>3. run' = [run EXCEPT ![p] = r]
  BY <1>2 DEF Write, Runs
<1>4. /\ r.pc = "child" /\ r.listed = run[p].listed /\ r.todo = {}
      /\ r.name = {} /\ r.alone = run[p].alone /\ r \in Runs
  BY <1>2 DEF Runs, Pcs
<1>5. run'[p] = r /\ \A q \in Proc : q # p => run'[q] = run[q]
  BY <1>2, <1>3
<1>6. run' \in [Proc -> Runs]
  BY <1>2, <1>3, <1>4
<1>. HIDE DEF r
<1>7. Types'
  BY <1>1, <1>2, <1>6 DEF SInv, Types, ConfStates
<1>8. NameInv'
  BY <1>4, <1>5, <1>6, OthersStay DEF InHand
<1>9. OwnOf(run[p])'
  BY <1>1, <1>2, <1>4, <1>5 DEF OwnOf, Listing
<1>10. AloneInv' /\ OwnInv'
  BY <1>1, <1>4, <1>5, <1>9, OneMoves
<1>11. SettleInv'
  <2>. SUFFICES ASSUME nFaults = 0 PROVE SettleInv'
    BY <1>1 DEF SettleInv
  <2>1. \A n \in Name : Settled(n) => Settled(n)'
    BY <1>1, <1>5, SettledStays
  <2>2. \A q \in Proc : run'[q].pc \in Listing =>
          \A n \in run'[q].listed : n \notin run'[q].todo /\ n \notin run'[q].name => Settled(n)'
    BY <1>2, <1>4, <1>5, <1>6, <2>1, OthersStay
  <2>3. \A n \in made' : Settled(n)'
    BY <1>1, <1>2, <2>1 DEF SInv, SettleInv, Types
  <2>. QED
    BY <1>1, <2>2, <2>3 DEF SettleInv
<1>. QED
  BY <1>7, <1>8, <1>10, <1>11 DEF SInv

LEMMA FaultInv ==
  ASSUME SInv, NEW p \in Proc, WriteFails(p) \/ LinkFails(p)
  PROVE  SInv'
<1>1. /\ run[p].pc # "idle" /\ Failed(p)
      /\ UNCHANGED <<etc, links, made, nRuns, nEdits>>
      /\ Fault
      /\ conf' \in {"bls", "part", conf}
  BY DEF WriteFails, LinkFails
<1>2. nFaults' \in 0..MaxFaults /\ nFaults' > 0
  BY <1>1, FaultFacts DEF SInv
<1>3. conf' \in ConfStates
  BY <1>1 DEF SInv, Types, ConfStates
<1>. QED
  BY <1>1, <1>2, <1>3, FailedInv

LEMMA LinkCutInv == ASSUME SInv, NEW p \in Proc, LinkCut(p) PROVE SInv'
<1>. DEFINE r == [run[p] EXCEPT !.listed = @ \ run[p].todo, !.todo = {}]
<1>1. /\ run[p].pc = "link" /\ run' = [run EXCEPT ![p] = r]
      /\ Fault /\ UNCHANGED <<etc, links, conf, made, nRuns, nEdits>>
  BY RunFacts DEF LinkCut, Runs
<1>2. run \in [Proc -> Runs] /\ run[p] \in Runs /\ run[p].name = {} /\ OwnOf(run[p])
  BY <1>1, RunFacts DEF InHand
<1>3. /\ r.pc = "link" /\ r.listed = run[p].listed \ run[p].todo /\ r.todo = {}
      /\ r.name = {} /\ r.alone = run[p].alone /\ r \in Runs
  BY <1>1, <1>2 DEF Runs
<1>. HIDE DEF r
<1>4. /\ run'[p] = r /\ \A q \in Proc : q # p => run'[q] = run[q]
      /\ run' \in [Proc -> Runs]
  BY <1>1, <1>2, <1>3
<1>5. nFaults' \in 0..MaxFaults /\ nFaults' > 0 /\ nFaults' # 0
  BY <1>1, FaultFacts DEF SInv
<1>6. Types'
  BY <1>1, <1>4, <1>5 DEF SInv, Types
<1>7. NameInv'
  BY <1>3, <1>4, OthersStay DEF InHand
<1>8. AloneInv'
  BY <1>1, <1>3, <1>4 DEF SInv, AloneInv
<1>9. OwnInv'
  <2>1. OwnOf(run[p])'
    BY <1>1, <1>2, <1>3, <1>4 DEF OwnOf, Listing
  <2>2. ASSUME NEW q \in Proc, q # p PROVE OwnOf(run[q])'
    BY <1>1, <1>4, <1>5, <2>2 DEF SInv, OwnInv, OwnOf
  <2>. QED
    BY <2>1, <2>2 DEF OwnInv
<1>10. SettleInv'
  BY <1>5 DEF SettleInv
<1>. QED
  BY <1>6, <1>7, <1>8, <1>9, <1>10 DEF SInv

LEMMA IdleFacts ==
  /\ IdleRun \in Runs
  /\ IdleRun.pc = "idle" /\ IdleRun.listed = {} /\ IdleRun.todo = {}
  /\ IdleRun.name = {} /\ ~IdleRun.alone
BY DEF IdleRun, Runs, Pcs

LEMMA EndInv == ASSUME SInv, NEW p \in Proc, End(p) PROVE SInv'
<1>1. /\ run[p].pc \in {"child", "failed"} /\ run' = [run EXCEPT ![p] = IdleRun]
      /\ UNCHANGED <<etc, links, conf, made, nRuns, nEdits, nFaults>>
  BY DEF End
<1>2. run \in [Proc -> Runs]
  BY DEF SInv, Types
<1>3. /\ run'[p] = IdleRun /\ \A q \in Proc : q # p => run'[q] = run[q]
      /\ run' \in [Proc -> Runs]
  BY <1>1, <1>2, IdleFacts
<1>4. Types'
  BY <1>1, <1>3 DEF SInv, Types
<1>5. NameInv'
  BY <1>3, IdleFacts, OthersStay DEF InHand
<1>6. AloneInv'
  BY <1>3, IdleFacts DEF SInv, AloneInv
<1>7. OwnInv'
  BY <1>1, <1>3, IdleFacts DEF SInv, OwnInv, OwnOf
<1>8. SettleInv'
  <2>. SUFFICES ASSUME nFaults = 0 PROVE SettleInv'
    BY <1>1 DEF SettleInv
  <2>1. \A n \in Name : Settled(n) => Settled(n)'
    BY <1>1, <1>3, SettledStays
  <2>2. \A q \in Proc : run'[q].pc \in Listing =>
          \A n \in run'[q].listed : n \notin run'[q].todo /\ n \notin run'[q].name => Settled(n)'
    BY <1>3, <2>1, IdleFacts, OthersStay DEF Listing
  <2>3. \A n \in made' : Settled(n)'
    BY <1>1, <2>1 DEF SInv, SettleInv, Types
  <2>4. made' # {} => conf' = "bls" \/ \E q \in Proc : run'[q].pc = "write"
    BY <1>1, <1>3 DEF SInv, SettleInv
  <2>. QED
    BY <2>2, <2>3, <2>4 DEF SettleInv
<1>. QED
  BY <1>4, <1>5, <1>6, <1>7, <1>8 DEF SInv

\* The record of an update that starts.
LEMMA OpenedFacts ==
  ASSUME NEW b \in BOOLEAN
  PROVE  LET r == [IdleRun EXCEPT !.pc = "open", !.alone = b]
         IN  /\ r.pc = "open" /\ r.listed = {} /\ r.todo = {} /\ r.name = {}
             /\ r.alone = b /\ r \in Runs
BY IdleFacts DEF Runs, Pcs

\* An update starts: from here on none is alone but this one, and it only if
\* all others are idle.
LEMMA StartInv == ASSUME SInv, NEW p \in Proc, Start(p) PROVE SInv'
<1>. DEFINE lonely == \A r \in Proc : run[r].pc = "idle"
            opened == [IdleRun EXCEPT !.pc = "open", !.alone = lonely]
<1>1. /\ run[p].pc = "idle" /\ nRuns < MaxRuns /\ nRuns' = nRuns + 1
      /\ run' = [q \in Proc |-> IF q = p THEN opened ELSE [run[q] EXCEPT !.alone = FALSE]]
      /\ UNCHANGED <<etc, links, conf, made, nEdits, nFaults>>
  BY DEF Start
<1>2. run \in [Proc -> Runs] /\ nRuns' \in 0..MaxRuns
  <2>1. nRuns < MaxRuns /\ nRuns' = nRuns + 1
    BY <1>1
  <2>. HIDE DEF opened
  <2>. QED
    BY <2>1, BoundAssumption DEF SInv, Types
<1>3. /\ opened.pc = "open" /\ opened.listed = {} /\ opened.todo = {} /\ opened.name = {}
      /\ opened.alone = lonely /\ opened \in Runs
  <2>0. lonely \in BOOLEAN
    OBVIOUS
  <2>. HIDE DEF lonely
  <2>. QED
    BY <2>0, OpenedFacts
<1>. HIDE DEF opened
<1>4. run'[p] = opened
  BY <1>1
<1>5. \A q \in Proc : q # p =>
        /\ run'[q].pc = run[q].pc /\ run'[q].listed = run[q].listed
        /\ run'[q].todo = run[q].todo /\ run'[q].name = run[q].name
        /\ run'[q].alone = FALSE /\ run'[q] \in Runs
  BY <1>1, <1>2 DEF Runs
<1>6. run' \in [Proc -> Runs]
  BY <1>1, <1>3, <1>4, <1>5
<1>7. Types'
  BY <1>1, <1>2, <1>6 DEF SInv, Types
<1>8. NameInv'
  <2>. SUFFICES ASSUME NEW q \in Proc
                PROVE  /\ run'[q].todo \subseteq run'[q].listed
                       /\ run'[q].name \subseteq run'[q].listed
                       /\ run'[q].pc \in InHand => \E n \in Name : run'[q].name = {n}
                       /\ run'[q].pc \notin InHand => run'[q].name = {}
                       /\ run'[q].pc \in {"write", "child"} => run'[q].todo = {}
    BY DEF NameInv
  <2>1. CASE q = p
    BY <1>3, <1>4, <2>1 DEF InHand
  <2>2. CASE q # p
    BY <1>5, <2>2 DEF SInv, NameInv
  <2>. QED
    BY <2>1, <2>2
<1>9. AloneInv'
  <2>. SUFFICES ASSUME NEW q \in Proc, NEW s \in Proc, run'[q].alone, q # s
                PROVE  run'[s].pc = "idle"
    BY DEF AloneInv
  <2>1. q = p /\ lonely
    BY <1>3, <1>4, <1>5
  <2>. QED
    BY <1>5, <2>1
<1>10. OwnInv'
  <2>. SUFFICES ASSUME NEW q \in Proc, run'[q].alone PROVE OwnOf(run[q])'
    BY DEF OwnInv, OwnOf
  <2>1. run'[q].pc = "open" /\ run'[q].name = {}
    BY <1>3, <1>4, <1>5
  <2>. QED
    BY <2>1 DEF OwnOf, Listing
<1>11. SettleInv'
  <2>. SUFFICES ASSUME nFaults = 0 PROVE SettleInv'
    BY <1>1 DEF SettleInv
  <2>1. ASSUME NEW n \in Name, Settled(n) PROVE Settled(n)'
    <3>1. CASE links[n] = "right"
      BY <1>1, <3>1 DEF Settled
    <3>2. CASE links[n] # "right"
      <4>1. links[n] = "none" /\ \E q \in Proc : run[q].pc = "relink" /\ n \in run[q].name
        BY <2>1, <3>2 DEF Settled
      <4>2. PICK q \in Proc : run[q].pc = "relink" /\ n \in run[q].name
        BY <4>1
      <4>3. run'[q].pc = "relink" /\ n \in run'[q].name
        BY <1>1, <1>5, <4>2
      <4>. QED
        BY <1>1, <4>1, <4>3 DEF Settled
    <3>. QED
      BY <3>1, <3>2
  <2>2. ASSUME NEW q \in Proc, run'[q].pc \in Listing, NEW n \in run'[q].listed,
               n \notin run'[q].todo, n \notin run'[q].name
        PROVE  Settled(n)'
    <3>1. q # p
      BY <1>3, <1>4, <2>2 DEF Listing
    <3>2. Settled(n) /\ n \in Name
      BY <1>2, <1>5, <2>2, <3>1 DEF SInv, SettleInv, Runs
    <3>. QED
      BY <2>1, <3>2
  <2>3. \A n \in made' : Settled(n)'
    BY <1>1, <2>1 DEF SInv, SettleInv, Types
  <2>4. made' # {} => conf' = "bls" \/ \E q \in Proc : run'[q].pc = "write"
    BY <1>1, <1>5 DEF SInv, SettleInv
  <2>. QED
    BY <2>2, <2>3, <2>4 DEF SettleInv
<1>. QED
  BY <1>7, <1>8, <1>9, <1>10, <1>11 DEF SInv

LEMMA EditInv == ASSUME SInv, Edit PROVE SInv'
<1>1. /\ nEdits < MaxEdits /\ nEdits' = nEdits + 1
      /\ \E n \in Name : etc' = IF n \in etc THEN etc \ {n} ELSE etc \cup {n}
      /\ UNCHANGED <<links, conf, run, made, nRuns, nFaults>>
  BY DEF Edit
<1>2. nEdits' \in 0..MaxEdits
  BY <1>1, BoundAssumption DEF SInv, Types
<1>3. etc' \subseteq Name
  BY <1>1 DEF SInv, Types
<1>4. Types'
  BY <1>1, <1>2, <1>3 DEF SInv, Types
<1>5. NameInv' /\ AloneInv' /\ OwnInv' /\ SettleInv'
  BY <1>1 DEF SInv, NameInv, AloneInv, OwnInv, OwnOf, SettleInv, Settled
<1>. QED
  BY <1>4, <1>5 DEF SInv

LEMMA CrashInv == ASSUME SInv, Crash PROVE SInv'
<1>1. /\ run' = [p \in Proc |-> IdleRun] /\ Fault
      /\ UNCHANGED <<etc, links, conf, made, nRuns, nEdits>>
  BY DEF Crash
<1>2. nFaults' \in 0..MaxFaults /\ nFaults' > 0 /\ nFaults' # 0
  BY <1>1, FaultFacts DEF SInv
<1>3. run' \in [Proc -> Runs] /\ \A p \in Proc : run'[p] = IdleRun
  BY <1>1, IdleFacts
<1>4. Types'
  BY <1>1, <1>2, <1>3 DEF SInv, Types
<1>5. NameInv' /\ AloneInv'
  BY <1>3, IdleFacts DEF NameInv, AloneInv, InHand
<1>6. OwnInv'
  BY <1>3, IdleFacts DEF OwnInv, OwnOf
<1>7. SettleInv'
  BY <1>2 DEF SettleInv
<1>. QED
  BY <1>4, <1>5, <1>6, <1>7 DEF SInv

LEMMA StepInv == SInv /\ [Next]_vars => SInv'
<1>. SUFFICES ASSUME SInv, [Next]_vars PROVE SInv'
  OBVIOUS
<1>1. ASSUME NEW p \in Proc, Start(p) \/ OpenDirs(p) \/ MakeLink(p) PROVE SInv'
  BY <1>1, StartInv, OpenDirsInv, MakeLinkInv
<1>2. ASSUME NEW p \in Proc, ReadLink(p) \/ Unlink(p) \/ Relink(p) PROVE SInv'
  BY <1>2, ReadLinkInv, UnlinkInv, RelinkInv
<1>3. ASSUME NEW p \in Proc, Truncate(p) \/ Write(p) \/ End(p) PROVE SInv'
  BY <1>3, TruncateInv, WriteInv, EndInv
<1>4. ASSUME NEW p \in Proc, LinkCut(p) \/ LinkFails(p) \/ WriteFails(p) PROVE SInv'
  BY <1>4, LinkCutInv, FaultInv
<1>5. CASE Edit \/ Crash
  BY <1>5, EditInv, CrashInv
<1>6. CASE UNCHANGED vars
  BY <1>6 DEF vars, SInv, Types, NameInv, AloneInv, OwnInv, OwnOf, SettleInv, Settled
<1>. QED
  BY <1>1, <1>2, <1>3, <1>4, <1>5, <1>6 DEF Next

LEMMA Invariance == Spec => []SInv
BY InitInv, StepInv, PTL DEF Spec

-----------------------------------------------------------------------------
(* The theorems.                                                           *)

\* The variables have their types, and a process has exactly one name in hand
\* while it deals with what readlinkat found under it, else none.
THEOREM ShadowTypes == Spec => []TypeOK
<1>1. SInv => TypeOK
  <2>. SUFFICES ASSUME SInv PROVE TypeOK
    OBVIOUS
  <2>1. ASSUME NEW p \in Proc
        PROVE  Cardinality(run[p].name) =
                 IF run[p].pc \in {"exists", "unlink", "relink"} THEN 1 ELSE 0
    <3>1. CASE run[p].pc \in InHand
      BY <3>1, FS_Singleton DEF SInv, NameInv, InHand
    <3>2. CASE run[p].pc \notin InHand
      BY <3>2, FS_EmptySet DEF SInv, NameInv, InHand
    <3>. QED
      BY <3>1, <3>2
  <2>2. \A p \in Proc :
          /\ run[p].pc \in Pcs /\ run[p].listed \subseteq Name
          /\ run[p].todo \subseteq run[p].listed /\ run[p].name \subseteq run[p].listed
          /\ run[p].alone \in BOOLEAN
    BY DEF SInv, Types, NameInv, Runs
  <2>. QED
    BY <2>1, <2>2 DEF SInv, Types, TypeOK, Pcs
<1>. QED
  BY Invariance, <1>1, PTL

\* Whatever the shadow's install.conf was before, and whatever failed or
\* crashed, a kernel-install run alone reads layout = bls.
THEOREM ChildReadsBlsAlways == Spec => []ChildReadsBls
<1>1. SInv => ChildReadsBls
  BY DEF SInv, OwnInv, OwnOf, ChildReadsBls
<1>. QED
  BY Invariance, <1>1, PTL

\* Whatever links were in the shadow before, a kernel-install run alone finds
\* every file of etc/kernel that readdir gave its update.
THEOREM ChildSeesLinksAlways == Spec => []ChildSeesLinks
<1>1. SInv => ChildSeesLinks
  BY DEF SInv, OwnInv, OwnOf, NameInv, InHand, Listing, ChildSeesLinks
<1>. QED
  BY Invariance, <1>1, PTL

\* An update alone never fails for links an earlier run left behind.
THEOREM FailsForCauseAlways == Spec => []FailsForCause
<1>1. SInv => FailsForCause
  BY DEF SInv, OwnInv, OwnOf, FailsForCause
<1>. QED
  BY Invariance, <1>1, PTL

\* Any number of updates at the same time, in any order of their system calls,
\* leave a right shadow behind once they are over, if no call failed.
THEOREM SettlesRightAlways == Spec => []SettlesRight
<1>1. SInv => SettlesRight
  <2>. SUFFICES ASSUME SInv, \A p \in Proc : run[p].pc = "idle", nFaults = 0
                PROVE  /\ \A n \in made : links[n] = "right"
                       /\ made # {} => conf = "bls"
    BY DEF SettlesRight
  <2>. QED
    BY DEF SInv, SettleInv, Settled
<1>. QED
  BY Invariance, <1>1, PTL

=============================================================================
