------------------------- MODULE BootMounts_proofs --------------------------
(***************************************************************************)
(* BootMounts, the ToolStart it extends and ArrayStr below both, for every *)
(* machine: plugins, trigger lines and mounts of any number, strings of    *)
(* any length, any number of failures, starts and edits.                   *)
(*                                                                         *)
(* First what the operators on sequences and arrays of strings make, then  *)
(* an inductive invariant of the whole, in the parts SharedInv, ConfInv,   *)
(* TrigInv, ChildInv and MountInv, each with the lemma that a step keeps   *)
(* it, and the theorems.  The last section is about config.yaml, and has   *)
(* an invariant of its own.                                                *)
(***************************************************************************)
EXTENDS BootMounts, WellFoundedInduction, TLAPS

-----------------------------------------------------------------------------
(* Sequences built element by element.                                     *)

\* A set that has 0 and every successor of its numbers has all of them.
LEMMA SetInduction ==
  ASSUME NEW S, 0 \in S, \A n \in Nat : n \in S => n + 1 \in S
  PROVE  Nat \subseteq S
<1>. SUFFICES ASSUME Nat \ S # {} PROVE FALSE
  OBVIOUS
<1>1. IsWellFoundedOn(OpToRel(<, Nat), Nat)
  BY NatLessThanWellFounded
<1>2. PICK x \in Nat \ S : \A y \in Nat \ S : ~(<<y, x>> \in OpToRel(<, Nat))
  BY <1>1, WFMin
<1>3. \A y \in Nat \ S : ~(y < x)
  BY <1>2 DEF OpToRel
<1>4. x # 0 /\ x - 1 \in Nat /\ x - 1 < x
  OBVIOUS
<1>5. x - 1 \in S
  BY <1>3, <1>4
<1>6. (x - 1) + 1 = x
  BY <1>4
<1>. QED
  BY <1>2, <1>4, <1>5, <1>6

\* The same up to a bound.
LEMMA UpToInduction ==
  ASSUME NEW S, NEW n \in Nat, 0 \in S, \A k \in 1..n : k - 1 \in S => k \in S
  PROVE  \A k \in 0..n : k \in S
<1>. DEFINE T == {k \in Nat : k <= n => k \in S}
<1>1. 0 \in T
  OBVIOUS
<1>2. ASSUME NEW k \in Nat, k \in T PROVE k + 1 \in T
  <2>1. CASE k + 1 <= n
    <3>1. k + 1 \in 1..n /\ (k + 1) - 1 = k /\ k <= n
      BY <2>1
    <3>. QED
      BY <1>2, <3>1
  <2>2. CASE ~(k + 1 <= n)
    BY <2>2
  <2>. QED
    BY <2>1, <2>2
<1>. HIDE DEF T
<1>3. Nat \subseteq T
  BY <1>1, <1>2, SetInduction
<1>. QED
  BY <1>3 DEF T

\* The greatest number of a set is that of its interval, and one of the set.
LEMMA MaxIn ==
  ASSUME NEW n \in Nat, NEW t \in SUBSET (1..n), t # {}
  PROVE  Max(t) \in t /\ \A y \in t : Max(t) >= y
<1>. DEFINE U == {u \in Nat : \A y \in t : y <= u}
<1>1. n \in U
  OBVIOUS
<1>2. IsWellFoundedOn(OpToRel(<, Nat), Nat)
  BY NatLessThanWellFounded
<1>3. PICK u \in U : \A w \in U : ~(<<w, u>> \in OpToRel(<, Nat))
  BY <1>1, <1>2, WFMin
<1>4. \A w \in U : ~(w < u)
  BY <1>3 DEF OpToRel
<1>5. u \in Nat /\ \A y \in t : y <= u
  OBVIOUS
<1>6. u \in t
  <2>1. SUFFICES ASSUME u \notin t PROVE FALSE
    OBVIOUS
  <2>2. PICK y \in t : TRUE
    OBVIOUS
  <2>3. y \in Nat /\ 1 <= y /\ y <= u
    BY <1>5
  <2>4. u - 1 \in Nat /\ u - 1 < u
    BY <1>5, <2>3
  <2>5. \A z \in t : z <= u - 1
    BY <1>5, <2>1
  <2>. QED
    BY <1>4, <2>4, <2>5
<1>7. \A y \in t : u >= y
  BY <1>5
<1>. HIDE DEF U
<1>. QED
  BY <1>6, <1>7 DEF Max

LEMMA MaxUpTo ==
  ASSUME NEW k \in Nat, k # 0
  PROVE  1..k # {} /\ Max(1..k) = k /\ (1..k) \ {k} = 1..(k - 1)
<1>1. k \in 1..k
  OBVIOUS
<1>2. Max(1..k) \in 1..k /\ Max(1..k) >= k
  BY <1>1, MaxIn
<1>3. Max(1..k) = k
  BY <1>2
<1>. QED
  BY <1>1, <1>3

\* F is what FoldLeft iterates over s, for a step that is a function on T.
IsFold(F, T, f, b, s) ==
  /\ F \in [SUBSET (1..Len(s)) -> T]
  /\ \A t \in SUBSET (1..Len(s)) :
       F[t] = IF t = {} THEN b ELSE f[<<F[t \ {Max(t)}], s[Max(t)]>>]

\* What FoldLeft iterates exists: a function on the sets of indices, here for a
\* step that is a function on a set of values.
LEMMA FoldExists ==
  ASSUME NEW T, NEW E, NEW b \in T, NEW f \in [T \X E -> T], NEW s \in Seq(E)
  PROVE  \E F : IsFold(F, T, f, b, s)
<1>. DEFINE Is(F, n) ==
              /\ F \in [SUBSET (1..n) -> T]
              /\ \A t \in SUBSET (1..n) :
                   F[t] = IF t = {} THEN b ELSE f[<<F[t \ {Max(t)}], s[Max(t)]>>]
            S == {n \in Nat : \E F : Is(F, n)}
<1>1. 0 \in S
  <2>1. SUBSET (1..0) = {{}}
    OBVIOUS
  <2>2. Is([t \in {{}} |-> b], 0)
    BY <2>1
  <2>. QED
    BY <2>2
<1>2. ASSUME NEW k \in 1..Len(s), k - 1 \in S PROVE k \in S
  <2>1. PICK F : Is(F, k - 1)
    BY <1>2
  <2>2. k \in Nat /\ k - 1 \in Nat /\ s[k] \in E
    OBVIOUS
  <2>3. PICK G : G = [t \in SUBSET (1..k) |-> IF k \in t THEN f[<<F[t \ {k}], s[k]>>] ELSE F[t]]
    OBVIOUS
  <2>4. \A t \in SUBSET (1..k) : t \ {k} \in SUBSET (1..(k - 1))
    BY <2>2
  <2>5. \A t \in SUBSET (1..k) : k \notin t => t \in SUBSET (1..(k - 1))
    BY <2>2
  <2>6. G \in [SUBSET (1..k) -> T]
    <3>1. ASSUME NEW t \in SUBSET (1..k) PROVE G[t] \in T
      <4>1. CASE k \in t
        <5>1. F[t \ {k}] \in T
          BY <2>1, <2>4
        <5>. QED
          BY <2>2, <2>3, <4>1, <5>1
      <4>2. CASE k \notin t
        BY <2>1, <2>3, <2>5, <4>2
      <4>. QED
        BY <4>1, <4>2
    <3>. QED
      BY <2>3, <3>1
  <2>7. ASSUME NEW t \in SUBSET (1..k), t # {}
        PROVE  G[t] = f[<<G[t \ {Max(t)}], s[Max(t)]>>]
    <3>1. Max(t) \in t /\ \A y \in t : Max(t) >= y
      BY <2>2, <2>7, MaxIn
    <3>2. CASE k \in t
      <4>1. Max(t) = k
        <5>1. Max(t) \in 1..k /\ Max(t) >= k
          BY <3>1, <3>2
        <5>. QED
          BY <2>2, <5>1
      <4>2. G[t \ {k}] = F[t \ {k}]
        BY <2>3
      <4>. QED
        BY <2>3, <3>2, <4>1, <4>2
    <3>3. CASE k \notin t
      <4>1. t \in SUBSET (1..(k - 1)) /\ t \ {Max(t)} \in SUBSET (1..(k - 1))
        BY <2>5, <3>3
      <4>2. F[t] = f[<<F[t \ {Max(t)}], s[Max(t)]>>]
        BY <2>1, <2>7, <4>1
      <4>3. G[t \ {Max(t)}] = F[t \ {Max(t)}] /\ G[t] = F[t]
        BY <2>3, <3>3
      <4>. QED
        BY <4>2, <4>3
    <3>. QED
      BY <3>2, <3>3
  <2>8. G[{}] = b
    BY <2>1, <2>3
  <2>9. Is(G, k)
    BY <2>6, <2>7, <2>8
  <2>. QED
    BY <2>2, <2>9
<1>. HIDE DEF S
<1>3. Len(s) \in Nat
  OBVIOUS
<1>4. \A k \in 0..Len(s) : k \in S
  BY <1>1, <1>2, <1>3, UpToInduction
<1>5. Len(s) \in S
  BY <1>3, <1>4
<1>. QED
  BY <1>5 DEF S, IsFold

\* g[k] is what is selected of the first k elements.
IsSelection(g, E, s, S) ==
  /\ g \in [0..Len(s) -> Seq(E)]
  /\ g[0] = <<>>
  /\ \A k \in 1..Len(s) : g[k] = IF s[k] \in S THEN Append(g[k - 1], s[k]) ELSE g[k - 1]
  /\ Selected(s, S) = g[Len(s)]

LEMMA SelectedSteps ==
  ASSUME NEW E, NEW s \in Seq(E), NEW S
  PROVE  \E g : IsSelection(g, E, s, S)
<1>. DEFINE D == 1..Len(s)
            Eq(F) == F = [t \in SUBSET D |->
                            IF t = {} THEN <<>>
                            ELSE IF s[Max(t)] \in S THEN Append(F[t \ {Max(t)}], s[Max(t)])
                            ELSE F[t \ {Max(t)}]]
            f == [p \in Seq(E) \X E |-> IF p[2] \in S THEN Append(p[1], p[2]) ELSE p[1]]
<1>1. f \in [Seq(E) \X E -> Seq(E)] /\ <<>> \in Seq(E) /\ DOMAIN s = D /\ Len(s) \in Nat
  OBVIOUS
<1>1a. PICK H : IsFold(H, Seq(E), f, <<>>, s)
  <2>. HIDE DEF f
  <2>. QED
    BY <1>1, FoldExists
<1>2. /\ H \in [SUBSET D -> Seq(E)]
      /\ \A t \in SUBSET D : H[t] = IF t = {} THEN <<>> ELSE f[<<H[t \ {Max(t)}], s[Max(t)]>>]
  <2>. HIDE DEF f
  <2>. QED
    BY <1>1a DEF IsFold
<1>3. ASSUME NEW t \in SUBSET D, t # {}
      PROVE  H[t] = IF s[Max(t)] \in S THEN Append(H[t \ {Max(t)}], s[Max(t)]) ELSE H[t \ {Max(t)}]
  <2>1. Max(t) \in t
    BY <1>1, <1>3, MaxIn
  <2>2. s[Max(t)] \in E /\ H[t \ {Max(t)}] \in Seq(E)
    <3>1. Max(t) \in 1..Len(s) /\ t \ {Max(t)} \in SUBSET D
      BY <2>1
    <3>. QED
      BY <1>2, <3>1
  <2>3. H[t] = f[<<H[t \ {Max(t)}], s[Max(t)]>>]
    BY <1>2, <1>3
  <2>. QED
    BY <2>2, <2>3
<1>4. Eq(H)
  BY <1>2, <1>3
<1>5. PICK F : F = (CHOOSE G : Eq(G)) /\ Selected(s, S) = F[D]
  BY <1>1 DEF Selected, FoldLeft, MapThenFoldSet
<1>6. Eq(F)
  <2>. HIDE DEF Eq
  <2>. QED
    BY <1>4, <1>5
<1>7. PICK g : g = [k \in 0..Len(s) |-> F[1..k]]
  OBVIOUS
<1>8. 1..0 = {} /\ g[0] = <<>> /\ g[Len(s)] = F[D]
  BY <1>1, <1>6, <1>7
<1>9. ASSUME NEW k \in 1..Len(s)
      PROVE  g[k] = IF s[k] \in S THEN Append(g[k - 1], s[k]) ELSE g[k - 1]
  <2>1. k \in Nat /\ k # 0 /\ k \in 0..Len(s) /\ k - 1 \in 0..Len(s) /\ 1..k \in SUBSET D
    BY <1>1
  <2>2. 1..k # {} /\ Max(1..k) = k /\ (1..k) \ {k} = 1..(k - 1)
    BY <2>1, MaxUpTo
  <2>3. F[1..k] = IF s[k] \in S THEN Append(F[1..(k - 1)], s[k]) ELSE F[1..(k - 1)]
    BY <1>6, <2>1, <2>2
  <2>. QED
    BY <1>7, <2>1, <2>3
<1>. HIDE DEF f, Eq, D
<1>10. \A k \in 0..Len(s) : g[k] \in Seq(E)
  <2>. DEFINE P == {k \in Nat : g[k] \in Seq(E)}
  <2>1. 0 \in P
    BY <1>1, <1>8
  <2>2. ASSUME NEW k \in 1..Len(s), k - 1 \in P PROVE k \in P
    <3>1. k \in Nat /\ s[k] \in E /\ g[k - 1] \in Seq(E)
      BY <1>1, <2>2
    <3>2. Append(g[k - 1], s[k]) \in Seq(E)
      BY <3>1
    <3>. QED
      BY <1>9, <3>1, <3>2
  <2>. HIDE DEF P
  <2>3. \A k \in 0..Len(s) : k \in P
    BY <1>1, <2>1, <2>2, UpToInduction
  <2>. QED
    BY <2>3 DEF P
<1>11. g \in [0..Len(s) -> Seq(E)]
  BY <1>7, <1>10
<1>12. Selected(s, S) = g[Len(s)]
  BY <1>5, <1>8
<1>. QED
  BY <1>8, <1>9, <1>11, <1>12 DEF IsSelection

-----------------------------------------------------------------------------
(* Arrays of strings.                                                      *)

RowVal == Str \cup {NULL}

\* Arrays with a row and its length for every place, and those no row of which
\* is counted as used: all but that of the triggers.
Arrays ==
  {a \in [rows : Seq(RowVal), lens : Seq(Nat), used : Nat] :
     Len(a.rows) = Len(a.lens) /\ a.used <= Len(a.lens)}
Unused == {a \in Arrays : a.used = 0}

LEMMA ArraysAre ==
  ASSUME NEW a \in Arrays
  PROVE  /\ IsArr(a)
         /\ a = [rows |-> a.rows, lens |-> a.lens, used |-> a.used]
         /\ Len(a.rows) \in Nat /\ DOMAIN a.rows = 1..Len(a.rows)
         /\ DOMAIN a.lens = 1..Len(a.rows)
         /\ a.rows \in Seq(RowVal) /\ a.lens \in Seq(Nat) /\ a.used \in Nat /\ a.used <= Len(a.rows)
BY DEF Arrays, IsArr

LEMMA ArrayExcept ==
  ASSUME NEW a \in Arrays, NEW x
  PROVE  /\ [a EXCEPT !.rows = x] = [rows |-> x, lens |-> a.lens, used |-> a.used]
         /\ [a EXCEPT !.lens = x] = [rows |-> a.rows, lens |-> x, used |-> a.used]
         /\ [a EXCEPT !.used = x] = [rows |-> a.rows, lens |-> a.lens, used |-> x]
BY DEF Arrays

\* An array is one if its parts are.
LEMMA ArrayOf ==
  ASSUME NEW r, NEW l, NEW u \in Nat, NEW n \in Nat, u <= n,
         r \in [1..n -> RowVal], l \in [1..n -> Nat]
  PROVE  /\ [rows |-> r, lens |-> l, used |-> u] \in Arrays
         /\ u = 0 => [rows |-> r, lens |-> l, used |-> u] \in Unused
         /\ Len(r) = n /\ r \in Seq(RowVal)
BY DEF Arrays, Unused

LEMMA UnusedArrays == Unused \subseteq Arrays /\ \A a \in Unused : a.used = 0
BY DEF Unused

LEMMA StrRow == \A r \in Str : Len(r) \in Nat /\ r \in RowVal /\ r # NULL
BY NullAssumption DEF Str, RowVal

LEMMA EmptyArrType == EmptyArr \in Unused /\ EmptyArr.rows = <<>>
BY DEF EmptyArr, Unused, Arrays

LEMMA NewArrType ==
  ASSUME NEW n \in Nat
  PROVE  NewArr(n) \in Unused /\ Len(NewArr(n).rows) = n
<1>1. NULL \in RowVal
  BY DEF RowVal
<1>. QED
  BY <1>1, ArrayOf DEF NewArr

LEMMA ResizedType ==
  ASSUME NEW a \in Arrays, NEW n \in Nat
  PROVE  /\ Resized(a, n) \in Arrays /\ Len(Resized(a, n).rows) = n
         /\ a \in Unused => Resized(a, n) \in Unused
         /\ Resized(a, n).used = IF a.used > n THEN n ELSE a.used
         /\ \A k \in 1..n : Resized(a, n).rows[k] = IF k <= Len(a.rows) THEN a.rows[k] ELSE NULL
         /\ \A k \in 1..n : Resized(a, n).lens[k] = IF k <= Len(a.rows) THEN a.lens[k] ELSE 0
<1>. DEFINE r == [k \in 1..n |-> IF k \in DOMAIN a.rows THEN a.rows[k] ELSE NULL]
            l == [k \in 1..n |-> IF k \in DOMAIN a.lens THEN a.lens[k] ELSE 0]
            u == IF a.used > n THEN n ELSE a.used
<1>1. /\ a.rows \in Seq(RowVal) /\ a.lens \in Seq(Nat) /\ a.used \in Nat
      /\ DOMAIN a.rows = 1..Len(a.rows) /\ DOMAIN a.lens = 1..Len(a.rows) /\ Len(a.rows) \in Nat
  BY ArraysAre
<1>2. NULL \in RowVal
  BY DEF RowVal
<1>3. r \in [1..n -> RowVal] /\ l \in [1..n -> Nat] /\ u \in Nat /\ u <= n
  BY <1>1, <1>2
<1>4. Resized(a, n) = [rows |-> r, lens |-> l, used |-> u]
  BY DEF Resized
<1>5. \A k \in 1..n : (k \in 1..Len(a.rows)) <=> k <= Len(a.rows)
  BY <1>1
<1>6. /\ \A k \in 1..n : r[k] = IF k <= Len(a.rows) THEN a.rows[k] ELSE NULL
      /\ \A k \in 1..n : l[k] = IF k <= Len(a.rows) THEN a.lens[k] ELSE 0
  BY <1>1, <1>5
<1>7. a \in Unused => u = 0
  BY UnusedArrays
<1>. HIDE DEF r, l
<1>. QED
  BY <1>3, <1>4, <1>6, <1>7, ArrayOf

LEMMA StoredType ==
  ASSUME NEW a \in Arrays, NEW k \in 1..Len(a.rows), NEW string \in Str
  PROVE  /\ Stored(a, k, string) \in Arrays
         /\ a \in Unused => Stored(a, k, string) \in Unused
         /\ Len(Stored(a, k, string).rows) = Len(a.rows)
         /\ Stored(a, k, string).used = a.used /\ Stored(a, k, string).lens = a.lens
         /\ \A j \in 1..Len(a.rows) :
              Stored(a, k, string).rows[j] = IF j = k THEN string ELSE a.rows[j]
<1>. DEFINE n == Len(a.rows)
            r == [j \in 1..n |-> IF j = k THEN string ELSE a.rows[j]]
<1>1. /\ a.rows \in Seq(RowVal) /\ a.lens \in Seq(Nat) /\ a.used \in Nat /\ a.used <= n
      /\ DOMAIN a.rows = 1..n /\ DOMAIN a.lens = 1..n /\ n \in Nat
      /\ a = [rows |-> a.rows, lens |-> a.lens, used |-> a.used]
  BY ArraysAre
<1>2. string \in RowVal
  BY StrRow
<1>3. r \in [1..n -> RowVal] /\ a.lens \in [1..n -> Nat]
  BY <1>1, <1>2
<1>4. DOMAIN a.rows \cup {k} = 1..n
  BY <1>1
<1>5. Stored(a, k, string) = [rows |-> r, lens |-> a.lens, used |-> a.used]
  <2>1. Stored(a, k, string) = [a EXCEPT !.rows = r]
    BY <1>4 DEF Stored
  <2>. HIDE DEF r
  <2>. QED
    BY <2>1, ArrayExcept
<1>6. a \in Unused => a.used = 0
  BY UnusedArrays
<1>7. \A j \in 1..n : r[j] = IF j = k THEN string ELSE a.rows[j]
  OBVIOUS
<1>. HIDE DEF r, n
<1>8. Stored(a, k, string) \in Arrays /\ (a \in Unused => Stored(a, k, string) \in Unused)
      /\ Len(r) = n
  BY <1>1, <1>3, <1>5, <1>6, ArrayOf
<1>. QED
  BY <1>5, <1>7, <1>8 DEF n

LEMMA StoredAllType ==
  ASSUME NEW a \in Arrays, NEW strings \in Seq(Str), Len(strings) <= Len(a.rows)
  PROVE  /\ StoredAll(a, strings) \in Arrays
         /\ a \in Unused => StoredAll(a, strings) \in Unused
         /\ Len(StoredAll(a, strings).rows) = Len(a.rows)
         /\ StoredAll(a, strings).lens = a.lens
         /\ \A j \in 1..Len(a.rows) :
              StoredAll(a, strings).rows[j] = IF j <= Len(strings) THEN strings[j] ELSE a.rows[j]
<1>. DEFINE n == Len(a.rows)
            r == [j \in 1..n |-> IF j \in DOMAIN strings THEN strings[j] ELSE a.rows[j]]
<1>1. /\ a.rows \in Seq(RowVal) /\ a.lens \in Seq(Nat) /\ a.used \in Nat /\ a.used <= n
      /\ DOMAIN a.rows = 1..n /\ DOMAIN a.lens = 1..n /\ n \in Nat
      /\ a = [rows |-> a.rows, lens |-> a.lens, used |-> a.used]
  BY ArraysAre
<1>2. DOMAIN strings = 1..Len(strings) /\ Len(strings) \in Nat /\ Len(strings) <= n
  OBVIOUS
<1>3. \A j \in 1..Len(strings) : strings[j] \in RowVal
  BY StrRow
<1>4. r \in [1..n -> RowVal] /\ a.lens \in [1..n -> Nat]
  BY <1>1, <1>2, <1>3
<1>5. DOMAIN a.rows \cup DOMAIN strings = 1..n
  BY <1>1, <1>2
<1>6. StoredAll(a, strings) = [rows |-> r, lens |-> a.lens, used |-> a.used]
  <2>1. StoredAll(a, strings) = [a EXCEPT !.rows = r]
    BY <1>5 DEF StoredAll
  <2>. HIDE DEF r
  <2>. QED
    BY <2>1, ArrayExcept
<1>7. a \in Unused => a.used = 0
  BY UnusedArrays
<1>8. \A j \in 1..n : r[j] = IF j <= Len(strings) THEN strings[j] ELSE a.rows[j]
  BY <1>2
<1>. HIDE DEF r, n
<1>9. StoredAll(a, strings) \in Arrays /\ (a \in Unused => StoredAll(a, strings) \in Unused)
      /\ Len(r) = n
  BY <1>1, <1>4, <1>6, <1>7, ArrayOf
<1>. QED
  BY <1>6, <1>8, <1>9 DEF n

LEMMA RefreshedType ==
  ASSUME NEW a \in Arrays
  PROVE  /\ Refreshed(a) \in Arrays /\ Refreshed(a).rows = a.rows
         /\ a \in Unused => Refreshed(a) \in Unused
         /\ \A k \in 1..Len(a.rows) :
              Refreshed(a).lens[k] = IF a.rows[k] = NULL THEN 0 ELSE Len(a.rows[k])
<1>. DEFINE n == Len(a.rows)
            l == [k \in 1..n |-> IF a.rows[k] = NULL THEN 0 ELSE Len(a.rows[k])]
<1>1. /\ a.rows \in Seq(RowVal) /\ a.used \in Nat /\ a.used <= n
      /\ DOMAIN a.rows = 1..n /\ DOMAIN a.lens = 1..n /\ n \in Nat
      /\ a = [rows |-> a.rows, lens |-> a.lens, used |-> a.used]
  BY ArraysAre
<1>2. \A k \in 1..n : a.rows[k] # NULL => Len(a.rows[k]) \in Nat
  BY <1>1, StrRow DEF RowVal
<1>3. l \in [1..n -> Nat] /\ a.rows \in [1..n -> RowVal]
  BY <1>1, <1>2
<1>4. Refreshed(a) = [rows |-> a.rows, lens |-> l, used |-> a.used]
  <2>1. Refreshed(a) = [a EXCEPT !.lens = l]
    BY <1>1 DEF Refreshed
  <2>. HIDE DEF l
  <2>. QED
    BY <2>1, ArrayExcept
<1>5. a \in Unused => a.used = 0
  BY UnusedArrays
<1>6. \A k \in 1..n : l[k] = IF a.rows[k] = NULL THEN 0 ELSE Len(a.rows[k])
  OBVIOUS
<1>. HIDE DEF l
<1>. QED
  BY <1>1, <1>3, <1>4, <1>5, <1>6, ArrayOf

LEMMA SeqEqual ==
  ASSUME NEW E, NEW s \in Seq(E), NEW t \in Seq(E), Len(s) = Len(t),
         \A k \in 1..Len(s) : s[k] = t[k]
  PROVE  s = t
OBVIOUS

LEMMA ConcatSeq ==
  ASSUME NEW E, NEW s \in Seq(E), NEW t \in Seq(E)
  PROVE  /\ s \o t \in Seq(E) /\ Len(s \o t) = Len(s) + Len(t)
         /\ Len(s) \in Nat /\ Len(t) \in Nat
         /\ \A k \in 1..Len(s) : (s \o t)[k] = s[k]
         /\ \A k \in 1..Len(t) : (s \o t)[Len(s) + k] = t[k]
OBVIOUS

LEMMA StrConcat ==
  ASSUME NEW s \in Str, NEW t \in Str
  PROVE  /\ s \o t \in Str /\ Len(s \o t) = Len(s) + Len(t)
         /\ Len(s) \in Nat /\ Len(t) \in Nat /\ s \o <<>> = s
BY DEF Str

LEMMA WordsType ==
  /\ PluginsVar \in Str /\ Len(PluginsVar) = 1
  /\ <<" ">> \in Str /\ Len(<<" ">>) = 1
  /\ <<>> \in Str
<1>1. ASSUME NEW w \in Word PROVE <<w>> \in Str /\ Len(<<w>>) = 1
  BY DEF Str
<1>2. "KERNEL_INSTALL_PLUGINS=" \in Word /\ " " \in Word
  BY WordAssumption
<1>3. <<>> \in Str
  BY DEF Str
<1>. QED
  BY <1>1, <1>2, <1>3 DEF PluginsVar

LEMMA ConcatAssociates ==
  ASSUME NEW E, NEW s \in Seq(E), NEW t \in Seq(E), NEW u \in Seq(E)
  PROVE  (s \o t) \o u = s \o (t \o u)
<1>1. /\ s \o t \in Seq(E) /\ t \o u \in Seq(E)
      /\ Len(s \o t) = Len(s) + Len(t) /\ Len(t \o u) = Len(t) + Len(u)
      /\ Len(s) \in Nat /\ Len(t) \in Nat /\ Len(u) \in Nat
  BY ConcatSeq
<1>2. /\ (s \o t) \o u \in Seq(E) /\ Len((s \o t) \o u) = Len(s) + Len(t) + Len(u)
      /\ s \o (t \o u) \in Seq(E) /\ Len(s \o (t \o u)) = Len(s) + Len(t) + Len(u)
  BY <1>1, ConcatSeq
<1>3. ASSUME NEW k \in 1..(Len(s) + Len(t) + Len(u))
      PROVE  ((s \o t) \o u)[k] = (s \o (t \o u))[k]
  BY <1>1
<1>. QED
  BY <1>2, <1>3, SeqEqual

\* The provers do not find how to instantiate a fact about concatenations.
Cat(s, t) == s \o t

LEMMA CatAssociates ==
  ASSUME NEW s \in Str, NEW t \in Str, NEW u \in Str
  PROVE  Cat(s, t) \in Str /\ Cat(Cat(s, t), u) = Cat(s, Cat(t, u))
<1>1. s \in Seq(Word) /\ t \in Seq(Word) /\ u \in Seq(Word)
  BY DEF Str
<1>2. (s \o t) \o u = s \o (t \o u)
  BY <1>1, ConcatAssociates
<1>3. s \o t \in Str
  BY <1>1, ConcatSeq DEF Str
<1>. QED
  BY <1>2, <1>3 DEF Cat

LEMMA ConcatThree ==
  ASSUME NEW s \in Str, NEW t \in Str, NEW u \in Str, NEW v \in Str
  PROVE  Cat(Cat(Cat(s, t), u), v) = Cat(s, Cat(t, Cat(u, v)))
<1>1. PICK w : w = Cat(s, t)
  OBVIOUS
<1>2. PICK x : x = Cat(u, v)
  OBVIOUS
<1>3. w \in Str /\ x \in Str
  BY <1>1, <1>2, CatAssociates
<1>4. Cat(Cat(w, u), v) = Cat(w, x)
  BY <1>2, <1>3, CatAssociates
<1>5. Cat(Cat(s, t), x) = Cat(s, Cat(t, x))
  BY <1>3, CatAssociates
<1>. QED
  BY <1>1, <1>2, <1>4, <1>5

LEMMA FunSeq ==
  ASSUME NEW E, NEW n \in Nat
  PROVE  /\ \A f \in [1..n -> E] : f \in Seq(E) /\ Len(f) = n
         /\ \A s \in Seq(E) : Len(s) = n => s \in [1..n -> E]
OBVIOUS

LEMMA AddedType ==
  ASSUME NEW a \in Unused, NEW string \in Str
  PROVE  /\ Added(a, string) \in Unused
         /\ Added(a, string).rows = Append(a.rows, string)
         /\ Added(a, string).lens = Append(a.lens, Len(string))
<1>. DEFINE n == Len(a.rows) + 1
            b == Resized(a, n)
            c == Stored(b, n, string)
            l == [c.lens EXCEPT ![n] = Len(string)]
<1>1. /\ a \in Arrays /\ a.rows \in Seq(RowVal) /\ a.lens \in Seq(Nat) /\ Len(a.rows) \in Nat
      /\ DOMAIN a.lens = 1..Len(a.rows) /\ Len(a.lens) = Len(a.rows)
  BY UnusedArrays, ArraysAre
<1>2. n \in Nat /\ n \in 1..n /\ Len(string) \in Nat /\ string \in RowVal
  BY <1>1, StrRow
<1>3. /\ b \in Arrays /\ b \in Unused /\ Len(b.rows) = n
      /\ \A k \in 1..n : b.rows[k] = IF k <= Len(a.rows) THEN a.rows[k] ELSE NULL
      /\ \A k \in 1..n : b.lens[k] = IF k <= Len(a.rows) THEN a.lens[k] ELSE 0
  BY <1>1, <1>2, ResizedType, UnusedArrays
<1>. HIDE DEF b
<1>4. /\ c \in Unused /\ Len(c.rows) = n /\ c.lens = b.lens
      /\ \A k \in 1..n : c.rows[k] = IF k = n THEN string ELSE b.rows[k]
  BY <1>2, <1>3, StoredType
<1>. HIDE DEF c
<1>5. c \in Arrays /\ c.rows \in Seq(RowVal) /\ c.lens \in Seq(Nat) /\ DOMAIN c.lens = 1..n
      /\ c.used = 0 /\ c.rows \in [1..n -> RowVal] /\ c.lens \in [1..n -> Nat]
  <2>1. c \in Arrays /\ c.used = 0
    BY <1>4, UnusedArrays
  <2>2. c.rows \in Seq(RowVal) /\ c.lens \in Seq(Nat) /\ Len(c.rows) = n /\ Len(c.lens) = n
    BY <1>4, <2>1 DEF Arrays
  <2>. HIDE DEF n
  <2>. QED
    BY <1>2, <2>1, <2>2, FunSeq
<1>6. l \in [1..n -> Nat]
  BY <1>2, <1>5
<1>7. Added(a, string) = [rows |-> c.rows, lens |-> l, used |-> 0]
  <2>1. Added(a, string) = [c EXCEPT !.lens = l]
    BY <1>5 DEF Added, n, b, c, Arrays
  <2>. HIDE DEF l
  <2>. QED
    BY <1>5, <2>1, ArrayExcept
<1>8. c.rows = Append(a.rows, string)
  <2>1. Append(a.rows, string) \in Seq(RowVal) /\ Len(Append(a.rows, string)) = n
    BY <1>1, <1>2
  <2>2. \A k \in 1..n : c.rows[k] = Append(a.rows, string)[k]
    BY <1>1, <1>3, <1>4
  <2>. QED
    BY <1>4, <1>5, <2>1, <2>2, SeqEqual
<1>9. l = Append(a.lens, Len(string))
  <2>1. Append(a.lens, Len(string)) \in Seq(Nat) /\ Len(Append(a.lens, Len(string))) = n
    BY <1>1, <1>2
  <2>2. \A k \in 1..n : l[k] = Append(a.lens, Len(string))[k]
    BY <1>1, <1>3, <1>4, <1>5
  <2>3. l \in Seq(Nat) /\ Len(l) = n
    <3>. HIDE DEF l, n
    <3>. QED
      BY <1>2, <1>6, FunSeq
  <2>. HIDE DEF l
  <2>. QED
    BY <2>1, <2>2, <2>3, SeqEqual
<1>10. [rows |-> c.rows, lens |-> l, used |-> 0] \in Unused
  <2>1. n \in Nat /\ 0 \in Nat /\ 0 <= n
    BY <1>2
  <2>2. c.rows \in [1..n -> RowVal]
    BY <1>5
  <2>. HIDE DEF l, n
  <2>. QED
    BY <1>6, <2>1, <2>2, ArrayOf
<1>. HIDE DEF l, n
<1>. QED
  BY <1>7, <1>8, <1>9, <1>10

\* An array without empty rows is one of strings, and is read to its end.
LEMMA NoNullRows ==
  ASSUME NEW a \in Arrays
  PROVE  /\ ~HasNull(a) <=> a.rows \in Seq(Str)
         /\ ~HasNull(a) => UpToNull(a) = Len(a.rows)
<1>1. a.rows \in Seq(RowVal) /\ DOMAIN a.rows = 1..Len(a.rows)
  BY ArraysAre
<1>2. ASSUME ~HasNull(a) PROVE a.rows \in Seq(Str)
  BY <1>1, <1>2 DEF HasNull, RowVal
<1>3. ASSUME a.rows \in Seq(Str) PROVE ~HasNull(a)
  BY <1>1, <1>3, NullAssumption DEF HasNull
<1>. QED
  BY <1>2, <1>3 DEF UpToNull

LEMMA UpToNullIs ==
  ASSUME NEW a \in Arrays, NEW n \in Nat, n < Len(a.rows), a.rows[n + 1] = NULL,
         \A k \in 1..n : a.rows[k] # NULL
  PROVE  UpToNull(a) = n
<1>1. Len(a.rows) \in Nat /\ DOMAIN a.rows = 1..Len(a.rows) /\ n + 1 \in 1..Len(a.rows)
      /\ n \in 0..(Len(a.rows) - 1)
  BY ArraysAre
<1>2. HasNull(a)
  BY <1>1 DEF HasNull
<1>3. ASSUME NEW m \in 0..(Len(a.rows) - 1), a.rows[m + 1] = NULL, \A k \in 1..m : a.rows[k] # NULL
      PROVE  m = n
  <2>1. ~(m < n)
    <3>1. m < n => m + 1 \in 1..n
      BY <1>1
    <3>. QED
      BY <1>3, <3>1
  <2>2. ~(n < m)
    <3>1. n < m => n + 1 \in 1..m
      BY <1>1
    <3>. QED
      BY <1>3, <3>1
  <2>. QED
    BY <1>1, <2>1, <2>2
<1>. QED
  BY <1>1, <1>2, <1>3 DEF UpToNull

LEMMA NullTerminatedType ==
  ASSUME NEW a \in Unused
  PROVE  /\ NullTerminated(a) \in Unused /\ HasNull(NullTerminated(a))
         /\ ~HasNull(a) => /\ Len(NullTerminated(a).rows) = Len(a.rows) + 1
                           /\ NullTerminated(a).rows[Len(a.rows) + 1] = NULL
                           /\ \A k \in 1..Len(a.rows) : NullTerminated(a).rows[k] = a.rows[k]
<1>1. a \in Arrays /\ Len(a.rows) \in Nat
  BY UnusedArrays, ArraysAre
<1>2. CASE HasNull(a)
  BY <1>2 DEF NullTerminated
<1>3. CASE ~HasNull(a)
  <2>. DEFINE n == Len(a.rows) + 1
  <2>1. n \in Nat /\ n \in 1..n /\ n > Len(a.rows) /\ (\A k \in 1..Len(a.rows) : k \in 1..n /\ k <= Len(a.rows))
    BY <1>1
  <2>2. NullTerminated(a) = Resized(a, n)
    BY <1>3 DEF NullTerminated
  <2>. HIDE DEF n
  <2>3. /\ Resized(a, n) \in Unused /\ Len(Resized(a, n).rows) = n
        /\ \A k \in 1..n : Resized(a, n).rows[k] = IF k <= Len(a.rows) THEN a.rows[k] ELSE NULL
    BY <1>1, <2>1, ResizedType
  <2>4. Resized(a, n).rows[n] = NULL
    BY <1>1, <2>1, <2>3
  <2>5. DOMAIN Resized(a, n).rows = 1..n
    BY <2>3, UnusedArrays, ArraysAre
  <2>6. HasNull(Resized(a, n))
    BY <2>1, <2>4, <2>5 DEF HasNull
  <2>. QED
    BY <2>1, <2>2, <2>3, <2>4, <2>6 DEF n
<1>. QED
  BY <1>2, <1>3

\* What is selected is no longer than the sequence; of a sequence whose first m
\* elements are those in the set it is these.
LEMMA SelectedType ==
  ASSUME NEW E, NEW s \in Seq(E), NEW S
  PROVE  /\ Selected(s, S) \in Seq(E \cap S)
         /\ Len(Selected(s, S)) \in Nat /\ Len(Selected(s, S)) <= Len(s)
<1>0. PICK g : IsSelection(g, E, s, S)
  BY SelectedSteps
<1>1. /\ g \in [0..Len(s) -> Seq(E)]
      /\ g[0] = <<>>
      /\ \A k \in 1..Len(s) : g[k] = IF s[k] \in S THEN Append(g[k - 1], s[k]) ELSE g[k - 1]
      /\ Selected(s, S) = g[Len(s)]
  BY <1>0 DEF IsSelection
<1>2. Len(s) \in Nat
  OBVIOUS
<1>. DEFINE P == {k \in Nat : g[k] \in Seq(E \cap S) /\ Len(g[k]) <= k}
<1>3. 0 \in P
  BY <1>1
<1>4. ASSUME NEW k \in 1..Len(s), k - 1 \in P PROVE k \in P
  <2>1. s[k] \in E /\ g[k - 1] \in Seq(E \cap S) /\ Len(g[k - 1]) <= k - 1 /\ k \in Nat
    BY <1>4
  <2>2. CASE s[k] \in S
    <3>1. g[k] = Append(g[k - 1], s[k])
      BY <1>1, <2>2
    <3>2. g[k] \in Seq(E \cap S) /\ Len(g[k]) = Len(g[k - 1]) + 1
      BY <2>1, <2>2, <3>1
    <3>. QED
      BY <2>1, <3>2
  <2>3. CASE s[k] \notin S
    BY <1>1, <2>1, <2>3
  <2>. QED
    BY <2>2, <2>3
<1>. HIDE DEF P
<1>5. \A k \in 0..Len(s) : k \in P
  BY <1>2, <1>3, <1>4, UpToInduction
<1>6. Len(s) \in P
  BY <1>2, <1>5
<1>. QED
  BY <1>1, <1>6 DEF P

LEMMA SelectedFirst ==
  ASSUME NEW E, NEW s \in Seq(E), NEW S, NEW m \in 0..Len(s),
         \A k \in 1..Len(s) : s[k] \in S <=> k <= m
  PROVE  Selected(s, S) = SubSeq(s, 1, m)
<1>0. PICK g : IsSelection(g, E, s, S)
  BY SelectedSteps
<1>1. /\ g \in [0..Len(s) -> Seq(E)]
      /\ g[0] = <<>>
      /\ \A k \in 1..Len(s) : g[k] = IF s[k] \in S THEN Append(g[k - 1], s[k]) ELSE g[k - 1]
      /\ Selected(s, S) = g[Len(s)]
  BY <1>0 DEF IsSelection
<1>2. Len(s) \in Nat /\ m \in Nat /\ m <= Len(s)
  OBVIOUS
<1>. DEFINE P == {k \in Nat : g[k] = SubSeq(s, 1, IF k <= m THEN k ELSE m)}
<1>3. 0 \in P
  BY <1>1, <1>2
<1>4. ASSUME NEW k \in 1..Len(s), k - 1 \in P PROVE k \in P
  <2>1. k \in Nat /\ g[k - 1] = SubSeq(s, 1, IF k - 1 <= m THEN k - 1 ELSE m)
    BY <1>4
  <2>2. CASE k <= m
    <3>0. k - 1 <= m
      BY <1>2, <2>1, <2>2
    <3>0a. s[k] \in S
      BY <2>2
    <3>0b. g[k] = Append(g[k - 1], s[k])
      BY <1>1, <3>0a
    <3>1. g[k] = Append(SubSeq(s, 1, k - 1), s[k])
      BY <2>1, <3>0, <3>0b
    <3>2. Append(SubSeq(s, 1, k - 1), s[k]) = SubSeq(s, 1, k)
      BY <1>2, <2>1
    <3>. QED
      BY <2>1, <2>2, <3>1, <3>2
  <2>3. CASE ~(k <= m)
    <3>1. g[k] = g[k - 1]
      BY <1>1, <2>3
    <3>2. SubSeq(s, 1, IF k - 1 <= m THEN k - 1 ELSE m) = SubSeq(s, 1, m)
      BY <1>2, <2>1, <2>3
    <3>. QED
      BY <2>1, <2>3, <3>1, <3>2
  <2>. QED
    BY <2>2, <2>3
<1>. HIDE DEF P
<1>5. \A k \in 0..Len(s) : k \in P
  BY <1>2, <1>3, <1>4, UpToInduction
<1>6. Len(s) \in P
  BY <1>2, <1>5
<1>7. SubSeq(s, 1, IF Len(s) <= m THEN Len(s) ELSE m) = SubSeq(s, 1, m)
  BY <1>2
<1>. QED
  BY <1>1, <1>6, <1>7 DEF P

\* A list and the empty one are among its sublists, and all are of its strings.
LEMMA SublistsAre ==
  ASSUME NEW E, NEW s \in Seq(E)
  PROVE  s \in Sublists(s) /\ <<>> \in Sublists(s) /\ Sublists(s) \subseteq Seq(E)
<1>1. Len(s) \in Nat /\ 0 \in 0..Len(s) /\ Len(s) \in 0..Len(s) /\ DOMAIN s = 1..Len(s)
  OBVIOUS
<1>2. Selected(s, Range(s)) = s
  <2>1. \A k \in 1..Len(s) : s[k] \in Range(s) <=> k <= Len(s)
    BY <1>1 DEF Range
  <2>2. Selected(s, Range(s)) = SubSeq(s, 1, Len(s))
    BY <1>1, <2>1, SelectedFirst
  <2>3. SubSeq(s, 1, Len(s)) = s
    OBVIOUS
  <2>. QED
    BY <2>2, <2>3
<1>3. Selected(s, {}) = <<>>
  <2>1. \A k \in 1..Len(s) : s[k] \in {} <=> k <= 0
    OBVIOUS
  <2>2. Selected(s, {}) = SubSeq(s, 1, 0)
    BY <1>1, <2>1, SelectedFirst
  <2>3. SubSeq(s, 1, 0) = <<>>
    OBVIOUS
  <2>. QED
    BY <2>2, <2>3
<1>4. ASSUME NEW S \in SUBSET Range(s) PROVE Selected(s, S) \in Seq(E)
  <2>1. Selected(s, S) \in Seq(E \cap S)
    BY SelectedType
  <2>. QED
    BY <2>1
<1>. QED
  BY <1>2, <1>3, <1>4 DEF Sublists

\* The strings of an array before its first empty row go behind those of an
\* array without empty rows.
LEMMA AppendedType ==
  ASSUME NEW src \in Unused, NEW dst \in Unused, ~HasNull(dst), NEW m \in 0..Len(src.rows),
         \A k \in 1..Len(src.rows) : src.rows[k] # NULL <=> k <= m
  PROVE  /\ Appended(src, dst) \in Unused
         /\ Appended(src, dst).rows = dst.rows \o SubSeq(src.rows, 1, m)
<1>. DEFINE n == Len(src.rows)
            d == Len(dst.rows)
            head == Resized(dst, UpToNull(dst))
            all == [k \in DOMAIN src.rows |-> <<src.rows[k], src.lens[k]>>]
            S == {p \in Range(all) : p[1] # NULL}
            pairs == Selected(all, S)
            rows == [k \in DOMAIN pairs |-> pairs[k][1]]
            lens == [k \in DOMAIN pairs |-> pairs[k][2]]
<1>1. /\ src.rows \in Seq(RowVal) /\ src.lens \in Seq(Nat) /\ n \in Nat /\ src.used = 0
      /\ DOMAIN src.rows = 1..n /\ DOMAIN src.lens = 1..n
  BY UnusedArrays, ArraysAre
<1>2. /\ dst \in Arrays /\ dst.rows \in Seq(RowVal) /\ d \in Nat /\ dst.used = 0
  BY UnusedArrays, ArraysAre
<1>3. UpToNull(dst) = d
  BY <1>2, NoNullRows
<1>4. /\ head \in Unused /\ Len(head.rows) = d
      /\ \A k \in 1..d : head.rows[k] = dst.rows[k]
  <2>1. head = Resized(dst, d)
    BY <1>3
  <2>2. /\ Resized(dst, d) \in Unused /\ Len(Resized(dst, d).rows) = d
        /\ \A k \in 1..d : Resized(dst, d).rows[k] = IF k <= d THEN dst.rows[k] ELSE NULL
    <3>. HIDE DEF d, head
    <3>. QED
      BY <1>2, ResizedType DEF d
  <2>3. \A k \in 1..d : k <= d
    BY <1>2
  <2>. HIDE DEF d, head
  <2>. QED
    BY <2>1, <2>2, <2>3
<1>. HIDE DEF head
<1>5. head.rows \in Seq(RowVal) /\ head.lens \in Seq(Nat) /\ Len(head.lens) = d /\ head.used = 0
  BY <1>4, UnusedArrays DEF Arrays
<1>6. head.rows = dst.rows
  BY <1>2, <1>4, <1>5, SeqEqual
<1>7. all \in Seq(RowVal \X Nat) /\ Len(all) = n
  BY <1>1
<1>8. \A k \in 1..n : all[k] \in S <=> k <= m
  <2>1. \A k \in 1..n : all[k][1] = src.rows[k] /\ all[k] \in Range(all)
    BY <1>1 DEF Range
  <2>. HIDE DEF all
  <2>2. \A k \in 1..n : all[k] \in S <=> src.rows[k] # NULL
    BY <2>1
  <2>. QED
    BY <2>2
<1>9. pairs = SubSeq(all, 1, m)
  <2>. HIDE DEF all, S
  <2>. QED
    BY <1>7, <1>8, SelectedFirst
<1>10. /\ DOMAIN pairs = 1..m /\ Len(pairs) = m /\ m \in Nat
       /\ \A k \in 1..m : pairs[k] = all[k] /\ all[k] = <<src.rows[k], src.lens[k]>>
  <2>1. \A k \in 1..m : all[k] = <<src.rows[k], src.lens[k]>>
    BY <1>1
  <2>. HIDE DEF pairs, all
  <2>. QED
    BY <1>1, <1>7, <1>9, <2>1
<1>. HIDE DEF pairs, all, S
<1>11. rows = SubSeq(src.rows, 1, m)
  <2>1. rows \in Seq(RowVal) /\ Len(rows) = m
    BY <1>1, <1>10
  <2>2. SubSeq(src.rows, 1, m) \in Seq(RowVal) /\ Len(SubSeq(src.rows, 1, m)) = m
        /\ \A k \in 1..m : SubSeq(src.rows, 1, m)[k] = src.rows[k]
    BY <1>1, <1>10
  <2>3. \A k \in 1..m : rows[k] = src.rows[k]
    BY <1>10
  <2>. HIDE DEF rows
  <2>. QED
    BY <2>1, <2>2, <2>3, SeqEqual
<1>12. lens \in Seq(Nat) /\ Len(lens) = m
  BY <1>1, <1>10
<1>13. CASE m = 0
  <2>1. pairs = <<>> /\ SubSeq(src.rows, 1, m) = <<>>
    BY <1>1, <1>7, <1>9, <1>13
  <2>2. Appended(src, dst) = head
    BY <2>1 DEF Appended, head, all, pairs, S
  <2>3. dst.rows \o <<>> = dst.rows
    BY <1>2
  <2>. QED
    BY <1>4, <1>6, <2>1, <2>2, <2>3
<1>14. CASE m # 0
  <2>1. pairs # <<>>
    BY <1>10, <1>14
  <2>2. Appended(src, dst) = [rows |-> head.rows \o rows, lens |-> head.lens \o lens, used |-> head.used + src.used]
    BY <2>1 DEF Appended, head, all, pairs, S
  <2>3. rows \in Seq(RowVal) /\ Len(rows) = m
    <3>. HIDE DEF rows
    <3>. QED
      BY <1>1, <1>10, <1>11
  <2>4. head.used + src.used = 0 /\ 0 \in Nat /\ 0 <= d + m
    BY <1>1, <1>2, <1>5, <1>10
  <2>. HIDE DEF rows, lens, d
  <2>5. head.rows \o rows \in Seq(RowVal) /\ Len(head.rows \o rows) = d + m
    <3>1. head.rows \in Seq(RowVal)
      BY <1>5
    <3>2. head.rows \o rows \in Seq(RowVal) /\ Len(head.rows \o rows) = Len(head.rows) + Len(rows)
      BY <2>3, <3>1, ConcatSeq
    <3>. QED
      BY <1>4, <2>3, <3>2
  <2>6. head.lens \o lens \in Seq(Nat) /\ Len(head.lens \o lens) = d + m
    BY <1>5, <1>12, ConcatSeq
  <2>7. Appended(src, dst) \in Unused
    <3>. DEFINE r == head.rows \o rows
                l == head.lens \o lens
    <3>1. Appended(src, dst) = [rows |-> r, lens |-> l, used |-> 0]
      BY <2>2, <2>4
    <3>2. r \in Seq(RowVal) /\ l \in Seq(Nat) /\ Len(r) = Len(l) /\ 0 <= Len(l)
      BY <2>4, <2>5, <2>6
    <3>. HIDE DEF r, l
    <3>. QED
      BY <3>1, <3>2 DEF Unused, Arrays
  <2>8. Appended(src, dst).rows = head.rows \o rows
    BY <2>2
  <2>. QED
    BY <1>6, <1>11, <2>7, <2>8
<1>. QED
  BY <1>13, <1>14

\* Strings added to an empty array one by one are its rows.
LEMMA AddedAllRows ==
  ASSUME NEW s \in Seq(Str)
  PROVE  AddedAll(s) \in Unused /\ AddedAll(s).rows = s
<1>. DEFINE D == 1..Len(s)
            Eq(F) == F = [t \in SUBSET D |->
                            IF t = {} THEN EmptyArr ELSE Added(F[t \ {Max(t)}], s[Max(t)])]
            f == [p \in Unused \X Str |-> Added(p[1], p[2])]
<1>1. EmptyArr \in Unused /\ DOMAIN s = D /\ Len(s) \in Nat
  BY EmptyArrType
<1>2. f \in [Unused \X Str -> Unused]
  BY AddedType
<1>3. PICK H : IsFold(H, Unused, f, EmptyArr, s)
  <2>. HIDE DEF f
  <2>. QED
    BY <1>1, <1>2, FoldExists
<1>4. /\ H \in [SUBSET D -> Unused]
      /\ \A t \in SUBSET D : H[t] = IF t = {} THEN EmptyArr ELSE f[<<H[t \ {Max(t)}], s[Max(t)]>>]
  <2>. HIDE DEF f
  <2>. QED
    BY <1>3 DEF IsFold
<1>5. ASSUME NEW t \in SUBSET D, t # {} PROVE H[t] = Added(H[t \ {Max(t)}], s[Max(t)])
  <2>1. Max(t) \in t
    BY <1>1, <1>5, MaxIn
  <2>2. s[Max(t)] \in Str /\ t \ {Max(t)} \in SUBSET D
    <3>1. Max(t) \in 1..Len(s)
      BY <2>1
    <3>2. \A k \in 1..Len(s) : s[k] \in Str
      BY <1>1
    <3>. QED
      BY <3>1, <3>2
  <2>3. H[t \ {Max(t)}] \in Unused
    BY <1>4, <2>2
  <2>4. H[t] = f[<<H[t \ {Max(t)}], s[Max(t)]>>]
    BY <1>4, <1>5
  <2>. QED
    BY <2>2, <2>3, <2>4
<1>6. Eq(H)
  BY <1>4, <1>5
<1>7. PICK F : F = (CHOOSE G : Eq(G)) /\ AddedAll(s) = F[D]
  BY <1>1 DEF AddedAll, FoldLeft, MapThenFoldSet
<1>8. Eq(F)
  <2>. HIDE DEF Eq
  <2>. QED
    BY <1>6, <1>7
<1>9. F[{}] = EmptyArr /\ 1..0 = {}
  BY <1>8
<1>10. ASSUME NEW k \in 1..Len(s) PROVE F[1..k] = Added(F[1..(k - 1)], s[k])
  <2>1. k \in Nat /\ k # 0 /\ 1..k \in SUBSET D
    BY <1>1
  <2>2. 1..k # {} /\ Max(1..k) = k /\ (1..k) \ {k} = 1..(k - 1)
    BY <2>1, MaxUpTo
  <2>. QED
    BY <1>8, <2>1, <2>2
<1>. HIDE DEF f, Eq, D
<1>. DEFINE P == {k \in Nat : F[1..k] \in Unused /\ F[1..k].rows = SubSeq(s, 1, k)}
<1>11. 0 \in P
  <2>1. SubSeq(s, 1, 0) = <<>>
    OBVIOUS
  <2>. QED
    BY <1>9, <2>1, EmptyArrType
<1>12. ASSUME NEW k \in 1..Len(s), k - 1 \in P PROVE k \in P
  <2>1. k \in Nat /\ s[k] \in Str /\ F[1..(k - 1)] \in Unused /\ F[1..(k - 1)].rows = SubSeq(s, 1, k - 1)
    BY <1>1, <1>12
  <2>2. F[1..k] \in Unused /\ F[1..k].rows = Append(F[1..(k - 1)].rows, s[k])
    <3>1. F[1..k] = Added(F[1..(k - 1)], s[k])
      BY <1>10
    <3>2. PICK a : a = F[1..(k - 1)]
      OBVIOUS
    <3>3. a \in Unused /\ s[k] \in Str
      BY <2>1, <3>2
    <3>4. Added(a, s[k]) \in Unused /\ Added(a, s[k]).rows = Append(a.rows, s[k])
      BY <3>3, AddedType
    <3>. QED
      BY <3>1, <3>2, <3>4
  <2>3. Append(SubSeq(s, 1, k - 1), s[k]) = SubSeq(s, 1, k)
    BY <1>1, <2>1
  <2>. QED
    BY <2>1, <2>2, <2>3
<1>. HIDE DEF P
<1>13. \A k \in 0..Len(s) : k \in P
  BY <1>1, <1>11, <1>12, UpToInduction
<1>14. Len(s) \in P
  BY <1>1, <1>13
<1>15. SubSeq(s, 1, Len(s)) = s
  OBVIOUS
<1>. QED
  BY <1>7, <1>14, <1>15 DEF P, D

\* total[k] is what FlattenSeq makes of the first k sequences.
IsFlatten(total, E, seqs) ==
  /\ total \in [0..Len(seqs) -> Seq(E)]
  /\ total[0] = <<>>
  /\ \A k \in 1..Len(seqs) : total[k] = total[k - 1] \o seqs[k]
  /\ FlattenSeq(seqs) = total[Len(seqs)]

LEMMA FlattenSteps ==
  ASSUME NEW E, NEW seqs \in Seq(Seq(E))
  PROVE  \E total : IsFlatten(total, E, seqs)
<1>. DEFINE n == Len(seqs)
            D == 1..n
            Eq(F) == F = [i \in 1..n |-> IF i = 1 THEN seqs[i] ELSE F[i - 1] \o seqs[i]]
            f == [p \in Seq(E) \X Seq(E) |-> p[1] \o p[2]]
<1>1. n \in Nat /\ <<>> \in Seq(E) /\ f \in [Seq(E) \X Seq(E) -> Seq(E)]
  OBVIOUS
<1>1a. \A k \in 1..n : seqs[k] \in Seq(E)
  <2>. HIDE DEF f, Eq
  <2>1. PICK T : T = Seq(E)
    OBVIOUS
  <2>2. seqs \in Seq(T)
    BY <2>1
  <2>3. \A k \in 1..Len(seqs) : seqs[k] \in T
    BY <2>2
  <2>. QED
    BY <2>1, <2>3
<1>2. PICK H : IsFold(H, Seq(E), f, <<>>, seqs)
  <2>. HIDE DEF f
  <2>. QED
    BY <1>1, FoldExists
<1>3. /\ H \in [SUBSET D -> Seq(E)]
      /\ \A t \in SUBSET D : H[t] = IF t = {} THEN <<>> ELSE f[<<H[t \ {Max(t)}], seqs[Max(t)]>>]
  <2>. HIDE DEF f
  <2>. QED
    BY <1>2 DEF IsFold
<1>4. PICK total : total = [k \in 0..n |-> H[1..k]]
  OBVIOUS
<1>5. total \in [0..n -> Seq(E)]
  <2>1. \A k \in 0..n : 1..k \in SUBSET D
    BY <1>1
  <2>. HIDE DEF n, D
  <2>. QED
    BY <1>3, <1>4, <2>1
<1>6. total[0] = <<>>
  <2>1. 1..0 = {} /\ 0 \in 0..n
    BY <1>1
  <2>. QED
    BY <1>3, <1>4, <2>1
<1>7. ASSUME NEW k \in 1..n PROVE total[k] = total[k - 1] \o seqs[k]
  <2>1. k \in Nat /\ k # 0 /\ 1..k \in SUBSET D /\ k \in 0..n /\ k - 1 \in 0..n
    BY <1>1
  <2>2. 1..k # {} /\ Max(1..k) = k /\ (1..k) \ {k} = 1..(k - 1)
    BY <2>1, MaxUpTo
  <2>3. H[1..k] = f[<<H[1..(k - 1)], seqs[k]>>]
    <3>. HIDE DEF f
    <3>. QED
      BY <1>3, <2>1, <2>2
  <2>4. H[1..(k - 1)] = total[k - 1] /\ total[k - 1] \in Seq(E) /\ seqs[k] \in Seq(E)
    BY <1>1a, <1>4, <1>5, <2>1
  <2>5. total[k] = H[1..k]
    BY <1>4, <2>1
  <2>. QED
    BY <2>3, <2>4, <2>5
<1>8. CASE n = 0
  <2>1. FlattenSeq(seqs) = <<>>
    BY <1>8 DEF FlattenSeq
  <2>. QED
    BY <1>5, <1>6, <1>7, <1>8, <2>1 DEF IsFlatten
<1>9. CASE n # 0
  <2>. DEFINE h == [i \in 1..n |-> total[i]]
  <2>1. ASSUME NEW i \in 1..n PROVE h[i] = IF i = 1 THEN seqs[i] ELSE h[i - 1] \o seqs[i]
    <3>1. seqs[i] \in Seq(E) /\ h[i] = total[i - 1] \o seqs[i]
      BY <1>1a, <1>7
    <3>2. CASE i = 1
      <4>1. total[i - 1] = <<>> /\ <<>> \o seqs[i] = seqs[i]
        BY <1>6, <3>1, <3>2
      <4>. QED
        BY <3>1, <3>2, <4>1
    <3>3. CASE i # 1
      <4>1. i - 1 \in 1..n
        BY <1>1, <3>3
      <4>. QED
        BY <3>1, <3>3, <4>1
    <3>. QED
      BY <3>2, <3>3
  <2>2. Eq(h)
    BY <2>1
  <2>3. PICK F : F = (CHOOSE G : Eq(G)) /\ FlattenSeq(seqs) = F[n]
    BY <1>9 DEF FlattenSeq
  <2>4. Eq(F)
    <3>. HIDE DEF Eq
    <3>. QED
      BY <2>2, <2>3
  <2>. DEFINE P == {k \in Nat : k = 0 \/ F[k] = total[k]}
  <2>5. 0 \in P
    OBVIOUS
  <2>6. ASSUME NEW k \in 1..n, k - 1 \in P PROVE k \in P
    <3>0. total[k] = total[k - 1] \o seqs[k] /\ seqs[k] \in Seq(E)
      BY <1>1a, <1>7
    <3>1. k \in Nat /\ total[k] = total[k - 1] \o seqs[k] /\ seqs[k] \in Seq(E)
      BY <1>1, <3>0
    <3>2. CASE k = 1
      <4>1. F[k] = seqs[k] /\ total[k - 1] = <<>>
        BY <1>6, <2>4, <3>2
      <4>2. <<>> \o seqs[k] = seqs[k]
        BY <3>1
      <4>. QED
        BY <3>1, <4>1, <4>2
    <3>3. CASE k # 1
      <4>1. F[k] = F[k - 1] \o seqs[k]
        BY <2>4, <3>3
      <4>2. F[k - 1] = total[k - 1]
        BY <2>6, <3>1, <3>3
      <4>. QED
        BY <3>1, <4>1, <4>2
    <3>. QED
      BY <3>2, <3>3
  <2>. HIDE DEF P
  <2>7. \A k \in 0..n : k \in P
    <3>. HIDE DEF n
    <3>. QED
      BY <1>1, <2>5, <2>6, UpToInduction
  <2>8. F[n] = total[n]
    <3>1. n \in P
      BY <1>1, <2>7
    <3>. QED
      BY <1>9, <3>1 DEF P
  <2>. QED
    BY <1>5, <1>6, <1>7, <2>3, <2>8 DEF IsFlatten
<1>. QED
  BY <1>8, <1>9

\* b[k] is what the row lengths ask for after k rows.
AreBytes(b, a) ==
  /\ b \in [0..Len(a.lens) -> Nat]
  /\ b[0] = Len(PluginsVar) + 1
  /\ \A k \in 1..Len(a.lens) : b[k] = b[k - 1] + a.lens[k] + 1
  /\ PluginsBytes(a) = b[Len(a.lens)]

LEMMA BytesSteps ==
  ASSUME NEW a \in Arrays
  PROVE  \E b : AreBytes(b, a)
<1>. DEFINE s == a.lens
            D == 1..Len(s)
            first == Len(PluginsVar) + 1
            Eq(F) == F = [t \in SUBSET D |->
                            IF t = {} THEN first ELSE F[t \ {Max(t)}] + s[Max(t)] + 1]
            f == [p \in Nat \X Nat |-> p[1] + p[2] + 1]
<1>1. s \in Seq(Nat) /\ DOMAIN s = D /\ Len(s) \in Nat /\ first \in Nat /\ f \in [Nat \X Nat -> Nat]
  BY ArraysAre DEF PluginsVar
<1>1a. \A k \in 1..Len(s) : s[k] \in Nat
  BY <1>1
<1>2. PICK H : IsFold(H, Nat, f, first, s)
  <2>. HIDE DEF f, s, first
  <2>. QED
    BY <1>1, FoldExists
<1>3. /\ H \in [SUBSET D -> Nat]
      /\ \A t \in SUBSET D : H[t] = IF t = {} THEN first ELSE f[<<H[t \ {Max(t)}], s[Max(t)]>>]
  <2>. HIDE DEF f, s, first
  <2>. QED
    BY <1>2 DEF IsFold
<1>4. ASSUME NEW t \in SUBSET D, t # {} PROVE H[t] = H[t \ {Max(t)}] + s[Max(t)] + 1
  <2>1. Max(t) \in t
    BY <1>1, <1>4, MaxIn
  <2>2. Max(t) \in 1..Len(s) /\ t \ {Max(t)} \in SUBSET D
    BY <2>1
  <2>3. H[t \ {Max(t)}] \in Nat /\ s[Max(t)] \in Nat
    BY <1>1a, <1>3, <2>2
  <2>4. H[t] = f[<<H[t \ {Max(t)}], s[Max(t)]>>]
    BY <1>3, <1>4
  <2>. QED
    BY <2>3, <2>4
<1>5. Eq(H)
  <2>. HIDE DEF first, f, s
  <2>. QED
    BY <1>3, <1>4
<1>6. PICK F : F = (CHOOSE G : Eq(G)) /\ PluginsBytes(a) = F[D]
  BY <1>1 DEF PluginsBytes, FoldLeft, MapThenFoldSet
<1>7. Eq(F)
  <2>. HIDE DEF Eq
  <2>. QED
    BY <1>5, <1>6
<1>8. F[{}] = first /\ 1..0 = {}
  BY <1>7
<1>9. ASSUME NEW k \in 1..Len(s) PROVE F[1..k] = F[1..(k - 1)] + s[k] + 1
  <2>1. k \in Nat /\ k # 0 /\ 1..k \in SUBSET D
    BY <1>1
  <2>2. 1..k # {} /\ Max(1..k) = k /\ (1..k) \ {k} = 1..(k - 1)
    BY <2>1, MaxUpTo
  <2>. QED
    BY <1>7, <2>1, <2>2
<1>. HIDE DEF f, Eq, D, s, first
<1>. DEFINE P == {k \in Nat : F[1..k] \in Nat}
<1>10. 0 \in P
  BY <1>1, <1>8
<1>11. ASSUME NEW k \in 1..Len(s), k - 1 \in P PROVE k \in P
  <2>1. k \in Nat /\ F[1..(k - 1)] \in Nat /\ s[k] \in Nat
    BY <1>1, <1>1a, <1>11
  <2>2. F[1..k] = F[1..(k - 1)] + s[k] + 1
    BY <1>9
  <2>. QED
    BY <2>1, <2>2
<1>. HIDE DEF P
<1>12. \A k \in 0..Len(s) : k \in P
  BY <1>1, <1>10, <1>11, UpToInduction
<1>13. PICK b : b = [k \in 0..Len(s) |-> F[1..k]]
  OBVIOUS
<1>14. b \in [0..Len(s) -> Nat]
  BY <1>12, <1>13 DEF P
<1>15. b[0] = first /\ b[Len(s)] = PluginsBytes(a)
  BY <1>1, <1>6, <1>8, <1>13 DEF D
<1>16. ASSUME NEW k \in 1..Len(s) PROVE b[k] = b[k - 1] + s[k] + 1
  <2>1. k \in 0..Len(s) /\ k - 1 \in 0..Len(s)
    BY <1>1
  <2>. QED
    BY <1>9, <1>13, <2>1
<1>. QED
  BY <1>14, <1>15, <1>16 DEF AreBytes, s, first

\* strlcat copies the whole string where there is room.
LEMMA StrlcatType ==
  ASSUME NEW text \in Str, NEW string \in Str, NEW n \in Nat \ {0}
  PROVE  /\ Strlcat(text, string, n) \in Str
         /\ Len(text) + Len(string) < n => Strlcat(text, string, n) = text \o string
<1>. DEFINE both == text \o string
<1>1. both \in Str /\ Len(both) = Len(text) + Len(string) /\ Len(both) \in Nat
  BY DEF Str
<1>2. Strlcat(text, string, n) = SubSeq(both, 1, IF Len(both) < n THEN Len(both) ELSE n - 1)
  BY DEF Strlcat
<1>. HIDE DEF both
<1>3. CASE Len(both) < n
  <2>1. SubSeq(both, 1, Len(both)) = both
    BY <1>1 DEF Str
  <2>. QED
    BY <1>1, <1>2, <1>3, <2>1 DEF both
<1>4. CASE ~(Len(both) < n)
  <2>1. n - 1 \in Nat /\ n - 1 <= Len(both)
    BY <1>1, <1>4
  <2>2. SubSeq(both, 1, n - 1) \in Str
    BY <1>1, <2>1 DEF Str
  <2>. QED
    BY <1>1, <1>2, <1>4, <2>2
<1>. QED
  BY <1>3, <1>4

\* x[k] is KERNEL_INSTALL_PLUGINS with the first k rows.
AreTexts(x, a) ==
  /\ x \in [0..Len(a.rows) -> Str]
  /\ x[0] = PluginsVar
  /\ \A k \in 1..Len(a.rows) :
       x[k] = Strlcat(Strlcat(x[k - 1], a.rows[k], PluginsBytes(a)), <<" ">>, PluginsBytes(a))
  /\ PluginsText(a) = x[Len(a.rows)]

LEMMA TextSteps ==
  ASSUME NEW a \in Arrays, a.rows \in Seq(Str), PluginsBytes(a) \in Nat \ {0}
  PROVE  \E x : AreTexts(x, a)
<1>. DEFINE s == a.rows
            D == 1..Len(s)
            room == PluginsBytes(a)
            Fit(text, r) == Strlcat(Strlcat(text, r, room), <<" ">>, room)
            Eq(F) == F = [t \in SUBSET D |->
                            IF t = {} THEN PluginsVar
                            ELSE IF s[Max(t)] = NULL THEN F[t \ {Max(t)}]
                            ELSE Fit(F[t \ {Max(t)}], s[Max(t)])]
            f == [p \in Str \X Str |-> Fit(p[1], p[2])]
<1>0. DOMAIN s = 1..Len(s) /\ Len(s) \in Nat
  BY ArraysAre
<1>1. DOMAIN s = D /\ PluginsVar \in Str
  BY <1>0, WordsType
<1>1a. \A k \in 1..Len(s) : s[k] \in Str /\ s[k] # NULL
  <2>1. \A k \in 1..Len(s) : s[k] \in Str
    <3>. HIDE DEF Eq, f, Fit
    <3>. QED
      BY <1>0
  <2>. QED
    BY <2>1, StrRow
<1>2. ASSUME NEW text \in Str, NEW r \in Str PROVE Fit(text, r) \in Str
  <2>1. room \in Nat \ {0}
    OBVIOUS
  <2>. HIDE DEF room
  <2>2. Strlcat(text, r, room) \in Str
    BY <2>1, StrlcatType
  <2>. QED
    BY <2>1, <2>2, StrlcatType, WordsType
<1>3. f \in [Str \X Str -> Str]
  <2>. HIDE DEF Fit
  <2>. QED
    BY <1>2
<1>4. PICK H : IsFold(H, Str, f, PluginsVar, s)
  <2>. HIDE DEF f
  <2>. QED
    BY <1>0, <1>1, <1>3, FoldExists
<1>5. /\ H \in [SUBSET D -> Str]
      /\ \A t \in SUBSET D : H[t] = IF t = {} THEN PluginsVar ELSE f[<<H[t \ {Max(t)}], s[Max(t)]>>]
  <2>. HIDE DEF f
  <2>. QED
    BY <1>4 DEF IsFold
<1>6. ASSUME NEW t \in SUBSET D, t # {}
      PROVE  H[t] = IF s[Max(t)] = NULL THEN H[t \ {Max(t)}] ELSE Fit(H[t \ {Max(t)}], s[Max(t)])
  <2>1. Max(t) \in t
    BY <1>0, <1>1, <1>6, MaxIn
  <2>2. Max(t) \in 1..Len(s) /\ t \ {Max(t)} \in SUBSET D
    BY <2>1
  <2>3. H[t \ {Max(t)}] \in Str /\ s[Max(t)] \in Str /\ s[Max(t)] # NULL
    BY <1>1a, <1>5, <2>2
  <2>4. H[t] = f[<<H[t \ {Max(t)}], s[Max(t)]>>]
    BY <1>5, <1>6
  <2>. HIDE DEF Fit
  <2>. QED
    BY <2>3, <2>4
<1>7. Eq(H)
  <2>. HIDE DEF Fit, f, s
  <2>. QED
    BY <1>5, <1>6
<1>8. PICK F : F = (CHOOSE G : Eq(G)) /\ PluginsText(a) = F[D]
  BY <1>1 DEF PluginsText, FoldLeft, MapThenFoldSet
<1>9. Eq(F)
  <2>. HIDE DEF Eq
  <2>. QED
    BY <1>7, <1>8
<1>10. F[{}] = PluginsVar /\ 1..0 = {}
  <2>. HIDE DEF Fit, s
  <2>. QED
    BY <1>9
<1>11. ASSUME NEW k \in 1..Len(s) PROVE F[1..k] = Fit(F[1..(k - 1)], s[k])
  <2>1. k \in Nat /\ k # 0 /\ 1..k \in SUBSET D /\ s[k] # NULL
    <3>. HIDE DEF s
    <3>. QED
      BY <1>0, <1>1a
  <2>2. 1..k # {} /\ Max(1..k) = k /\ (1..k) \ {k} = 1..(k - 1)
    BY <2>1, MaxUpTo
  <2>. HIDE DEF Fit
  <2>. QED
    BY <1>9, <2>1, <2>2
<1>. HIDE DEF f, Eq, D, s, Fit
<1>. DEFINE P == {k \in Nat : F[1..k] \in Str}
<1>12. 0 \in P
  BY <1>0, <1>1, <1>10
<1>13. ASSUME NEW k \in 1..Len(s), k - 1 \in P PROVE k \in P
  <2>1. k \in Nat /\ F[1..(k - 1)] \in Str /\ s[k] \in Str
    <3>1. k \in Nat /\ k - 1 \in P
      BY <1>0, <1>13
    <3>. QED
      BY <1>1a, <3>1 DEF P
  <2>2. F[1..k] = Fit(F[1..(k - 1)], s[k])
    BY <1>11
  <2>. QED
    BY <1>2, <2>1, <2>2
<1>. HIDE DEF P
<1>14. \A k \in 0..Len(s) : k \in P
  BY <1>0, <1>1, <1>12, <1>13, UpToInduction
<1>15. PICK x : x = [k \in 0..Len(s) |-> F[1..k]]
  OBVIOUS
<1>16. x \in [0..Len(s) -> Str]
  BY <1>14, <1>15 DEF P
<1>17. x[0] = PluginsVar /\ x[Len(s)] = PluginsText(a)
  <2>1. 0 \in 0..Len(s) /\ Len(s) \in 0..Len(s)
    BY <1>0
  <2>. QED
    BY <1>8, <1>10, <1>15, <2>1 DEF D
<1>18. ASSUME NEW k \in 1..Len(s) PROVE x[k] = Fit(x[k - 1], s[k])
  <2>1. k \in 0..Len(s) /\ k - 1 \in 0..Len(s)
    BY <1>0
  <2>. QED
    BY <1>11, <1>15, <2>1
<1>. QED
  BY <1>16, <1>17, <1>18 DEF AreTexts, s, Fit

Grows(room, before, after, text, row, sum) ==
  /\ Strlcat(Strlcat(text, row, room), <<" ">>, room) = PluginsVar \o (sum \o (row \o <<" ">>))
  /\ Len(PluginsVar \o (sum \o (row \o <<" ">>))) + 1 = after

\* A row and a blank go behind a text for which there is room.
LEMMA TextGrows ==
  ASSUME NEW room \in Nat \ {0}, NEW before \in Nat, NEW after \in Nat,
         NEW text \in Str, NEW row \in Str, NEW sum \in Str,
         text = PluginsVar \o sum, Len(text) + 1 = before,
         after = before + Len(row) + 1, after <= room
  PROVE  Grows(room, before, after, text, row, sum)
<1>1. PICK w : w = <<" ">>
  OBVIOUS
<1>2. w \in Str /\ Len(w) = 1 /\ PluginsVar \in Str
  BY <1>1, WordsType
<1>3. /\ text \o row \in Str /\ Len(text \o row) = Len(text) + Len(row)
      /\ Len(text) \in Nat /\ Len(row) \in Nat
  BY StrConcat
<1>4. /\ Len(text) + Len(row) < room /\ Len(text) + Len(row) + 1 < room
      /\ Len(text) + Len(row) + 1 + 1 = after
  <2>. DEFINE t == Len(text)
              q == Len(row)
  <2>1. room \in Nat /\ t \in Nat /\ q \in Nat /\ t + 1 = before /\ after = before + q + 1
    BY <1>3
  <2>. HIDE DEF t, q
  <2>2. t + q < room /\ t + q + 1 < room /\ t + q + 1 + 1 = after
    BY <2>1
  <2>. QED
    BY <2>2 DEF t, q
<1>5. Strlcat(text, row, room) = text \o row
  BY <1>4, StrlcatType
<1>6. Len(text \o row) + Len(w) < room
  BY <1>2, <1>3, <1>4
<1>7. Strlcat(text \o row, w, room) = (text \o row) \o w
  BY <1>2, <1>3, <1>6, StrlcatType
<1>8. ((PluginsVar \o sum) \o row) \o w = PluginsVar \o (sum \o (row \o w))
  <2>1. Cat(Cat(Cat(PluginsVar, sum), row), w) = Cat(PluginsVar, Cat(sum, Cat(row, w)))
    BY <1>2, ConcatThree
  <2>. QED
    BY <2>1 DEF Cat
<1>9. Len((text \o row) \o w) = Len(text) + Len(row) + 1
  <2>1. PICK v : v = text \o row
    OBVIOUS
  <2>2. v \in Str /\ Len(v) = Len(text) + Len(row)
    BY <1>3, <2>1
  <2>3. Len(v \o w) = Len(v) + Len(w)
    BY <1>2, <2>2, StrConcat
  <2>. QED
    BY <1>2, <2>1, <2>2, <2>3
<1>. QED
  BY <1>1, <1>4, <1>5, <1>7, <1>8, <1>9 DEF Grows

LEMMA BytesPositive ==
  ASSUME NEW a \in Arrays
  PROVE  PluginsBytes(a) \in Nat \ {0}
<1>1. PICK b : AreBytes(b, a)
  BY BytesSteps
<1>. DEFINE n == Len(a.lens)
<1>2. /\ b \in [0..n -> Nat] /\ b[0] = Len(PluginsVar) + 1 /\ PluginsBytes(a) = b[n]
      /\ \A k \in 1..n : b[k] = b[k - 1] + a.lens[k] + 1
  BY <1>1 DEF AreBytes
<1>3. n \in Nat /\ Len(PluginsVar) = 1 /\ \A k \in 1..n : a.lens[k] \in Nat
  <2>1. a.lens \in Seq(Nat)
    BY ArraysAre
  <2>2. n \in Nat /\ \A k \in 1..n : a.lens[k] \in Nat
    BY <2>1
  <2>. QED
    BY <2>2, WordsType
<1>. HIDE DEF n
<1>4. \A k \in 0..n : b[k] \in Nat
  BY <1>2
<1>5. CASE n = 0
  BY <1>2, <1>3, <1>5
<1>6. CASE n # 0
  <2>1. n \in 1..n /\ n - 1 \in 0..n
    BY <1>3, <1>6
  <2>2. b[n] = b[n - 1] + a.lens[n] + 1 /\ b[n - 1] \in Nat /\ a.lens[n] \in Nat
    BY <1>2, <1>3, <1>4, <2>1
  <2>. QED
    BY <1>2, <2>2
<1>. QED
  BY <1>5, <1>6

LEMMA PluginsTextType ==
  ASSUME NEW a \in Arrays, a.rows \in Seq(Str)
  PROVE  PluginsText(a) \in Str
<1>1. PICK x : AreTexts(x, a)
  BY BytesPositive, TextSteps
<1>2. x \in [0..Len(a.rows) -> Str] /\ PluginsText(a) = x[Len(a.rows)] /\ Len(a.rows) \in Nat
  BY <1>1, ArraysAre DEF AreTexts
<1>. QED
  BY <1>2

\* Where the lengths are those of the rows nothing is cut.
LEMMA PluginsTextIs ==
  ASSUME NEW a \in Arrays, a.rows \in Seq(Str), \A k \in 1..Len(a.rows) : a.lens[k] = Len(a.rows[k])
  PROVE  PluginsText(a) = PluginsVar \o FlattenSeq([k \in DOMAIN a.rows |-> a.rows[k] \o <<" ">>])
<1>. DEFINE n == Len(a.rows)
            words == [k \in DOMAIN a.rows |-> a.rows[k] \o <<" ">>]
            room == PluginsBytes(a)
<1>1. n \in Nat /\ Len(a.lens) = n /\ DOMAIN a.rows = 1..n
  BY ArraysAre DEF Arrays
<1>2. PICK b : AreBytes(b, a)
  BY BytesSteps
<1>3. /\ b \in [0..n -> Nat] /\ b[0] = Len(PluginsVar) + 1 /\ room = b[n]
      /\ \A k \in 1..n : b[k] = b[k - 1] + Len(a.rows[k]) + 1
  BY <1>1, <1>2 DEF AreBytes
<1>4. Len(PluginsVar) = 1 /\ PluginsVar \in Str /\ <<" ">> \in Str /\ Len(<<" ">>) = 1
  BY WordsType
<1>5. \A k \in 1..n : a.rows[k] \in Str /\ Len(a.rows[k]) \in Nat
  BY <1>1, StrRow
<1>6. \A k \in 0..n : b[k] \in Nat
  BY <1>3
<1>. HIDE DEF n, room
<1>7. \A k \in 0..n : b[k] <= room
  <2>. DEFINE P == {j \in Nat : \A k \in 0..j : b[k] <= b[j]}
  <2>1. 0 \in P
    <3>1. 0 \in 0..n
      BY <1>1
    <3>. QED
      BY <1>6, <3>1
  <2>2. ASSUME NEW j \in 1..n, j - 1 \in P PROVE j \in P
    <3>1. j \in Nat /\ j \in 0..n /\ j - 1 \in 0..n
      BY <1>1
    <3>2. b[j] \in Nat /\ b[j - 1] \in Nat /\ b[j - 1] <= b[j]
      BY <1>3, <1>5, <1>6, <3>1
    <3>3. ASSUME NEW k \in 0..j PROVE b[k] <= b[j]
      <4>1. CASE k = j
        BY <3>2, <4>1
      <4>2. CASE k # j
        <5>1. k \in 0..(j - 1) /\ k \in 0..n
          BY <1>1, <3>1, <4>2
        <5>2. b[k] <= b[j - 1] /\ b[k] \in Nat
          BY <1>6, <2>2, <5>1
        <5>. QED
          BY <3>2, <5>2
      <4>. QED
        BY <4>1, <4>2
    <3>. QED
      BY <3>1, <3>3
  <2>. HIDE DEF P
  <2>3. \A j \in 0..n : j \in P
    BY <1>1, <2>1, <2>2, UpToInduction
  <2>4. n \in P
    BY <1>1, <2>3
  <2>. QED
    BY <1>3, <2>4 DEF P
<1>8. room \in Nat \ {0}
  BY BytesPositive DEF room
<1>9. PICK x : AreTexts(x, a)
  BY <1>8, TextSteps DEF room
<1>10. /\ x \in [0..n -> Str] /\ x[0] = PluginsVar /\ PluginsText(a) = x[n]
       /\ \A k \in 1..n : x[k] = Strlcat(Strlcat(x[k - 1], a.rows[k], room), <<" ">>, room)
  BY <1>9 DEF AreTexts, n, room
<1>11. words \in Seq(Seq(Word)) /\ Len(words) = n /\ \A k \in 1..n : words[k] = a.rows[k] \o <<" ">>
  <2>1. \A k \in 1..n : a.rows[k] \o <<" ">> \in Str
    BY <1>4, <1>5, StrConcat
  <2>2. words \in [1..n -> Str]
    BY <1>1, <2>1
  <2>3. words \in Seq(Str) /\ Len(words) = n
    <3>. HIDE DEF words
    <3>. QED
      BY <1>1, <2>2, FunSeq
  <2>. QED
    BY <1>1, <2>3 DEF Str
<1>. HIDE DEF words
<1>12. PICK total : IsFlatten(total, Word, words)
  BY <1>11, FlattenSteps
<1>13. /\ total \in [0..n -> Str] /\ total[0] = <<>> /\ FlattenSeq(words) = total[n]
       /\ \A k \in 1..n : total[k] = total[k - 1] \o (a.rows[k] \o <<" ">>)
  BY <1>11, <1>12 DEF IsFlatten, Str
<1>. DEFINE P == {k \in Nat : x[k] = PluginsVar \o total[k] /\ Len(x[k]) + 1 = b[k]}
<1>14. 0 \in P
  <2>1. PluginsVar \o <<>> = PluginsVar
    BY <1>4, StrConcat
  <2>. QED
    BY <1>3, <1>4, <1>10, <1>13, <2>1
<1>15. ASSUME NEW k \in 1..n, k - 1 \in P PROVE k \in P
  <2>1. /\ k \in Nat /\ k \in 0..n /\ k - 1 \in 0..n
        /\ x[k - 1] = PluginsVar \o total[k - 1] /\ Len(x[k - 1]) + 1 = b[k - 1]
    BY <1>1, <1>15
  <2>2. /\ x[k - 1] \in Str /\ total[k - 1] \in Str /\ a.rows[k] \in Str
        /\ Len(x[k - 1]) \in Nat /\ Len(a.rows[k]) \in Nat
    BY <1>5, <1>10, <1>13, <2>1, StrRow
  <2>3. b[k] = b[k - 1] + Len(a.rows[k]) + 1 /\ b[k] <= room /\ b[k] \in Nat /\ b[k - 1] \in Nat
    BY <1>3, <1>6, <1>7, <2>1
  <2>4. x[k] = Strlcat(Strlcat(x[k - 1], a.rows[k], room), <<" ">>, room)
    BY <1>10
  <2>5. PICK text, row, sum, before, after :
          /\ text = x[k - 1] /\ row = a.rows[k] /\ sum = total[k - 1]
          /\ before = b[k - 1] /\ after = b[k]
    OBVIOUS
  <2>6. /\ text \in Str /\ row \in Str /\ sum \in Str /\ before \in Nat /\ after \in Nat
        /\ text = PluginsVar \o sum /\ Len(text) + 1 = before
        /\ after = before + Len(row) + 1 /\ after <= room
    BY <2>1, <2>2, <2>3, <2>5
  <2>7. /\ Strlcat(Strlcat(text, row, room), <<" ">>, room) = PluginsVar \o (sum \o (row \o <<" ">>))
        /\ Len(PluginsVar \o (sum \o (row \o <<" ">>))) + 1 = after
    <3>. HIDE DEF P
    <3>1. Grows(room, before, after, text, row, sum)
      BY <1>8, <2>6, TextGrows
    <3>. QED
      BY <3>1 DEF Grows
  <2>8. total[k] = total[k - 1] \o (a.rows[k] \o <<" ">>)
    BY <1>13
  <2>9. x[k] = PluginsVar \o total[k] /\ Len(x[k]) + 1 = b[k]
    BY <2>4, <2>5, <2>7, <2>8
  <2>. QED
    BY <2>1, <2>9
<1>. HIDE DEF P
<1>16. \A k \in 0..n : k \in P
  BY <1>1, <1>14, <1>15, UpToInduction
<1>17. n \in P
  BY <1>1, <1>16
<1>. QED
  BY <1>10, <1>13, <1>17 DEF P, words

-----------------------------------------------------------------------------
(* The inductive invariant.                                                *)

LoadPlaces == {"start", "config", "active", "plugins", "base", "install"}
ToolPlaces == {"packages", "lines", "split", "run"}
MountPlaces == {"mounts", "disk", "walk", "bootctl", "mark"}
Places == {"look", "copy", "fill", "load", "done"}

\* The variables other programs share, and where Self may be.
SharedInv ==
  /\ machine \in Machines
  /\ file \in FileKinds /\ edits \in Nat /\ faults \in 0..MaxFaults
  /\ look \in [Starts -> Places] /\ live \subseteq Starts
  /\ loaded \in BOOLEAN
  /\ pc \in LoadPlaces \cup ToolPlaces \cup MountPlaces \cup {"done"}
  /\ pc = "start" => look[Self] = "look"
  /\ pc \notin {"start", "config"} => look[Self] = "done"
  /\ pc \in ToolPlaces => prog = "tool"
  /\ pc \in MountPlaces => prog # "tool"
  /\ pc \in LoadPlaces => ~loaded

ConfType ==
  [root : BOOLEAN, seen : FileKinds, verb : {0, 1, 3}, skips : Unused, all : Unused,
   active : Unused, plugins : Unused, base : Unused]

\* The plugins found, those not skipped, and the text that names them.
Found == conf.all.rows
Wanted == Unskipped(Found, conf.skips.rows)
ListText == PluginsVar \o FlattenSeq([k \in DOMAIN Wanted |-> Wanted[k] \o <<" ">>])

\* The lengths are those of the rows.
Measured(a) == \A k \in 1..Len(a.rows) : a.lens[k] = Len(a.rows[k])
FullBase == Refreshed(NullTerminated(OnlyPath))

\* What glob may give of both directories.
MayFind == {usr \o etc : usr \in Sublists(machine.usr), etc \in Sublists(machine.etc)}

\* get_all_plugins has found all there are, or something has failed.
FoundInv ==
  /\ Found \in MayFind
  /\ faults = 0 /\ pc # "start" => conf.root
  /\ faults = 0 /\ pc \notin {"start", "config"} => Found = machine.usr \o machine.etc

\* SdBoot as far as load_config has come.
ConfInv ==
  /\ conf \in ConfType
  /\ FoundInv
  /\ IsPrefix(conf.skips.rows, Skips(conf.seen))
  /\ faults = 0 => conf.skips.rows = Skips(conf.seen)
  /\ pc = "active" => Measured(conf.all)
  /\ pc \in {"start", "config", "active"} => conf.active = EmptyArr
  /\ pc = "plugins" => conf.active.rows = Wanted /\ Measured(conf.active)
  /\ pc \in {"start", "config", "active", "plugins"} => conf.plugins = EmptyArr
  /\ conf.plugins # EmptyArr => conf.plugins.rows = <<ListText>>
  /\ pc \in {"base", "install"} \/ loaded \/ conf.base # EmptyArr => conf.plugins # EmptyArr
  /\ conf.base \in {EmptyArr, OnlyPath, FullBase}
  /\ pc \in LoadPlaces \ {"install"} => conf.base = EmptyArr
  /\ pc = "install" \/ loaded => conf.base = FullBase

\* The triggers: what is read are the first of the lines, what is not the rest.
TrigInv ==
  /\ trig \in Arrays /\ stdin \in Seq(Str)
  /\ trigs \in [pkgs : Unused, paths : Unused]
  /\ pc \in LoadPlaces \cup {"packages"} => stdin = machine.lines
  /\ pc = "lines" =>
       /\ trig.used <= Len(machine.lines)
       /\ stdin = SubSeq(machine.lines, trig.used + 1, Len(machine.lines))
       /\ \A k \in 1..trig.used : trig.rows[k] = machine.lines[k]
  /\ pc = "split" => stdin = <<>> /\ trig.rows = machine.lines
  /\ pc \in LoadPlaces \cup {"packages", "lines", "split"} => trigs = NoTrigs
  /\ TriggersRight

\* The child is given its arrays once.
ChildInv ==
  /\ child \in [env : Unused, argv : Unused]
  /\ pc \notin {"done", "bootctl", "mark"} => child = NoChild
  /\ ChildGets

BootRow == [part : Parts, target : Targets, active : BOOLEAN, current : BOOLEAN]

OfType(type) == {m \in Mounts : m.kind = "plain" /\ PartType[m.part] = type}

\* The mounts that rows stand for.
AsMounts(rows) ==
  [k \in DOMAIN rows |-> [part |-> rows[k].part, target |-> rows[k].target, kind |-> "plain"]]

\* A mount of the snapshot, not skipped.
Mounted(part, target) ==
  \E j \in DOMAIN table : table[j].kind = "plain" /\ table[j].part = part /\ table[j].target = target

\* A row that stands for a mount, as it is made and as a failure leaves it.
MadeOf(m, r) ==
  r = Row(m) \/ r = [Row(m) EXCEPT !.target = ""] \/ r = [Row(m) EXCEPT !.active = FALSE]

RowOf(m, r) ==
  /\ r \in BootRow /\ r.part = m.part /\ ~r.current /\ r.target \in {m.target, ""}
  /\ r.active => IsActive(r.part)

\* bootctl named an ESP.
EspNamed == said.esp.target # ""

\* Rows of one type of partition: they come from the snapshot, all that the walk
\* has met until something fails.
RowsInv(rows, type) ==
  /\ rows \in Seq(BootRow)
  /\ \A k \in DOMAIN rows :
       /\ PartType[rows[k].part] = type
       /\ rows[k].target # "" => Mounted(rows[k].part, rows[k].target)
       /\ rows[k].active => IsActive(rows[k].part)
       /\ faults = 0 => rows[k].active = IsActive(rows[k].part)
  /\ faults = 0 => AsMounts(rows) = Selected(SubSeq(table, 1, entry - 1), OfType(type))

\* The first row at the mount point bootctl named for the type.
ToMark(rows, type) ==
  {k \in DOMAIN rows :
     /\ said.esp.target # "" /\ said[type].target # "" /\ rows[k].target = said[type].target
     /\ \A j \in 1..(k - 1) : rows[j].target # said[type].target}

MarkInv(rows, type) == MarkedRows(rows) = IF pc = "done" THEN ToMark(rows, type) ELSE {}

\* What bootctl meant was in the snapshot, if no mount changed after it.
SaidInv(type) ==
  changes = 0 /\ said[type].part # NoPart =>
    PartType[said[type].part] = type /\ Mounted(said[type].part, said[type].target)

\* The walk of find-boot-mounts: before it there is nothing, after it the
\* snapshot is passed and the disk of the active ESP is known.
MountInv ==
  /\ mounted \in Seq(Mounts) /\ table \in Seq(Mounts) /\ changes \in 0..MaxChanges
  /\ entry \in 1..(Len(table) + 1)
  /\ said \in [esp : AnswerRow, xbootldr : AnswerRow]
  /\ uuid \in {nvram, NoPart} /\ active \in {ActiveDisk(table), NoDisk}
  /\ pc \in LoadPlaces \cup ToolPlaces \cup {"mounts"} => table = <<>>
  /\ pc \in LoadPlaces \cup ToolPlaces \cup {"mounts", "disk"} =>
       entry = 1 /\ active = NoDisk /\ uuid = NoPart /\ efis = <<>> /\ xbootldrs = <<>>
  /\ pc \notin LoadPlaces \cup ToolPlaces \cup {"mounts", "disk"} /\ faults = 0 /\ prog # "tool" =>
       active = ActiveDisk(table) /\ uuid = nvram
  /\ pc \in {"bootctl", "mark", "done"} /\ faults = 0 => entry = Len(table) + 1
  /\ pc \in {"disk", "walk", "bootctl"} /\ changes = 0 => mounted = table
  /\ pc \notin {"mark", "done"} => said = NoAnswer
  /\ RowsInv(efis, "esp") /\ RowsInv(xbootldrs, "xbootldr")
  /\ MarkInv(efis, "esp") /\ MarkInv(xbootldrs, "xbootldr")
  /\ SaidInv("esp") /\ SaidInv("xbootldr")

Inv == SharedInv /\ ConfInv /\ TrigInv /\ ChildInv /\ MountInv

\* The steps in groups: of read_config_file, of the rest of load_config, of
\* kernel-update-triggers and of find-boot-mounts.
ReadStep ==
  \/ \E p \in Starts : Look(p) \/ OpenCopy(p) \/ Fill(p) \/ Load(p) \/ CopyFails(p)
  \/ LoadCut \/ AdminEdits
LoadStep == LoadConfig \/ ConfigInitFails \/ GlobFails \/ BaseEnvFails \/ LoadFails
ToolStep == ToolRun \/ ReadFails \/ ToolFails
MountStep == FindMounts \/ MountFault \/ MountChanges

MayFail == faults' = faults \/ Fault

LEMMA NextCases ==
  ASSUME [Next]_vars
  PROVE  \/ (ReadStep \/ LoadStep \/ ToolStep) /\ UNCHANGED mvars
         \/ MountStep
         \/ UNCHANGED vars
BY DEF Next, StartNext, StartFault, ReadConfig, Stopped, ReadStep, LoadStep, ToolStep, MountStep

\* What each of the groups leaves alone.
LEMMA ReadFrame ==
  ASSUME ReadStep
  PROVE  UNCHANGED <<machine, pc, loaded, trig, trigs, stdin, child>> /\ MayFail
BY DEF ReadStep, Look, OpenCopy, Fill, Load, CopyFails, LoadCut, AdminEdits, trigVars, MayFail

LEMMA LoadFrame ==
  ASSUME LoadStep
  PROVE  UNCHANGED <<machine, file, look, live, edits, trig, trigs, stdin, child>> /\ MayFail
BY DEF LoadStep, LoadConfig, ConfigInit, AllPlugins, PluginsFound, ActivePlugins, PluginEnv, BaseEnv,
   InstallConf, ConfigInitFails, GlobFails, BaseEnvFails, LoadFails, MemoryOnly, fileVars, trigVars,
   MayFail

LEMMA ToolFrame ==
  ASSUME ToolStep
  PROVE  UNCHANGED <<machine, file, look, live, edits, conf, loaded>> /\ MayFail
BY DEF ToolStep, ToolRun, Packages, ReadLine, ReadEnd, Split, NothingToRun, RunChild, ReadFails,
   ToolFails, ToolOnly, fileVars, MayFail

LEMMA MountFrame ==
  ASSUME MountStep
  PROVE  UNCHANGED <<machine, file, look, live, edits, conf, loaded, trig, trigs, stdin>> /\ MayFail
<1>1. CASE FindMounts \/ MountFault
  BY <1>1 DEF FindMounts, MountFault, Snapshot, FindDisk, ProcessOne, WalkEnd, Bootctl, MarkCurrent,
     SnapshotFails, FindDiskFails, UuidFails, ProcessFails, WalkFails, BootctlFails, BootctlCut,
     MountsOnly, fileVars, trigVars, MayFail
<1>2. CASE MountChanges
  BY <1>2 DEF MountChanges, svars, fileVars, trigVars, MayFail
<1>. QED
  BY <1>1, <1>2 DEF MountStep

LEMMA FaultsBounded ==
  ASSUME faults \in 0..MaxFaults, MayFail
  PROVE  faults' \in 0..MaxFaults /\ (faults' = 0 => faults = 0) /\ (Fault => faults' # 0)
BY StartBounds DEF MayFail, Fault

LEMMA MachineIs ==
  ASSUME machine \in Machines
  PROVE  /\ Self \notin machine.others /\ machine.edits \in Nat /\ machine.file \in FileKinds
         /\ machine.usr \in Seq(Str) /\ machine.etc \in Seq(Str) /\ machine.skips \in Seq(Str)
         /\ machine.lines \in Seq(Str)
         /\ machine.table \in Seq(Mounts) /\ machine.nvram \in Parts \cup {NoPart}
BY StartAssumption, MountAssumption

-----------------------------------------------------------------------------
(* Where the programs are.                                                 *)

LEMMA SharedInit ==
  ASSUME Init
  PROVE  SharedInv
<1>1. machine \in Machines /\ machine.file \in FileKinds /\ machine.edits \in Nat
  BY MachineIs DEF Init, StartInit
<1>. QED
  <2>1. /\ file = machine.file /\ edits = machine.edits /\ faults = 0 /\ live = {}
        /\ look = [p \in Starts |-> "look"] /\ Self \in Starts /\ pc = "start" /\ loaded = FALSE
    BY DEF Init, StartInit, Starts
  <2>2. 0 \in 0..MaxFaults
    BY StartBounds
  <2>3. look \in [Starts -> Places] /\ look[Self] = "look"
    BY <2>1 DEF Places
  <2>. QED
    BY <1>1, <2>1, <2>2, <2>3 DEF SharedInv, LoadPlaces, ToolPlaces, MountPlaces

LEMMA SharedRead ==
  ASSUME SharedInv, ReadStep
  PROVE  SharedInv'
<1>1. UNCHANGED <<machine, pc, loaded>> /\ MayFail
  BY ReadFrame
<1>2. faults' \in 0..MaxFaults
  BY <1>1, FaultsBounded DEF SharedInv
<1>3. Starts' = Starts /\ prog' = prog /\ Self \in Starts
  BY <1>1 DEF Starts, prog
<1>4. file \in FileKinds /\ edits \in Nat /\ look \in [Starts -> Places] /\ live \subseteq Starts
  BY DEF SharedInv
<1>. DEFINE Right == /\ look' \in [Starts -> Places]
                     /\ pc = "start" => look'[Self] = "look"
                     /\ pc \notin {"start", "config"} => look'[Self] = "done"
<1>5. ASSUME file' \in FileKinds, edits' \in Nat, live' \subseteq Starts, Right
      PROVE  SharedInv'
  BY <1>1, <1>2, <1>3, <1>5 DEF SharedInv
<1>6. ASSUME NEW p \in Starts, NEW to \in Places, look' = [look EXCEPT ![p] = to],
             p # Self \/ pc = "config"
      PROVE  Right
  BY <1>3, <1>4, <1>6 DEF SharedInv
<1>. HIDE DEF Right
<1>7. ASSUME NEW p \in Starts,
             Look(p) \/ OpenCopy(p) \/ Fill(p) \/ Load(p) \/ CopyFails(p)
      PROVE  SharedInv'
  <2>0. p = Self /\ pc \notin {"start", "config"} => look[p] = "done"
    BY DEF SharedInv
  <2>0a. p = Self /\ pc = "start" => look[p] = "look"
    BY DEF SharedInv
  <2>1. CASE Look(p)
    <3>1. UNCHANGED <<file, live, edits>> /\ (p # Self \/ pc = "config")
          /\ \E to \in Places : look' = [look EXCEPT ![p] = to]
      BY <2>1 DEF Look, Reading, Places
    <3>2. Right
      BY <1>6, <3>1
    <3>. QED
      BY <1>4, <1>5, <3>1, <3>2
  <2>2. CASE OpenCopy(p)
    <3>1. file' \in {file, "empty"} /\ edits' = edits /\ live' \subseteq live \cup {p}
          /\ look[p] = "copy" /\ \E to \in Places : look' = [look EXCEPT ![p] = to]
      BY <2>2 DEF OpenCopy, Places
    <3>2. p # Self \/ pc = "config"
      BY <2>0, <2>0a, <3>1
    <3>3. Right
      BY <1>6, <3>1, <3>2
    <3>4. file' \in FileKinds /\ edits' \in Nat /\ live' \subseteq Starts
      BY <1>4, <3>1 DEF FileKinds
    <3>. QED
      BY <1>5, <3>3, <3>4
  <2>3. CASE Fill(p)
    <3>1. file' \in {file, "sample"} /\ edits' = edits /\ live' \subseteq live
          /\ look[p] = "fill" /\ look' = [look EXCEPT ![p] = "done"] /\ "done" \in Places
      BY <2>3 DEF Fill, Places
    <3>2. p # Self \/ pc = "config"
      BY <2>0, <2>0a, <3>1
    <3>3. Right
      BY <1>6, <3>1, <3>2
    <3>4. file' \in FileKinds /\ edits' \in Nat /\ live' \subseteq Starts
      BY <1>4, <3>1 DEF FileKinds
    <3>. QED
      BY <1>5, <3>3, <3>4
  <2>4. CASE Load(p)
    <3>1. UNCHANGED <<file, live, edits>> /\ look[p] = "load"
          /\ look' = [look EXCEPT ![p] = "done"] /\ "done" \in Places
      BY <2>4 DEF Load, Places
    <3>2. p # Self \/ pc = "config"
      BY <2>0, <2>0a, <3>1
    <3>3. Right
      BY <1>6, <3>1, <3>2
    <3>4. file' \in FileKinds /\ edits' \in Nat /\ live' \subseteq Starts
      BY <1>4, <3>1 DEF FileKinds
    <3>. QED
      BY <1>5, <3>3, <3>4
  <2>5. CASE CopyFails(p)
    <3>1. UNCHANGED <<file, edits>> /\ live' \subseteq live /\ look[p] \in {"copy", "fill"}
          /\ look' = [look EXCEPT ![p] = "done"] /\ "done" \in Places
      BY <2>5 DEF CopyFails, Places
    <3>2. p # Self \/ pc = "config"
      BY <2>0, <2>0a, <3>1
    <3>3. Right
      BY <1>6, <3>1, <3>2
    <3>4. file' \in FileKinds /\ edits' \in Nat /\ live' \subseteq Starts
      BY <1>4, <3>1 DEF FileKinds
    <3>. QED
      BY <1>5, <3>3, <3>4
  <2>. QED
    BY <1>7, <2>1, <2>2, <2>3, <2>4, <2>5
<1>8. CASE LoadCut
  <2>1. UNCHANGED <<file, live, edits>> /\ look[Self] = "load"
        /\ look' = [look EXCEPT ![Self] = "done"] /\ "done" \in Places
    BY <1>8 DEF LoadCut, Places
  <2>2. pc = "config"
    BY <2>1 DEF SharedInv
  <2>. QED
    BY <1>3, <1>4, <1>5, <1>6, <2>1, <2>2
<1>9. CASE AdminEdits
  <2>1. file' \in FileKinds /\ live' = {} /\ edits' \in Nat /\ look' = look
    BY <1>4, <1>9 DEF AdminEdits, FileKinds
  <2>. QED
    BY <1>1, <1>4, <1>5, <2>1 DEF SharedInv, Right
<1>. QED
  BY <1>7, <1>8, <1>9 DEF ReadStep

\* A step that leaves config.yaml and the starts alone keeps SharedInv if Self
\* is in a place where it may be.
LEMMA SharedMoves ==
  ASSUME SharedInv, UNCHANGED <<machine, file, look, live, edits>>, MayFail,
         loaded' \in BOOLEAN,
         pc' \in LoadPlaces \cup ToolPlaces \cup MountPlaces \cup {"done"},
         pc' # "start" \/ pc = "start",
         pc' \in {"start", "config"} \/ look[Self] = "done",
         pc' \in ToolPlaces => prog = "tool",
         pc' \in MountPlaces => prog # "tool",
         pc' \in LoadPlaces => ~loaded'
  PROVE  SharedInv'
<1>1. faults' \in 0..MaxFaults
  BY FaultsBounded DEF SharedInv
<1>2. Starts' = Starts /\ prog' = prog
  BY DEF Starts, prog
<1>. QED
  BY <1>1, <1>2 DEF SharedInv

LEMMA SharedStep ==
  ASSUME SharedInv, conf.root \in BOOLEAN, [Next]_vars
  PROVE  SharedInv'
<1>1. CASE ReadStep
  BY <1>1, SharedRead
<1>2. CASE LoadStep
  <2>1. UNCHANGED <<machine, file, look, live, edits>> /\ MayFail
    BY <1>2, LoadFrame
  <2>2. /\ loaded' \in BOOLEAN
        /\ pc' \in (LoadPlaces \cup ToolPlaces \cup MountPlaces \cup {"done"}) \ {"start"}
        /\ pc' = "config" \/ look[Self] = "done"
        /\ pc' \in ToolPlaces => prog = "tool"
        /\ pc' \in MountPlaces => prog # "tool"
        /\ pc' \in LoadPlaces => ~loaded'
    <3>1. CASE ConfigInit \/ ConfigInitFails
      BY <3>1 DEF ConfigInit, ConfigInitFails, SharedInv, LoadPlaces, ToolPlaces, MountPlaces
    <3>2. CASE AllPlugins \/ GlobFails \/ ActivePlugins \/ PluginEnv \/ BaseEnv
      <4>1. pc' \in {"active", "plugins", "base", "install"} /\ loaded' = loaded
            /\ pc \in {"config", "active", "plugins", "base"} /\ (pc = "config" => look[Self] = "done")
        BY <3>2 DEF AllPlugins, GlobFails, PluginsFound, ActivePlugins, PluginEnv, BaseEnv
      <4>. QED
        BY <4>1 DEF SharedInv, LoadPlaces, ToolPlaces, MountPlaces
    <3>3. CASE InstallConf \/ BaseEnvFails \/ LoadFails
      <4>1. LoadOver(conf.root) \/ LoadOver(FALSE)
        BY <3>3 DEF InstallConf, BaseEnvFails, LoadFails
      <4>2. /\ pc \in {"config", "active", "plugins", "base", "install"}
            /\ pc = "config" => look[Self] = "done"
        BY <3>3 DEF InstallConf, BaseEnvFails, LoadFails
      <4>3. loaded' \in BOOLEAN /\ pc' = IF prog = "tool" THEN "packages" ELSE "mounts"
        BY <4>1 DEF LoadOver
      <4>. QED
        BY <4>2, <4>3 DEF SharedInv, LoadPlaces, ToolPlaces, MountPlaces
    <3>. QED
      BY <1>2, <3>1, <3>2, <3>3 DEF LoadStep, LoadConfig
  <2>. QED
    BY <2>1, <2>2, SharedMoves
<1>3. CASE ToolStep
  <2>1. UNCHANGED <<machine, file, look, live, edits, loaded>> /\ MayFail
    BY <1>3, ToolFrame
  <2>2. pc' \in {"lines", "split", "run", "done"} /\ pc \in ToolPlaces
    BY <1>3 DEF ToolStep, ToolRun, Packages, ReadLine, ReadEnd, Split, NothingToRun, RunChild, ReadFails,
       ToolFails, Exit, ToolPlaces
  <2>3. look[Self] = "done" /\ prog = "tool" /\ loaded \in BOOLEAN
    BY <2>2 DEF SharedInv, ToolPlaces
  <2>. QED
    BY <2>1, <2>2, <2>3, SharedMoves DEF LoadPlaces, ToolPlaces, MountPlaces
<1>4. CASE MountStep
  <2>1. UNCHANGED <<machine, file, look, live, edits, loaded>> /\ MayFail
    BY <1>4, MountFrame
  <2>2. pc' \in {"disk", "walk", "bootctl", "mark", "done"} /\ pc \in MountPlaces
    <3>1. CASE FindMounts
      BY <3>1 DEF FindMounts, Snapshot, FindDisk, ProcessOne, WalkEnd, Bootctl, MarkCurrent, MountPlaces
    <3>2. CASE MountFault \/ MountChanges
      BY <3>2 DEF MountFault, MountChanges, SnapshotFails, FindDiskFails, UuidFails, ProcessFails,
         WalkFails, BootctlFails, BootctlCut, MountPlaces, svars
    <3>. QED
      BY <1>4, <3>1, <3>2 DEF MountStep
  <2>3. look[Self] = "done" /\ prog # "tool" /\ loaded \in BOOLEAN
    BY <2>2 DEF SharedInv, MountPlaces
  <2>. QED
    BY <2>1, <2>2, <2>3, SharedMoves DEF LoadPlaces, ToolPlaces, MountPlaces
<1>5. CASE UNCHANGED vars
  BY <1>5 DEF vars, svars, fileVars, SharedInv, Starts, prog
<1>. QED
  BY <1>1, <1>2, <1>3, <1>4, <1>5, NextCases

-----------------------------------------------------------------------------
(* The triggers.                                                           *)

\* Strings stored in an array that is made as large as needed and cut to their
\* number are its rows.
LEMMA CutRows ==
  ASSUME NEW a \in Unused, NEW n \in Nat, NEW strings \in Seq(Str), Len(strings) <= n
  PROVE  /\ Resized(StoredAll(Resized(a, n), strings), Len(strings)) \in Unused
         /\ Resized(StoredAll(Resized(a, n), strings), Len(strings)).rows = strings
<1>. DEFINE most == Resized(a, n)
            full == StoredAll(most, strings)
            m == Len(strings)
            cut == Resized(full, m)
<1>1. a \in Arrays /\ m \in Nat /\ m <= n
  BY UnusedArrays
<1>2. most \in Unused /\ most \in Arrays /\ Len(most.rows) = n
  BY <1>1, ResizedType, UnusedArrays
<1>. HIDE DEF most
<1>3. /\ full \in Unused /\ full \in Arrays /\ Len(full.rows) = n
      /\ \A j \in 1..n : full.rows[j] = IF j <= Len(strings) THEN strings[j] ELSE most.rows[j]
  BY <1>2, StoredAllType, UnusedArrays
<1>. HIDE DEF full
<1>4. /\ cut \in Unused /\ Len(cut.rows) = m
      /\ \A k \in 1..m : cut.rows[k] = IF k <= n THEN full.rows[k] ELSE NULL
  <2>. HIDE DEF m
  <2>. QED
    BY <1>1, <1>3, ResizedType
<1>5. \A k \in 1..m : k \in 1..n /\ k <= n /\ k <= Len(strings)
  BY <1>1
<1>. HIDE DEF cut
<1>6. \A k \in 1..m : cut.rows[k] = strings[k]
  BY <1>3, <1>4, <1>5
<1>7. cut.rows \in Seq(RowVal) /\ strings \in Seq(RowVal)
  <2>1. cut.rows \in Seq(RowVal)
    BY <1>4, UnusedArrays, ArraysAre
  <2>2. \A k \in 1..Len(strings) : strings[k] \in RowVal
    BY StrRow
  <2>. QED
    BY <2>1, <2>2
<1>8. cut.rows = strings
  BY <1>4, <1>6, <1>7, SeqEqual DEF m
<1>. QED
  BY <1>4, <1>8 DEF cut, full, most, m

LEMMA RoomyType ==
  ASSUME trig \in Arrays
  PROVE  /\ Counted.used = trig.used + 1
         /\ Roomy \in Arrays /\ Roomy.used = trig.used + 1 /\ trig.used + 1 \in 1..Len(Roomy.rows)
         /\ \A k \in 1..trig.used : Roomy.rows[k] = trig.rows[k]
<1>. DEFINE u == trig.used + 1
            n == Len(trig.rows)
            big == Resized(trig, n + Chunk)
<1>1. /\ trig.rows \in Seq(RowVal) /\ trig.lens \in Seq(Nat) /\ n \in Nat /\ trig.used \in Nat
      /\ trig.used <= n /\ Len(trig.lens) = n /\ u \in Nat
  BY ArraysAre DEF Arrays
<1>2. Counted = [rows |-> trig.rows, lens |-> trig.lens, used |-> u]
  BY ArrayExcept DEF Counted
<1>3. CASE u <= n
  <2>1. Roomy = Counted
    BY <1>1, <1>2, <1>3 DEF Roomy
  <2>2. Counted \in Arrays
    BY <1>1, <1>2, <1>3 DEF Arrays
  <2>3. u \in 1..n
    BY <1>1, <1>3
  <2>. QED
    BY <1>2, <2>1, <2>2, <2>3
<1>4. CASE ~(u <= n)
  <2>1. trig.used = n /\ n + Chunk \in Nat /\ u <= n + Chunk /\ n <= n + Chunk /\ u \in 1..(n + Chunk)
    BY <1>1, <1>4, StartBounds
  <2>2. Roomy = Resized(Counted, n + Chunk)
    BY <1>1, <1>2, <1>4 DEF Roomy
  <2>3. Resized(Counted, n + Chunk) = [rows |-> big.rows, lens |-> big.lens, used |-> u]
    <3>. DEFINE m == n + Chunk
    <3>1. Counted.rows = trig.rows /\ Counted.lens = trig.lens /\ Counted.used = u
      BY <1>2
    <3>2. ~(u > m)
      BY <1>1, <2>1
    <3>. HIDE DEF m, n, u
    <3>3. Resized(Counted, m).used = u
      BY <3>1, <3>2 DEF Resized
    <3>4. /\ Resized(Counted, m).rows = Resized(trig, m).rows
          /\ Resized(Counted, m).lens = Resized(trig, m).lens
      BY <3>1 DEF Resized
    <3>5. LET c == Resized(Counted, m) IN c = [rows |-> c.rows, lens |-> c.lens, used |-> c.used]
      BY DEF Resized
    <3>. QED
      BY <3>3, <3>4, <3>5 DEF m
  <2>4. /\ big \in Arrays /\ Len(big.rows) = n + Chunk
        /\ \A k \in 1..(n + Chunk) : big.rows[k] = IF k <= n THEN trig.rows[k] ELSE NULL
    <3>. HIDE DEF big, n
    <3>. QED
      BY <2>1, ResizedType DEF big, n
  <2>. HIDE DEF big
  <2>5. big.rows \in Seq(RowVal) /\ big.lens \in Seq(Nat) /\ Len(big.lens) = n + Chunk
    BY <2>4 DEF Arrays
  <2>6. [rows |-> big.rows, lens |-> big.lens, used |-> u] \in Arrays
    BY <1>1, <2>1, <2>4, <2>5 DEF Arrays
  <2>7. \A k \in 1..trig.used : k \in 1..(n + Chunk) /\ k <= n
    BY <1>1, <2>1
  <2>8. \A k \in 1..trig.used : big.rows[k] = trig.rows[k]
    BY <2>4, <2>7
  <2>. QED
    BY <1>2, <2>1, <2>2, <2>3, <2>4, <2>6, <2>8
<1>. QED
  BY <1>3, <1>4

LEMMA SlashedType ==
  ASSUME NEW line \in Str
  PROVE  Slashed(line) \in Str
<1>1. <<"/">> \in Str
  <2>1. PICK w : w = "/"
    OBVIOUS
  <2>2. w \in Word
    BY <2>1, WordAssumption
  <2>3. <<w>> \in Str
    BY <2>2 DEF Str
  <2>. QED
    BY <2>1, <2>3
<1>2. PICK w : w = <<"/">>
  OBVIOUS
<1>3. w \o line \in Str
  BY <1>1, <1>2, StrConcat
<1>. QED
  BY <1>2, <1>3 DEF Slashed

\* get_triggers on the lines that were read.
LEMMA SplitRight ==
  ASSUME machine \in Machines, trig \in Arrays, trig.rows = machine.lines, trigs = NoTrigs,
         stdin = <<>>, Split
  PROVE  trigs' \in [pkgs : Unused, paths : Unused] /\ TriggersRight'
<1>. DEFINE lines == machine.lines
            n == Len(lines)
            Names == {line \in Range(lines) : ~IsPath(line)}
            Paths == {line \in Range(lines) : IsPath(line)}
            names == Selected(lines, Names)
            paths == Selected(lines, Paths)
            slashed == [k \in DOMAIN paths |-> Slashed(paths[k])]
<1>1. lines \in Seq(Str) /\ n \in Nat
  BY MachineIs
<1>2. names \in Seq(Str) /\ Len(names) \in Nat /\ Len(names) <= n
  <2>. HIDE DEF lines, Names
  <2>1. names \in Seq(Str \cap Names) /\ Len(names) \in Nat /\ Len(names) <= n
    BY <1>1, SelectedType
  <2>. QED
    BY <2>1
<1>3. paths \in Seq(Str) /\ Len(paths) \in Nat /\ Len(paths) <= n
  <2>. HIDE DEF lines, Paths
  <2>1. paths \in Seq(Str \cap Paths) /\ Len(paths) \in Nat /\ Len(paths) <= n
    BY <1>1, SelectedType
  <2>. QED
    BY <2>1
<1>. HIDE DEF names, paths, Names, Paths, lines, n
<1>4. slashed \in Seq(Str) /\ Len(slashed) = Len(paths)
  <2>1. \A k \in 1..Len(paths) : Slashed(paths[k]) \in Str
    BY <1>3, SlashedType
  <2>2. DOMAIN paths = 1..Len(paths)
    BY <1>3
  <2>3. slashed \in [1..Len(paths) -> Str]
    BY <2>1, <2>2
  <2>. HIDE DEF slashed
  <2>. QED
    BY <1>3, <2>3, FunSeq
<1>. HIDE DEF slashed
<1>. DEFINE p == Resized(StoredAll(Resized(EmptyArr, n), names), Len(names))
            q == Resized(StoredAll(Resized(EmptyArr, n), slashed), Len(slashed))
<1>5. p \in Unused /\ p.rows = names
  BY <1>1, <1>2, CutRows, EmptyArrType DEF n
<1>6. q \in Unused /\ q.rows = slashed
  BY <1>1, <1>3, <1>4, CutRows, EmptyArrType DEF n
<1>7. trigs' = [pkgs |-> p, paths |-> q] /\ UNCHANGED <<machine, stdin>>
  BY DEF Split, NoTrigs, names, paths, Names, Paths, lines, n, slashed, ToolOnly
<1>. HIDE DEF p, q
<1>8. ~HasNull(p) /\ ~HasNull(q)
  BY <1>2, <1>4, <1>5, <1>6, UnusedArrays, NoNullRows
<1>9. trigs'.pkgs = p /\ trigs'.paths = q
  BY <1>7
<1>10. TriggersRight'
  BY <1>5, <1>6, <1>7, <1>8, <1>9 DEF TriggersRight, HasNull, names, paths, Names, Paths, lines, slashed
<1>. QED
  BY <1>5, <1>6, <1>7, <1>10

\* What is left of a sequence after its first u elements.
LEMMA RestOf ==
  ASSUME NEW E, NEW lines \in Seq(E), NEW u \in Nat, u <= Len(lines), NEW rest,
         rest = SubSeq(lines, u + 1, Len(lines))
  PROVE  /\ rest = <<>> => u = Len(lines)
         /\ rest # <<>> => /\ u + 1 <= Len(lines) /\ Head(rest) = lines[u + 1] /\ Head(rest) \in E
                           /\ Tail(rest) = SubSeq(lines, (u + 1) + 1, Len(lines))
                           /\ Tail(rest) \in Seq(E)
<1>. DEFINE n == Len(lines)
<1>1. n \in Nat /\ rest \in Seq(E) /\ Len(rest) = n - u
  OBVIOUS
<1>2. \A k \in 1..(n - u) : rest[k] = lines[u + k]
  OBVIOUS
<1>3. CASE rest = <<>>
  <2>1. Len(<<>>) = 0
    OBVIOUS
  <2>2. Len(rest) = 0
    BY <1>3, <2>1, Zenon
  <2>. QED
    BY <1>1, <1>3, <2>2
<1>4. CASE rest # <<>>
  <2>1. Len(rest) # 0
    BY <1>1, <1>4
  <2>2. u + 1 <= n /\ 1 \in 1..(n - u)
    BY <1>1, <2>1
  <2>3. Head(rest) = lines[u + 1] /\ Head(rest) \in E
    BY <1>1, <1>2, <1>4, <2>2
  <2>. DEFINE next == SubSeq(lines, (u + 1) + 1, n)
  <2>4. next \in Seq(E) /\ Len(next) = n - u - 1 /\ \A k \in 1..(n - u - 1) : next[k] = lines[(u + 1) + k]
    <3>. DEFINE v == u + 1
    <3>1. v \in Nat /\ n \in Nat /\ v <= n /\ n - v = n - u - 1
      BY <1>1, <2>2
    <3>. HIDE DEF v
    <3>2. /\ SubSeq(lines, v + 1, n) \in Seq(E) /\ Len(SubSeq(lines, v + 1, n)) = n - v
          /\ \A k \in 1..(n - v) : SubSeq(lines, v + 1, n)[k] = lines[v + k]
      BY <3>1
    <3>. QED
      BY <3>1, <3>2 DEF v
  <2>5. Tail(rest) \in Seq(E) /\ Len(Tail(rest)) = n - u - 1
        /\ \A k \in 1..(n - u - 1) : Tail(rest)[k] = rest[k + 1]
    BY <1>1, <1>4, <2>2
  <2>6. ASSUME NEW k \in 1..(n - u - 1) PROVE Tail(rest)[k] = next[k]
    <3>1. k + 1 \in 1..(n - u) /\ u + (k + 1) = (u + 1) + k
      BY <1>1
    <3>. HIDE DEF next
    <3>. QED
      BY <1>2, <2>4, <2>5, <3>1
  <2>. HIDE DEF next, n
  <2>7. Tail(rest) = next
    BY <2>4, <2>5, <2>6, SeqEqual
  <2>. QED
    BY <1>4, <2>2, <2>3, <2>4, <2>7 DEF next, n
<1>. QED
  BY <1>3, <1>4

LEMMA TrigInit ==
  ASSUME Init
  PROVE  TrigInv
<1>1. machine.lines \in Seq(Str)
  BY MachineIs DEF Init, StartInit
<1>. QED
  BY <1>1, EmptyArrType, UnusedArrays DEF Init, StartInit, TrigInv, TriggersRight, NoTrigs

\* Where the triggers are left alone.
LEMMA TrigStays ==
  ASSUME TrigInv, UNCHANGED <<machine, trig, trigs, stdin>>,
         \/ pc' = pc
         \/ pc \in LoadPlaces /\ pc' \in LoadPlaces \cup {"packages", "mounts"}
         \/ pc' \in MountPlaces \cup {"done"}
  PROVE  TrigInv'
BY DEF TrigInv, TriggersRight, HasNull, LoadPlaces, MountPlaces

LEMMA TrigTool ==
  ASSUME SharedInv, TrigInv, ToolStep
  PROVE  TrigInv'
<1>0. UNCHANGED machine /\ machine \in Machines
  BY ToolFrame DEF SharedInv
<1>1. machine.lines \in Seq(Str)
  BY <1>0, MachineIs
<1>2. trig \in Arrays /\ stdin \in Seq(Str) /\ trigs \in [pkgs : Unused, paths : Unused]
  BY DEF TrigInv
<1>3. CASE Packages /\ pc' = "lines"
  <2>1. trig' = NewArr(Chunk) /\ UNCHANGED <<trigs, stdin>> /\ pc = "packages"
    BY <1>3 DEF Packages, Exit
  <2>2. NewArr(Chunk) \in Unused
    BY NewArrType, StartBounds
  <2>3. trig' \in Arrays /\ trig'.used = 0
    BY <2>1, <2>2, UnusedArrays
  <2>4. stdin = machine.lines /\ trigs = NoTrigs
    BY <2>1 DEF TrigInv
  <2>5. 0 <= Len(machine.lines) /\ SubSeq(machine.lines, 0 + 1, Len(machine.lines)) = machine.lines
    BY <1>1
  <2>6. \A k \in 1..trig'.used : FALSE
    BY <2>3
  <2>. QED
    BY <1>0, <1>2, <1>3, <2>1, <2>3, <2>4, <2>5, <2>6 DEF TrigInv, TriggersRight, LoadPlaces
<1>4. CASE Packages /\ pc' # "lines"
  <2>1. UNCHANGED <<trig, trigs, stdin>> /\ pc' = "done"
    BY <1>4 DEF Packages, Exit
  <2>. QED
    BY <1>0, <2>1, TrigStays
<1>5. CASE ReadLine
  <2>. DEFINE u == trig.used + 1
              lines == machine.lines
              a == Stored(Roomy, u, Head(stdin))
              l == [a.lens EXCEPT ![u] = Len(Head(stdin))]
  <2>1. pc = "lines" /\ pc' = "lines" /\ stdin # <<>> /\ stdin' = Tail(stdin) /\ trigs' = trigs
    BY <1>5 DEF ReadLine
  <2>2. /\ trig.used <= Len(lines) /\ stdin = SubSeq(lines, trig.used + 1, Len(lines))
        /\ \A k \in 1..trig.used : trig.rows[k] = lines[k]
        /\ trigs = NoTrigs
    BY <2>1 DEF TrigInv
  <2>3. trig.used \in Nat /\ u \in Nat /\ Len(lines) \in Nat
    BY <1>1, <1>2, ArraysAre
  <2>4. u <= Len(lines) /\ Head(stdin) = lines[u] /\ Head(stdin) \in Str
        /\ Tail(stdin) = SubSeq(lines, u + 1, Len(lines)) /\ Tail(stdin) \in Seq(Str)
    <3>1. lines \in Seq(Str) /\ trig.used \in Nat /\ trig.used <= Len(lines) /\ stdin # <<>>
          /\ stdin = SubSeq(lines, trig.used + 1, Len(lines))
      BY <1>1, <2>1, <2>2, <2>3
    <3>. HIDE DEF lines
    <3>2. /\ trig.used + 1 <= Len(lines) /\ Head(stdin) = lines[trig.used + 1] /\ Head(stdin) \in Str
          /\ Tail(stdin) = SubSeq(lines, (trig.used + 1) + 1, Len(lines)) /\ Tail(stdin) \in Seq(Str)
      BY <3>1, RestOf
    <3>. QED
      BY <3>2
  <2>5. /\ Counted.used = u /\ Roomy \in Arrays /\ Roomy.used = u /\ u \in 1..Len(Roomy.rows)
        /\ \A k \in 1..trig.used : Roomy.rows[k] = trig.rows[k]
    BY <1>2, RoomyType
  <2>6. trig' = [a EXCEPT !.lens = l]
    BY <1>5, <2>5 DEF ReadLine
  <2>. HIDE DEF u
  <2>7. /\ a \in Arrays /\ Len(a.rows) = Len(Roomy.rows) /\ a.used = u
        /\ \A j \in 1..Len(Roomy.rows) : a.rows[j] = IF j = u THEN Head(stdin) ELSE Roomy.rows[j]
    BY <2>4, <2>5, StoredType
  <2>. HIDE DEF a
  <2>8. /\ a.rows \in Seq(RowVal) /\ a.lens \in Seq(Nat) /\ Len(a.lens) = Len(a.rows)
        /\ u <= Len(a.lens) /\ u \in 1..Len(a.lens) /\ Len(Head(stdin)) \in Nat
    BY <2>4, <2>5, <2>7, StrRow DEF Arrays
  <2>9. l \in Seq(Nat) /\ Len(l) = Len(a.lens)
    BY <2>8
  <2>. HIDE DEF l
  <2>10. trig' = [rows |-> a.rows, lens |-> l, used |-> u]
    BY <2>6, <2>7, ArrayExcept
  <2>11. trig' \in Arrays /\ trig'.used = u /\ trig'.rows = a.rows
    <3>1. [rows |-> a.rows, lens |-> l, used |-> u] \in Arrays
      BY <2>3, <2>8, <2>9 DEF Arrays
    <3>. QED
      BY <2>10, <3>1
  <2>12. ASSUME NEW k \in 1..u PROVE a.rows[k] = lines[k]
    <3>1. k \in 1..Len(Roomy.rows)
      BY <2>5
    <3>2. CASE k = u
      BY <2>4, <2>7, <3>1, <3>2
    <3>3. CASE k # u
      <4>1. k \in 1..trig.used
        BY <2>3, <3>3 DEF u
      <4>. QED
        BY <2>2, <2>5, <2>7, <3>1, <3>3, <4>1
    <3>. QED
      BY <3>2, <3>3
  <2>. HIDE DEF lines
  <2>13. /\ trig'.used <= Len(lines) /\ stdin' = SubSeq(lines, trig'.used + 1, Len(lines))
         /\ \A k \in 1..trig'.used : trig'.rows[k] = lines[k]
    BY <2>1, <2>4, <2>11, <2>12
  <2>. QED
    BY <1>0, <1>2, <2>1, <2>2, <2>4, <2>11, <2>13 DEF TrigInv, TriggersRight, LoadPlaces, lines
<1>6. CASE ReadEnd
  <2>. DEFINE u == trig.used
              lines == machine.lines
  <2>1. pc = "lines" /\ pc' = "split" /\ stdin = <<>> /\ trig' = Resized(trig, u) /\ UNCHANGED <<trigs, stdin>>
    BY <1>6 DEF ReadEnd
  <2>2. /\ u <= Len(lines) /\ stdin = SubSeq(lines, u + 1, Len(lines))
        /\ \A k \in 1..u : trig.rows[k] = lines[k]
        /\ trigs = NoTrigs
    BY <2>1 DEF TrigInv
  <2>3. u \in Nat /\ Len(lines) \in Nat /\ u <= Len(trig.rows) /\ Len(trig.rows) \in Nat
    BY <1>1, <1>2, ArraysAre
  <2>4. u = Len(lines)
    <3>1. lines \in Seq(Str) /\ u \in Nat /\ u <= Len(lines) /\ stdin = <<>>
          /\ stdin = SubSeq(lines, u + 1, Len(lines))
      BY <1>1, <2>1, <2>2, <2>3
    <3>. HIDE DEF lines, u
    <3>. QED
      BY <3>1, RestOf
  <2>. HIDE DEF u
  <2>5. /\ Resized(trig, u) \in Arrays /\ Len(Resized(trig, u).rows) = u
        /\ \A k \in 1..u : Resized(trig, u).rows[k] = IF k <= Len(trig.rows) THEN trig.rows[k] ELSE NULL
    BY <1>2, <2>3, ResizedType
  <2>6. \A k \in 1..u : k <= Len(trig.rows)
    BY <2>3
  <2>7. \A k \in 1..u : Resized(trig, u).rows[k] = lines[k]
    BY <2>2, <2>5, <2>6
  <2>8. Resized(trig, u).rows \in Seq(RowVal) /\ lines \in Seq(RowVal)
    <3>1. \A k \in 1..Len(lines) : lines[k] \in RowVal
      BY <1>1, StrRow
    <3>. QED
      BY <1>1, <2>5, <3>1, ArraysAre
  <2>9. Resized(trig, u).rows = lines
    <3>. HIDE DEF lines
    <3>. QED
      BY <2>4, <2>5, <2>7, <2>8, SeqEqual
  <2>. QED
    BY <1>0, <1>2, <2>1, <2>2, <2>5, <2>9 DEF TrigInv, TriggersRight, LoadPlaces
<1>7. CASE Split
  <2>1. pc = "split" /\ pc' = "run" /\ trig' = EmptyArr /\ UNCHANGED stdin
    BY <1>7 DEF Split
  <2>2. stdin = <<>> /\ trig.rows = machine.lines /\ trigs = NoTrigs
    BY <2>1 DEF TrigInv
  <2>3. trigs' \in [pkgs : Unused, paths : Unused] /\ TriggersRight'
    BY <1>0, <1>2, <1>7, <2>2, SplitRight
  <2>4. EmptyArr \in Arrays
    BY EmptyArrType, UnusedArrays
  <2>. QED
    BY <1>2, <2>1, <2>3, <2>4 DEF TrigInv, LoadPlaces
<1>8. CASE NothingToRun \/ RunChild \/ ToolFails
  <2>1. UNCHANGED <<trig, trigs, stdin>> /\ pc' = "done"
    BY <1>8 DEF NothingToRun, RunChild, ToolFails, trigVars, Exit
  <2>. QED
    BY <1>0, <2>1, TrigStays
<1>9. CASE ReadFails
  <2>1. UNCHANGED <<trigs, stdin>> /\ pc' = "done"
        /\ trig' = IF stdin = <<>> THEN Resized(trig, trig.used) ELSE Resized(Roomy, Counted.used)
    BY <1>9 DEF ReadFails, Exit
  <2>2. trig.used \in Nat /\ Counted.used = trig.used + 1 /\ Counted.used \in Nat /\ Roomy \in Arrays
    BY <1>2, ArraysAre, RoomyType
  <2>3. Resized(trig, trig.used) \in Arrays /\ Resized(Roomy, Counted.used) \in Arrays
    BY <1>2, <2>2, ResizedType
  <2>. QED
    BY <1>2, <2>1, <2>3 DEF TrigInv, TriggersRight, LoadPlaces
<1>. QED
  BY <1>3, <1>4, <1>5, <1>6, <1>7, <1>8, <1>9 DEF ToolStep, ToolRun

LEMMA TrigStep ==
  ASSUME SharedInv, TrigInv, [Next]_vars
  PROVE  TrigInv'
<1>1. CASE ReadStep
  BY <1>1, ReadFrame, TrigStays
<1>2. CASE LoadStep
  <2>1. UNCHANGED <<machine, trig, trigs, stdin>>
    BY <1>2, LoadFrame
  <2>2. pc \in LoadPlaces /\ pc' \in LoadPlaces \cup {"packages", "mounts"}
    BY <1>2 DEF LoadStep, LoadConfig, ConfigInit, AllPlugins, PluginsFound, ActivePlugins, PluginEnv,
       BaseEnv, InstallConf, ConfigInitFails, GlobFails, BaseEnvFails, LoadFails, LoadOver, LoadPlaces
  <2>. QED
    BY <2>1, <2>2, TrigStays
<1>3. CASE ToolStep
  BY <1>3, TrigTool
<1>4. CASE MountStep
  <2>1. UNCHANGED <<machine, trig, trigs, stdin>>
    BY <1>4, MountFrame
  <2>2. pc' = pc \/ pc' \in MountPlaces \cup {"done"}
    <3>1. CASE FindMounts \/ MountFault
      BY <3>1 DEF FindMounts, MountFault, Snapshot, FindDisk, ProcessOne, WalkEnd, Bootctl, MarkCurrent,
         SnapshotFails, FindDiskFails, UuidFails, ProcessFails, WalkFails, BootctlFails, BootctlCut,
         MountPlaces
    <3>2. CASE MountChanges
      BY <3>2 DEF MountChanges, svars
    <3>. QED
      BY <1>4, <3>1, <3>2 DEF MountStep
  <2>. QED
    BY <2>1, <2>2, TrigStays
<1>5. CASE UNCHANGED vars
  <2>1. UNCHANGED <<machine, trig, trigs, stdin, pc>>
    BY <1>5 DEF vars, svars, trigVars
  <2>. QED
    BY <2>1, TrigStays
<1>. QED
  BY <1>1, <1>2, <1>3, <1>4, <1>5, NextCases

-----------------------------------------------------------------------------
(* SdBoot.                                                                 *)

LEMMA OneRow ==
  ASSUME NEW string \in Str
  PROVE  LET a == Stored(NewArr(1), 1, string)
         IN  a \in Unused /\ a \in Arrays /\ Len(a.rows) = 1 /\ a.rows[1] = string
             /\ a.rows = <<string>> /\ ~HasNull(a) /\ a # EmptyArr
<1>. DEFINE a == Stored(NewArr(1), 1, string)
<1>1. NewArr(1) \in Unused /\ Len(NewArr(1).rows) = 1 /\ 1 \in 1..1
  <2>1. PICK n \in Nat : n = 1
    OBVIOUS
  <2>2. NewArr(n) \in Unused /\ Len(NewArr(n).rows) = n
    BY NewArrType
  <2>. QED
    BY <2>1, <2>2
<1>2. NewArr(1) \in Arrays
  BY <1>1, UnusedArrays
<1>3. /\ a \in Unused /\ Len(a.rows) = 1
      /\ \A j \in 1..1 : a.rows[j] = IF j = 1 THEN string ELSE NewArr(1).rows[j]
  BY <1>1, <1>2, StoredType
<1>. HIDE DEF a
<1>4. a \in Arrays /\ a.rows \in Seq(RowVal) /\ a.rows[1] = string
  BY <1>1, <1>3, UnusedArrays, ArraysAre
<1>5. a.rows = <<string>>
  BY <1>3, <1>4
<1>6. a.rows \in Seq(Str)
  BY <1>5
<1>7. ~HasNull(a)
  BY <1>4, <1>6, NoNullRows
<1>8. a # EmptyArr
  BY <1>3 DEF EmptyArr
<1>. QED
  BY <1>3, <1>4, <1>5, <1>7, <1>8 DEF a

LEMMA PathVarType == PathVar \in Str
<1>1. ASSUME NEW v \in Word, NEW w \in Word PROVE <<v, w>> \in Str
  BY DEF Str
<1>2. "PATH=" \in Word /\ "/usr/bin" \in Word
  BY WordAssumption
<1>. QED
  BY <1>1, <1>2 DEF PathVar

\* What PATH is kept in, without the row that ends the environment and with it.
LEMMA BaseTypes ==
  /\ OnlyPath \in Unused /\ OnlyPath.rows = <<PathVar>> /\ ~HasNull(OnlyPath) /\ OnlyPath # EmptyArr
  /\ FullBase \in Unused /\ Len(FullBase.rows) = 2 /\ FullBase.rows[1] = PathVar
  /\ FullBase.rows[2] = NULL /\ HasNull(FullBase) /\ FullBase # EmptyArr
<1>1. /\ OnlyPath \in Unused /\ OnlyPath.rows = <<PathVar>> /\ ~HasNull(OnlyPath) /\ OnlyPath # EmptyArr
      /\ Len(OnlyPath.rows) = 1 /\ OnlyPath.rows[1] = PathVar
  BY PathVarType, OneRow DEF OnlyPath
<1>. DEFINE b == NullTerminated(OnlyPath)
<1>2. /\ b \in Unused /\ Len(b.rows) = 1 + 1 /\ b.rows[1 + 1] = NULL /\ HasNull(b)
      /\ \A k \in 1..1 : b.rows[k] = OnlyPath.rows[k]
  BY <1>1, NullTerminatedType
<1>. HIDE DEF b
<1>3. b \in Arrays /\ b.rows[1] = PathVar
  BY <1>1, <1>2, UnusedArrays
<1>4. Refreshed(b) \in Unused /\ Refreshed(b).rows = b.rows
  BY <1>2, <1>3, RefreshedType
<1>5. Refreshed(b) # EmptyArr
  BY <1>2, <1>4 DEF EmptyArr
<1>6. FullBase = Refreshed(b)
  BY DEF FullBase, b
<1>. QED
  BY <1>1, <1>2, <1>3, <1>4, <1>5, <1>6 DEF HasNull

\* An array made for some strings and filled with them.
LEMMA RowsStored ==
  ASSUME NEW strings \in Seq(Str)
  PROVE  LET a == Refreshed(StoredAll(NewArr(Len(strings)), strings))
         IN  a \in Unused /\ a.rows = strings
<1>. DEFINE n == Len(strings)
            b == StoredAll(NewArr(n), strings)
<1>1. n \in Nat /\ n <= n
  OBVIOUS
<1>2. NewArr(n) \in Unused /\ NewArr(n) \in Arrays /\ Len(NewArr(n).rows) = n
  <2>. HIDE DEF n
  <2>. QED
    BY <1>1, NewArrType, UnusedArrays
<1>3. /\ b \in Unused /\ Len(b.rows) = n
      /\ \A j \in 1..n : b.rows[j] = IF j <= n THEN strings[j] ELSE NewArr(n).rows[j]
  BY <1>1, <1>2, StoredAllType
<1>. HIDE DEF b
<1>4. b \in Arrays /\ b.rows \in Seq(RowVal)
  BY <1>3, UnusedArrays, ArraysAre
<1>5. strings \in Seq(RowVal)
  <2>1. \A k \in 1..Len(strings) : strings[k] \in RowVal
    BY StrRow
  <2>. QED
    BY <2>1
<1>6. \A j \in 1..n : b.rows[j] = strings[j]
  <2>1. \A j \in 1..n : j <= n
    BY <1>1
  <2>. QED
    BY <1>3, <2>1
<1>7. b.rows = strings
  BY <1>3, <1>4, <1>5, <1>6, SeqEqual
<1>. QED
  BY <1>3, <1>4, <1>7, RefreshedType DEF b

LEMMA GlobbedType ==
  ASSUME NEW strings \in Seq(Str)
  PROVE  Globbed(strings) \in Unused /\ Globbed(strings).rows = strings
BY RowsStored DEF Globbed

\* The lengths of a refreshed array of strings are theirs.
LEMMA RefreshedMeasured ==
  ASSUME NEW a \in Unused, a.rows \in Seq(Str)
  PROVE  Refreshed(a) \in Unused /\ Refreshed(a).rows = a.rows /\ Measured(Refreshed(a))
<1>1. a \in Arrays /\ \A k \in 1..Len(a.rows) : a.rows[k] # NULL
  BY UnusedArrays, StrRow
<1>2. /\ Refreshed(a) \in Unused /\ Refreshed(a).rows = a.rows
      /\ \A k \in 1..Len(a.rows) : Refreshed(a).lens[k] = IF a.rows[k] = NULL THEN 0 ELSE Len(a.rows[k])
  BY <1>1, RefreshedType
<1>. QED
  BY <1>1, <1>2 DEF Measured

LEMMA AllPluginsRight ==
  ASSUME NEW usr \in Seq(Str), NEW etc \in Seq(Str)
  PROVE  LET a == Refreshed(Appended(Globbed(etc), Globbed(usr)))
         IN  a \in Unused /\ a.rows = usr \o etc /\ Measured(a)
<1>. DEFINE u == Globbed(usr)
            e == Globbed(etc)
            b == Appended(e, u)
            m == Len(etc)
<1>1. u \in Unused /\ u.rows = usr /\ e \in Unused /\ e.rows = etc
  BY GlobbedType
<1>. HIDE DEF u, e
<1>2. ~HasNull(u)
  BY <1>1, UnusedArrays, NoNullRows
<1>3. m \in Nat /\ m \in 0..m /\ \A k \in 1..m : e.rows[k] # NULL /\ k <= m
  BY <1>1, StrRow
<1>4. b \in Unused /\ b.rows = u.rows \o SubSeq(e.rows, 1, m)
  <2>1. m \in 0..Len(e.rows) /\ \A k \in 1..Len(e.rows) : e.rows[k] # NULL <=> k <= m
    BY <1>1, <1>3
  <2>. HIDE DEF m
  <2>. QED
    BY <1>1, <1>2, <2>1, AppendedType
<1>5. SubSeq(etc, 1, m) = etc
  OBVIOUS
<1>6. b.rows = usr \o etc
  BY <1>1, <1>4, <1>5
<1>7. usr \o etc \in Seq(Str)
  OBVIOUS
<1>. HIDE DEF b
<1>. QED
  BY <1>4, <1>6, <1>7, RefreshedMeasured DEF b, u, e

LEMMA UnskippedType ==
  ASSUME NEW rows \in Seq(Str), NEW skips
  PROVE  /\ Unskipped(rows, skips) \in Seq(Str)
         /\ Len(Unskipped(rows, skips)) <= Len(rows)
         /\ skips = <<>> => Unskipped(rows, skips) = rows
<1>. DEFINE S == {r \in Range(rows) : r # NULL /\ r \notin Range(skips)}
            n == Len(rows)
<1>1. Unskipped(rows, skips) = Selected(rows, S)
  BY DEF Unskipped
<1>2. Selected(rows, S) \in Seq(Str) /\ Len(Selected(rows, S)) <= Len(rows)
  <2>. HIDE DEF S
  <2>1. Selected(rows, S) \in Seq(Str \cap S) /\ Len(Selected(rows, S)) <= Len(rows)
    BY SelectedType
  <2>. QED
    BY <2>1
<1>3. ASSUME skips = <<>> PROVE Selected(rows, S) = rows
  <2>1. Range(skips) = {}
    BY <1>3 DEF Range
  <2>2. n \in Nat /\ n \in 0..n /\ DOMAIN rows = 1..n /\ SubSeq(rows, 1, n) = rows
    OBVIOUS
  <2>3. \A k \in 1..n : rows[k] \in S /\ k <= n
    BY <2>1, <2>2, StrRow DEF Range
  <2>4. n \in 0..Len(rows) /\ \A k \in 1..Len(rows) : rows[k] \in S <=> k <= n
    BY <2>2, <2>3
  <2>. HIDE DEF S, n
  <2>5. Selected(rows, S) = SubSeq(rows, 1, n)
    BY <2>4, SelectedFirst
  <2>. QED
    BY <2>2, <2>5
<1>. QED
  BY <1>1, <1>2, <1>3

\* Nothing is found when no plugin is seen, all when none is missed.
LEMMA NothingFound ==
  ASSUME machine \in Machines
  PROVE  /\ <<>> \in MayFind /\ machine.usr \o machine.etc \in MayFind
         /\ MayFind \subseteq Seq(Str)
<1>1. machine.usr \in Seq(Str) /\ machine.etc \in Seq(Str)
  BY MachineIs
<1>2. /\ <<>> \in Sublists(machine.usr) /\ <<>> \in Sublists(machine.etc)
      /\ machine.usr \in Sublists(machine.usr) /\ machine.etc \in Sublists(machine.etc)
      /\ Sublists(machine.usr) \subseteq Seq(Str) /\ Sublists(machine.etc) \subseteq Seq(Str)
  BY <1>1, SublistsAre
<1>3. <<>> \o <<>> = <<>>
  OBVIOUS
<1>4. \A usr, etc \in Seq(Str) : usr \o etc \in Seq(Str)
  OBVIOUS
<1>5. \A usr \in Sublists(machine.usr), etc \in Sublists(machine.etc) :
        usr \o etc \in MayFind /\ usr \o etc \in Seq(Str)
  <2>1. ASSUME NEW usr \in Sublists(machine.usr), NEW etc \in Sublists(machine.etc)
        PROVE  usr \o etc \in MayFind /\ usr \o etc \in Seq(Str)
    <3>1. usr \o etc \in MayFind
      BY DEF MayFind
    <3>. QED
      BY <1>2, <1>4, <3>1
  <2>. QED
    BY <2>1
<1>6. MayFind \subseteq Seq(Str)
  <2>1. ASSUME NEW found \in MayFind PROVE found \in Seq(Str)
    <3>1. PICK usr \in Sublists(machine.usr), etc \in Sublists(machine.etc) : found = usr \o etc
      BY DEF MayFind
    <3>. QED
      BY <1>5, <3>1
  <2>. QED
    BY <2>1
<1>7. <<>> \o <<>> \in MayFind
  BY <1>2, <1>5
<1>. QED
  BY <1>2, <1>3, <1>5, <1>6, <1>7

LEMMA ConfInit ==
  ASSUME Init
  PROVE  ConfInv
<1>1. /\ conf = NoConf /\ pc = "start" /\ loaded = FALSE
  BY DEF Init, StartInit
<1>2. EmptyArr \in Unused /\ EmptyArr.rows = <<>> /\ "none" \in FileKinds
  BY EmptyArrType DEF FileKinds
<1>3. conf \in ConfType
  BY <1>1, <1>2 DEF NoConf, ConfType
<1>4. conf.seen = "none" /\ conf.skips.rows = <<>> /\ Skips(conf.seen) = <<>>
  BY <1>1, <1>2 DEF NoConf, Skips
<1>5. IsPrefix(<<>>, <<>>)
  BY DEF IsPrefix
<1>6. FoundInv
  <2>1. machine \in Machines /\ Found = <<>>
    BY <1>1, <1>2 DEF Init, StartInit, Found, NoConf
  <2>2. <<>> \in MayFind
    BY <2>1, NothingFound
  <2>. QED
    BY <1>1, <2>1, <2>2 DEF FoundInv
<1>. QED
  BY <1>1, <1>3, <1>4, <1>5, <1>6 DEF ConfInv, NoConf, LoadPlaces

LEMMA ConfSame ==
  ASSUME conf'.all = conf.all, conf'.skips = conf.skips
  PROVE  Found' = Found /\ Wanted' = Wanted /\ ListText' = ListText
BY DEF Found, Wanted, ListText

\* Nothing more is found or missed.
LEMMA FoundStays ==
  ASSUME machine' = machine, FoundInv, faults \in 0..MaxFaults, MayFail,
         conf'.root = conf.root, conf'.all = conf.all,
         pc' = pc \/ pc \notin {"start", "config"} \/ faults' # 0
  PROVE  FoundInv'
<1>1. Found' = Found /\ MayFind' = MayFind
  BY DEF Found, MayFind
<1>2. faults' = 0 => faults = 0
  BY FaultsBounded
<1>. QED
  BY <1>1, <1>2 DEF FoundInv

LEMMA SkipsSame ==
  ASSUME machine' = machine, ConfInv, faults \in 0..MaxFaults, MayFail,
         conf'.seen = conf.seen, conf'.skips = conf.skips
  PROVE  /\ IsPrefix(conf'.skips.rows, Skips(conf.seen)')
         /\ faults' = 0 => conf'.skips.rows = Skips(conf.seen)'
<1>1. Skips(conf.seen)' = Skips(conf.seen)
  BY DEF Skips
<1>. QED
  BY <1>1, FaultsBounded DEF ConfInv

\* Where SdBoot is left alone.
LEMMA ConfStays ==
  ASSUME SharedInv, ConfInv, UNCHANGED <<machine, conf>>, MayFail,
         \/ pc' = pc /\ loaded' = loaded
         \/ pc' \notin LoadPlaces /\ loaded' = FALSE
         \/ pc' \notin LoadPlaces /\ loaded' = loaded,
         pc' = pc \/ pc \notin {"start", "config"} \/ faults' # 0
  PROVE  ConfInv'
<1>1. faults \in 0..MaxFaults
  BY DEF SharedInv
<1>2. /\ IsPrefix(conf'.skips.rows, Skips(conf.seen)')
      /\ faults' = 0 => conf'.skips.rows = Skips(conf.seen)'
  BY <1>1, SkipsSame
<1>3. Found' = Found /\ Wanted' = Wanted /\ ListText' = ListText
  BY ConfSame
<1>4. FoundInv'
  BY <1>1, FoundStays DEF ConfInv
<1>. QED
  BY <1>2, <1>3, <1>4 DEF ConfInv, LoadPlaces, Measured

LEMMA SkipsType ==
  ASSUME machine \in Machines, NEW content
  PROVE  Skips(content) \in Seq(Str)
BY MachineIs DEF Skips

\* The load of config.yaml, whole or in part.
LEMMA ConfLoads ==
  ASSUME SharedInv, ConfInv, machine' = machine, pc' = pc, loaded' = loaded, MayFail, pc = "config",
         NEW n \in 0..Len(Skips(file)), LoadFirst(n), n = Len(Skips(file)) \/ Fault
  PROVE  ConfInv'
<1>. DEFINE s == Skips(file)
            t == SubSeq(s, 1, n)
            a == AddedAll(t)
            v == Verb(file)
<1>1. machine \in Machines /\ file \in FileKinds /\ faults \in 0..MaxFaults /\ conf \in ConfType
  BY DEF SharedInv, ConfInv
<1>2. s \in Seq(Str)
  BY <1>1, SkipsType
<1>. HIDE DEF s
<1>3. n \in Nat /\ n <= Len(s) /\ Len(s) \in Nat
  BY <1>2 DEF s
<1>4. /\ t \in Seq(Str) /\ Len(t) = n
      /\ IsPrefix(t, s)
      /\ n = Len(s) => t = s
  <2>1. t \in Seq(Str) /\ Len(t) = n /\ \A k \in 1..n : t[k] = s[k]
    BY <1>2, <1>3
  <2>2. SubSeq(t, 1, n) = t
    BY <2>1
  <2>3. IsPrefix(t, s)
    <3>. HIDE DEF t
    <3>. QED
      BY <1>3, <2>1, <2>2 DEF IsPrefix, t
  <2>4. n = Len(s) => t = s
    BY <1>2
  <2>. QED
    BY <2>1, <2>3, <2>4
<1>. HIDE DEF t
<1>5. a \in Unused /\ a.rows = t
  BY <1>4, AddedAllRows
<1>6. v \in {0, 1, 3}
  BY DEF Verb
<1>7. conf' = [conf EXCEPT !.seen = file, !.verb = v, !.skips = a]
  BY DEF LoadFirst, a, t, s, v
<1>. HIDE DEF a, v
<1>8. /\ conf' \in ConfType /\ conf'.seen = file /\ conf'.skips = a
      /\ conf'.active = conf.active /\ conf'.plugins = conf.plugins /\ conf'.base = conf.base
      /\ conf'.root = conf.root /\ conf'.all = conf.all
  BY <1>1, <1>5, <1>6, <1>7 DEF ConfType
<1>9. Skips(conf.seen)' = s
  BY <1>8 DEF Skips, s
<1>10. /\ IsPrefix(conf'.skips.rows, Skips(conf.seen)')
       /\ faults' = 0 => conf'.skips.rows = Skips(conf.seen)'
  BY <1>1, <1>4, <1>5, <1>8, <1>9, FaultsBounded DEF s
<1>11. conf.active = EmptyArr /\ conf.plugins = EmptyArr /\ conf.base = EmptyArr /\ ~loaded
  BY DEF ConfInv, SharedInv, LoadPlaces
<1>12. FoundInv'
  BY <1>1, <1>8, FoundStays DEF ConfInv
<1>. QED
  BY <1>8, <1>10, <1>11, <1>12 DEF ConfInv, LoadPlaces

LEMMA ConfRead ==
  ASSUME SharedInv, ConfInv, ReadStep
  PROVE  ConfInv'
<1>1. UNCHANGED <<machine, pc, loaded>> /\ MayFail
  BY ReadFrame
<1>2. CASE UNCHANGED conf
  BY <1>1, <1>2, ConfStays
<1>3. CASE Load(Self)
  <2>1. look[Self] = "load" /\ LoadFirst(Len(Skips(file)))
    BY <1>3 DEF Load
  <2>2. pc = "config"
    BY <2>1 DEF SharedInv
  <2>3. Len(Skips(file)) \in 0..Len(Skips(file))
    <3>1. Skips(file) \in Seq(Str)
      BY SkipsType DEF SharedInv
    <3>. QED
      BY <3>1
  <2>. QED
    BY <1>1, <2>1, <2>2, <2>3, ConfLoads
<1>4. CASE LoadCut
  <2>1. look[Self] = "load" /\ Fault
    BY <1>4 DEF LoadCut
  <2>2. pc = "config"
    BY <2>1 DEF SharedInv
  <2>3. PICK n \in 0..(Len(Skips(file)) - 1) : LoadFirst(n)
    BY <1>4 DEF LoadCut
  <2>4. n \in 0..Len(Skips(file))
    <3>1. Skips(file) \in Seq(Str)
      BY SkipsType DEF SharedInv
    <3>. QED
      BY <3>1
  <2>. QED
    BY <1>1, <2>1, <2>2, <2>3, <2>4, ConfLoads
<1>5. UNCHANGED conf \/ Load(Self) \/ LoadCut
  BY DEF ReadStep, Look, OpenCopy, Fill, Load, CopyFails, AdminEdits
<1>. QED
  BY <1>2, <1>3, <1>4, <1>5

\* get_all_plugins, when glob gives all there are or something fails.
LEMMA ConfFinds ==
  ASSUME SharedInv, ConfInv, machine' = machine, MayFail,
         NEW usr \in Sublists(machine.usr), NEW etc \in Sublists(machine.etc),
         PluginsFound(usr, etc), (usr = machine.usr /\ etc = machine.etc) \/ faults' # 0
  PROVE  ConfInv'
<1>. DEFINE a == IF conf.root THEN Refreshed(Appended(Globbed(etc), Globbed(usr))) ELSE EmptyArr
<1>1. /\ machine \in Machines /\ faults \in 0..MaxFaults /\ conf \in ConfType /\ FoundInv
      /\ (faults' = 0 => faults = 0)
  BY FaultsBounded DEF SharedInv, ConfInv
<1>2. usr \in Seq(Str) /\ etc \in Seq(Str) /\ usr \o etc \in MayFind /\ <<>> \in MayFind
  <2>1. machine.usr \in Seq(Str) /\ machine.etc \in Seq(Str)
    BY <1>1, MachineIs
  <2>2. usr \in Seq(Str) /\ etc \in Seq(Str)
    BY <2>1, SublistsAre
  <2>3. usr \o etc \in MayFind
    BY DEF MayFind
  <2>. QED
    BY <1>1, <2>2, <2>3, NothingFound
<1>3. pc = "config" /\ pc' = "active" /\ conf' = [conf EXCEPT !.all = a] /\ loaded' = loaded
  BY DEF PluginsFound
<1>4. /\ a \in Unused /\ Measured(a) /\ a.rows \in MayFind
      /\ conf.root => a.rows = usr \o etc
  <2>1. CASE conf.root
    BY <1>2, <2>1, AllPluginsRight
  <2>2. CASE ~conf.root
    BY <1>2, <2>2, EmptyArrType DEF Measured, EmptyArr
  <2>. QED
    BY <2>1, <2>2
<1>. HIDE DEF a
<1>5. /\ conf' \in ConfType /\ conf'.seen = conf.seen /\ conf'.skips = conf.skips /\ conf'.all = a
      /\ conf'.active = conf.active /\ conf'.plugins = conf.plugins /\ conf'.base = conf.base
      /\ conf'.root = conf.root
  BY <1>1, <1>3, <1>4 DEF ConfType
<1>6. conf.active = EmptyArr /\ conf.plugins = EmptyArr /\ conf.base = EmptyArr /\ ~loaded
  BY <1>3 DEF ConfInv, SharedInv, LoadPlaces
<1>7. Measured(conf.all)'
  BY <1>4, <1>5 DEF Measured
<1>8. /\ IsPrefix(conf'.skips.rows, Skips(conf.seen)')
      /\ faults' = 0 => conf'.skips.rows = Skips(conf.seen)'
  BY <1>1, <1>5, SkipsSame
<1>9. FoundInv'
  <2>1. Found' = a.rows /\ MayFind' = MayFind /\ conf'.root = conf.root
    BY <1>5 DEF Found, MayFind
  <2>2. ASSUME faults' = 0 PROVE conf.root /\ a.rows = machine.usr \o machine.etc
    <3>1. conf.root
      BY <1>1, <1>3, <2>2 DEF FoundInv
    <3>. QED
      BY <1>4, <2>2, <3>1
  <2>. QED
    BY <1>3, <1>4, <2>1, <2>2 DEF FoundInv
<1>. QED
  BY <1>3, <1>5, <1>6, <1>7, <1>8, <1>9 DEF ConfInv, LoadPlaces

\* The steps of load_config.
LEMMA ConfLoadConfig ==
  ASSUME SharedInv, ConfInv, LoadConfig
  PROVE  ConfInv'
<1>0. machine' = machine /\ MayFail /\ machine \in Machines /\ conf \in ConfType
      /\ faults \in 0..MaxFaults
  BY LoadFrame DEF LoadStep, SharedInv, ConfInv
<1>1. machine.usr \in Seq(Str) /\ machine.etc \in Seq(Str)
  BY <1>0, MachineIs
<1>2. Found \in Seq(Str) /\ FoundInv
  BY <1>0, NothingFound DEF ConfInv, FoundInv
<1>3. Wanted \in Seq(Str) /\ Len(Wanted) <= Len(Found)
      /\ (conf.skips.rows = <<>> => Wanted = Found)
  BY <1>2, UnskippedType DEF Wanted
<1>4. ASSUME conf'.seen = conf.seen, conf'.skips = conf.skips
      PROVE  /\ IsPrefix(conf'.skips.rows, Skips(conf.seen)')
             /\ faults' = 0 => conf'.skips.rows = Skips(conf.seen)'
  BY <1>0, <1>4, SkipsSame
<1>5. CASE ConfigInit
  <2>1. pc = "start" /\ pc' = "config" /\ conf' = [conf EXCEPT !.root = TRUE] /\ loaded' = loaded
    BY <1>5 DEF ConfigInit
  <2>2. /\ conf' \in ConfType /\ conf'.seen = conf.seen /\ conf'.skips = conf.skips
        /\ conf'.active = conf.active /\ conf'.plugins = conf.plugins /\ conf'.base = conf.base
        /\ conf'.root = TRUE /\ conf'.all = conf.all
    BY <1>0, <2>1 DEF ConfType
  <2>3. conf.active = EmptyArr /\ conf.plugins = EmptyArr /\ conf.base = EmptyArr /\ ~loaded
    BY <2>1 DEF ConfInv, SharedInv, LoadPlaces
  <2>4. FoundInv'
    <3>1. Found' = Found /\ MayFind' = MayFind
      BY <1>0, <2>2 DEF Found, MayFind
    <3>. QED
      BY <1>2, <2>1, <2>2, <3>1 DEF FoundInv
  <2>. QED
    BY <1>4, <2>1, <2>2, <2>3, <2>4 DEF ConfInv, LoadPlaces
<1>6. CASE AllPlugins
  <2>1. PluginsFound(machine.usr, machine.etc)
    BY <1>6 DEF AllPlugins
  <2>2. machine.usr \in Sublists(machine.usr) /\ machine.etc \in Sublists(machine.etc)
    BY <1>1, SublistsAre
  <2>. QED
    BY <1>0, <2>1, <2>2, ConfFinds
<1>7. CASE ActivePlugins
  <2>. DEFINE kept == Unskipped(conf.all.rows, conf.skips.rows)
              n == Len(conf.all.rows)
              cut == Resized(StoredAll(Resized(conf.active, n), kept), Len(kept))
              a == IF conf.skips.rows = <<>> THEN conf.all ELSE Refreshed(cut)
  <2>1. pc = "active" /\ pc' = "plugins" /\ conf' = [conf EXCEPT !.active = a] /\ loaded' = loaded
    BY <1>7 DEF ActivePlugins
  <2>2. /\ conf.active = EmptyArr /\ conf.plugins = EmptyArr /\ conf.base = EmptyArr /\ ~loaded
        /\ conf.all.rows = Found /\ Measured(conf.all) /\ conf.all \in Unused
    BY <2>1 DEF ConfInv, SharedInv, LoadPlaces, ConfType, Found
  <2>3. kept = Wanted
    BY <2>2 DEF Wanted
  <2>. HIDE DEF kept
  <2>4. n \in Nat /\ Len(kept) <= n
    BY <1>2, <1>3, <2>2, <2>3
  <2>5. cut \in Unused /\ cut.rows = kept
    <3>1. conf.active \in Unused /\ kept \in Seq(Str)
      BY <1>3, <2>2, <2>3, EmptyArrType
    <3>. HIDE DEF n
    <3>. QED
      BY <2>4, <3>1, CutRows
  <2>. HIDE DEF cut, n
  <2>6. Refreshed(cut) \in Unused /\ Refreshed(cut).rows = Wanted /\ Measured(Refreshed(cut))
    <3>1. cut.rows \in Seq(Str)
      BY <1>3, <2>3, <2>5
    <3>. QED
      BY <2>3, <2>5, <3>1, RefreshedMeasured
  <2>7. a \in Unused /\ a.rows = Wanted /\ Measured(a)
    BY <1>3, <2>2, <2>6
  <2>. HIDE DEF a
  <2>8. /\ conf' \in ConfType /\ conf'.seen = conf.seen /\ conf'.skips = conf.skips /\ conf'.active = a
        /\ conf'.plugins = conf.plugins /\ conf'.base = conf.base /\ conf'.root = conf.root
        /\ conf'.all = conf.all
    BY <1>0, <2>1, <2>7 DEF ConfType
  <2>9. Wanted' = Wanted /\ FoundInv'
    BY <1>0, <1>2, <2>1, <2>8, ConfSame, FoundStays
  <2>10. Measured(conf.active)'
    BY <2>7, <2>8 DEF Measured
  <2>. QED
    BY <1>4, <2>1, <2>2, <2>7, <2>8, <2>9, <2>10 DEF ConfInv, LoadPlaces
<1>8. CASE PluginEnv
  <2>. DEFINE text == PluginsText(conf.active)
              b == Stored(NewArr(1), 1, text)
              a == Refreshed(b)
  <2>1. pc = "plugins" /\ pc' = "base" /\ conf' = [conf EXCEPT !.plugins = a] /\ loaded' = loaded
    BY <1>8 DEF PluginEnv
  <2>2. /\ conf.plugins = EmptyArr /\ conf.base = EmptyArr /\ ~loaded
        /\ conf.active.rows = Wanted /\ Measured(conf.active) /\ conf.active \in Arrays
    BY <2>1, UnusedArrays DEF ConfInv, SharedInv, LoadPlaces, ConfType
  <2>3. text = ListText /\ text \in Str
    <3>1. PICK c : c = conf.active
      OBVIOUS
    <3>2. c \in Arrays /\ c.rows \in Seq(Str) /\ \A k \in 1..Len(c.rows) : c.lens[k] = Len(c.rows[k])
      BY <1>3, <2>2, <3>1 DEF Measured
    <3>3. PluginsText(c) = PluginsVar \o FlattenSeq([k \in DOMAIN c.rows |-> c.rows[k] \o <<" ">>])
      BY <3>2, PluginsTextIs
    <3>4. PluginsText(c) \in Str
      BY <3>2, PluginsTextType
    <3>. QED
      BY <2>2, <3>1, <3>3, <3>4 DEF ListText
  <2>. HIDE DEF text
  <2>4. b \in Unused /\ b \in Arrays /\ b.rows = <<text>>
    BY <2>3, OneRow
  <2>. HIDE DEF b
  <2>5. a \in Unused /\ a.rows = <<text>>
    BY <2>4, RefreshedType
  <2>6. a # EmptyArr
    <3>1. a.rows # <<>>
      <4>. HIDE DEF a
      <4>. QED
        BY <2>5
    <3>. QED
      BY <3>1, EmptyArrType
  <2>. HIDE DEF a
  <2>7. /\ conf' \in ConfType /\ conf'.seen = conf.seen /\ conf'.skips = conf.skips /\ conf'.plugins = a
        /\ conf'.base = conf.base /\ conf'.root = conf.root /\ conf'.all = conf.all
    BY <1>0, <2>1, <2>5 DEF ConfType
  <2>8. ListText' = ListText /\ FoundInv'
    BY <1>0, <1>2, <2>1, <2>7, ConfSame, FoundStays
  <2>9. conf'.plugins.rows = <<ListText'>>
    BY <2>3, <2>5, <2>7, <2>8
  <2>. QED
    BY <1>4, <2>1, <2>2, <2>6, <2>7, <2>8, <2>9 DEF ConfInv, LoadPlaces
<1>9. CASE BaseEnv
  <2>1. pc = "base" /\ pc' = "install" /\ conf' = [conf EXCEPT !.base = FullBase] /\ loaded' = loaded
    BY <1>9 DEF BaseEnv, FullBase
  <2>2. /\ conf.plugins # EmptyArr /\ conf.plugins.rows = <<ListText>> /\ ~loaded
    BY <2>1 DEF ConfInv, SharedInv, LoadPlaces
  <2>3. /\ conf' \in ConfType /\ conf'.seen = conf.seen /\ conf'.skips = conf.skips
        /\ conf'.plugins = conf.plugins /\ conf'.base = FullBase /\ conf'.root = conf.root
        /\ conf'.all = conf.all
    BY <1>0, <2>1, BaseTypes DEF ConfType
  <2>4. ListText' = ListText /\ FullBase' = FullBase /\ OnlyPath' = OnlyPath
    BY <1>0, <2>3, ConfSame DEF FullBase
  <2>5. FoundInv'
    BY <1>0, <1>2, <2>1, <2>3, FoundStays
  <2>. QED
    BY <1>4, <2>1, <2>2, <2>3, <2>4, <2>5 DEF ConfInv, LoadPlaces
<1>10. CASE InstallConf
  <2>1. pc = "install" /\ pc' \notin LoadPlaces /\ conf' = conf
    BY <1>10 DEF InstallConf, LoadOver, LoadPlaces
  <2>2. conf.base = FullBase /\ conf.plugins # EmptyArr /\ conf.plugins.rows = <<ListText>>
    BY <2>1 DEF ConfInv
  <2>3. ListText' = ListText /\ FoundInv'
    BY <1>0, <1>2, <2>1, ConfSame, FoundStays
  <2>. QED
    BY <1>0, <1>4, <2>1, <2>2, <2>3 DEF ConfInv, LoadPlaces
<1>. QED
  BY <1>5, <1>6, <1>7, <1>8, <1>9, <1>10 DEF LoadConfig

LEMMA ConfStep ==
  ASSUME SharedInv, ConfInv, [Next]_vars
  PROVE  ConfInv'
<1>1. CASE ReadStep
  BY <1>1, ConfRead
<1>2. CASE LoadConfig
  BY <1>2, ConfLoadConfig
<1>3. CASE ConfigInitFails
  <2>1. pc = "start" /\ pc' = "config" /\ UNCHANGED <<machine, conf, loaded>> /\ MayFail
    BY <1>3 DEF ConfigInitFails, MemoryOnly, MayFail
  <2>2. /\ IsPrefix(conf'.skips.rows, Skips(conf.seen)')
        /\ faults' = 0 => conf'.skips.rows = Skips(conf.seen)'
    BY <2>1, SkipsSame DEF SharedInv
  <2>3. ~loaded
    BY <2>1 DEF SharedInv, LoadPlaces
  <2>4. FoundInv'
    <3>1. faults' # 0
      BY <1>3, <2>1, FaultsBounded DEF SharedInv, ConfigInitFails
    <3>. QED
      BY <2>1, <3>1, FoundStays DEF SharedInv, ConfInv
  <2>. QED
    BY <2>1, <2>2, <2>3, <2>4 DEF ConfInv, LoadPlaces
<1>4. CASE LoadFails
  <2>1. UNCHANGED <<machine, conf>> /\ MayFail /\ loaded' = FALSE /\ pc' \notin LoadPlaces
    BY <1>4 DEF LoadFails, MemoryOnly, MayFail, LoadOver, LoadPlaces
  <2>2. faults' # 0
    BY <1>4, <2>1, FaultsBounded DEF SharedInv, LoadFails
  <2>. QED
    BY <2>1, <2>2, ConfStays
<1>5. CASE BaseEnvFails
  <2>1. /\ UNCHANGED machine /\ MayFail /\ loaded' = FALSE /\ pc' \notin LoadPlaces /\ pc = "base"
        /\ conf' \in {conf, [conf EXCEPT !.base = OnlyPath]}
    BY <1>5 DEF BaseEnvFails, MemoryOnly, MayFail, LoadOver, LoadPlaces
  <2>2. CASE conf' = conf
    BY <2>1, <2>2, ConfStays
  <2>3. CASE conf' = [conf EXCEPT !.base = OnlyPath]
    <3>1. conf.plugins # EmptyArr /\ conf.plugins.rows = <<ListText>> /\ conf \in ConfType
      BY <2>1 DEF ConfInv
    <3>2. /\ conf' \in ConfType /\ conf'.seen = conf.seen /\ conf'.skips = conf.skips
          /\ conf'.plugins = conf.plugins /\ conf'.base = OnlyPath /\ conf'.root = conf.root
          /\ conf'.all = conf.all
      BY <2>3, <3>1, BaseTypes DEF ConfType
    <3>3. ListText' = ListText /\ FoundInv'
      BY <2>1, <3>2, ConfSame, FoundStays DEF SharedInv, ConfInv
    <3>4. /\ IsPrefix(conf'.skips.rows, Skips(conf.seen)')
          /\ faults' = 0 => conf'.skips.rows = Skips(conf.seen)'
      BY <2>1, <3>2, SkipsSame DEF SharedInv
    <3>. QED
      BY <2>1, <3>1, <3>2, <3>3, <3>4 DEF ConfInv, LoadPlaces
  <2>. QED
    BY <2>1, <2>2, <2>3
<1>6. CASE ToolStep
  <2>1. UNCHANGED <<machine, conf, loaded>> /\ MayFail
    BY <1>6, ToolFrame
  <2>2. pc' \in {"lines", "split", "run", "done"}
    BY <1>6 DEF ToolStep, ToolRun, Packages, ReadLine, ReadEnd, Split, NothingToRun, RunChild, ReadFails,
       ToolFails, Exit
  <2>3. pc' \notin LoadPlaces
    BY <2>2 DEF LoadPlaces
  <2>4. pc \notin {"start", "config"}
    BY <1>6 DEF ToolStep, ToolRun, Packages, ReadLine, ReadEnd, Split, NothingToRun, RunChild, ReadFails,
       ToolFails
  <2>. QED
    BY <2>1, <2>3, <2>4, ConfStays
<1>7. CASE MountStep
  <2>1. UNCHANGED <<machine, conf, loaded>> /\ MayFail
    BY <1>7, MountFrame
  <2>2. /\ pc' = pc \/ pc' \in {"disk", "walk", "bootctl", "mark", "done"}
        /\ pc \notin {"start", "config"}
    <3>1. CASE FindMounts \/ MountFault
      BY <3>1 DEF FindMounts, MountFault, Snapshot, FindDisk, ProcessOne, WalkEnd, Bootctl, MarkCurrent,
         SnapshotFails, FindDiskFails, UuidFails, ProcessFails, WalkFails, BootctlFails, BootctlCut
    <3>2. CASE MountChanges
      BY <3>2 DEF MountChanges, svars
    <3>. QED
      BY <1>7, <3>1, <3>2 DEF MountStep
  <2>3. pc' = pc \/ pc' \notin LoadPlaces
    BY <2>2 DEF LoadPlaces
  <2>. QED
    BY <2>1, <2>2, <2>3, ConfStays
<1>8. CASE UNCHANGED vars
  <2>1. UNCHANGED <<machine, conf, loaded, pc, faults>>
    BY <1>8 DEF vars, svars
  <2>. QED
    BY <2>1, ConfStays DEF MayFail
<1>9. CASE GlobFails
  <2>1. machine' = machine /\ MayFail /\ Fault
    BY <1>9, LoadFrame DEF LoadStep, GlobFails
  <2>2. faults' # 0
    BY <2>1, FaultsBounded DEF SharedInv
  <2>3. PICK usr \in Sublists(machine.usr), etc \in Sublists(machine.etc) : PluginsFound(usr, etc)
    BY <1>9 DEF GlobFails
  <2>. QED
    BY <2>1, <2>2, <2>3, ConfFinds
<1>. QED
  BY <1>1, <1>2, <1>3, <1>4, <1>5, <1>6, <1>7, <1>8, <1>9, NextCases DEF LoadStep


-----------------------------------------------------------------------------
(* The child.                                                              *)

\* A list that ends with a row without a string shows all of its strings.
LEMMA EndedRows ==
  ASSUME NEW a \in Unused, ~HasNull(a)
  PROVE  LET b == NullTerminated(a)
             c == Refreshed(b)
         IN  /\ b \in Unused /\ HasNull(b) /\ SubSeq(b.rows, 1, UpToNull(b)) = a.rows
             /\ c \in Unused /\ HasNull(c) /\ SubSeq(c.rows, 1, UpToNull(c)) = a.rows
<1>. DEFINE b == NullTerminated(a)
            c == Refreshed(b)
            n == Len(a.rows)
<1>1. a \in Arrays /\ a.rows \in Seq(Str) /\ n \in Nat
  BY UnusedArrays, ArraysAre, NoNullRows
<1>2. /\ b \in Unused /\ HasNull(b) /\ Len(b.rows) = n + 1 /\ b.rows[n + 1] = NULL
      /\ \A k \in 1..n : b.rows[k] = a.rows[k]
  BY NullTerminatedType
<1>. HIDE DEF b
<1>3. b \in Arrays /\ b.rows \in Seq(RowVal)
  BY <1>2, UnusedArrays, ArraysAre
<1>4. c \in Unused /\ c.rows = b.rows
  BY <1>2, <1>3, RefreshedType
<1>. HIDE DEF c
<1>5. c \in Arrays /\ HasNull(c)
  BY <1>2, <1>4, UnusedArrays DEF HasNull
<1>6. \A k \in 1..n : b.rows[k] # NULL
  BY <1>1, <1>2, StrRow
<1>7. n \in Nat /\ n < Len(b.rows)
  BY <1>1, <1>2
<1>. HIDE DEF n
<1>8. UpToNull(b) = n
  BY <1>2, <1>3, <1>6, <1>7, UpToNullIs
<1>9. UpToNull(c) = n
  BY <1>2, <1>4, <1>5, <1>6, <1>7, UpToNullIs
<1>10. SubSeq(b.rows, 1, n) = a.rows
  <2>1. SubSeq(b.rows, 1, n) \in Seq(RowVal) /\ Len(SubSeq(b.rows, 1, n)) = n
        /\ \A k \in 1..n : SubSeq(b.rows, 1, n)[k] = b.rows[k]
    BY <1>2, <1>3, <1>7
  <2>2. a.rows \in Seq(RowVal) /\ Len(a.rows) = n
    BY <1>1, ArraysAre DEF n
  <2>. QED
    BY <1>2, <2>1, <2>2, SeqEqual
<1>. QED
  BY <1>2, <1>4, <1>5, <1>8, <1>9, <1>10 DEF b, c

\* An array of strings behind another is one with the rows of both.
LEMMA AppendedStrings ==
  ASSUME NEW src \in Unused, NEW dst \in Unused, ~HasNull(src), ~HasNull(dst)
  PROVE  /\ Appended(src, dst) \in Unused /\ ~HasNull(Appended(src, dst))
         /\ Appended(src, dst).rows = dst.rows \o src.rows
<1>. DEFINE a == Appended(src, dst)
            m == Len(src.rows)
<1>1. src.rows \in Seq(Str) /\ dst.rows \in Seq(Str)
  BY UnusedArrays, NoNullRows
<1>2. m \in Nat /\ m \in 0..m /\ SubSeq(src.rows, 1, m) = src.rows
      /\ \A k \in 1..m : src.rows[k] \in Str /\ k <= m
  BY <1>1
<1>3. \A k \in 1..m : src.rows[k] # NULL <=> k <= m
  BY <1>2, StrRow
<1>4. a \in Unused /\ a.rows = dst.rows \o SubSeq(src.rows, 1, m)
  <2>. HIDE DEF m
  <2>1. m \in 0..Len(src.rows) /\ \A k \in 1..Len(src.rows) : src.rows[k] # NULL <=> k <= m
    BY <1>2, <1>3 DEF m
  <2>. QED
    BY <2>1, AppendedType
<1>. HIDE DEF a
<1>5. a.rows = dst.rows \o src.rows /\ a.rows \in Seq(Str) /\ a \in Arrays
  <2>1. a.rows = dst.rows \o src.rows
    BY <1>2, <1>4
  <2>2. dst.rows \o src.rows \in Seq(Str)
    BY <1>1, ConcatSeq
  <2>. QED
    BY <1>4, <2>1, <2>2, UnusedArrays
<1>6. ~HasNull(a)
  BY <1>5, NoNullRows
<1>. QED
  BY <1>4, <1>5, <1>6 DEF a

LEMMA FirstOf ==
  ASSUME NEW E, NEW s \in Seq(E), Len(s) # 0
  PROVE  SubSeq(s, 1, 1) = <<s[1]>>
<1>1. s[1] \in E /\ Len(s) \in Nat /\ 1 <= Len(s)
  OBVIOUS
<1>2. PICK t : t = SubSeq(s, 1, 1)
  OBVIOUS
<1>3. t \in Seq(E) /\ Len(t) = 1 /\ t[1] = s[1]
  BY <1>1, <1>2
<1>4. <<s[1]>> \in Seq(E) /\ Len(<<s[1]>>) = 1 /\ <<s[1]>>[1] = s[1]
  BY <1>1
<1>5. \A k \in 1..1 : k = 1
  OBVIOUS
<1>6. t = <<s[1]>>
  BY <1>3, <1>4, <1>5, SeqEqual
<1>. QED
  BY <1>2, <1>6

\* What is copied of the environment load_config made: PATH, if it got so far.
LEMMA BaseCopied ==
  ASSUME NEW base \in {EmptyArr, OnlyPath, FullBase}
  PROVE  /\ Appended(base, EmptyArr) \in Unused /\ ~HasNull(Appended(base, EmptyArr))
         /\ base = EmptyArr => Appended(base, EmptyArr).rows = <<>>
         /\ base # EmptyArr => Appended(base, EmptyArr).rows = <<PathVar>>
<1>1. EmptyArr \in Unused /\ EmptyArr.rows = <<>> /\ ~HasNull(EmptyArr) /\ EmptyArr \in Arrays
  <2>1. EmptyArr \in Unused /\ EmptyArr \in Arrays /\ EmptyArr.rows = <<>>
    BY EmptyArrType, UnusedArrays
  <2>2. EmptyArr.rows \in Seq(Str)
    BY <2>1
  <2>. QED
    BY <2>1, <2>2, NoNullRows
<1>2. CASE base = EmptyArr
  <2>1. Appended(base, EmptyArr) \in Unused /\ ~HasNull(Appended(base, EmptyArr))
        /\ Appended(base, EmptyArr).rows = EmptyArr.rows \o base.rows
    BY <1>1, <1>2, AppendedStrings
  <2>2. EmptyArr.rows \o base.rows = <<>>
    BY <1>1, <1>2
  <2>. QED
    BY <1>2, <2>1, <2>2
<1>3. CASE base = OnlyPath
  <2>1. base \in Unused /\ base.rows = <<PathVar>> /\ ~HasNull(base) /\ base # EmptyArr
    BY <1>3, BaseTypes
  <2>2. Appended(base, EmptyArr) \in Unused /\ ~HasNull(Appended(base, EmptyArr))
        /\ Appended(base, EmptyArr).rows = EmptyArr.rows \o base.rows
    BY <1>1, <2>1, AppendedStrings
  <2>3. EmptyArr.rows \o base.rows = <<PathVar>>
    BY <1>1, <2>1, PathVarType
  <2>. QED
    BY <2>1, <2>2, <2>3
<1>4. CASE base = FullBase
  <2>1. base \in Unused /\ Len(base.rows) = 2 /\ base.rows[1] = PathVar /\ base.rows[2] = NULL /\ base # EmptyArr
    BY <1>4, BaseTypes
  <2>2. 1 \in 0..Len(base.rows) /\ \A k \in 1..Len(base.rows) : base.rows[k] # NULL <=> k <= 1
    BY <2>1, PathVarType, StrRow
  <2>3. /\ Appended(base, EmptyArr) \in Unused
        /\ Appended(base, EmptyArr).rows = EmptyArr.rows \o SubSeq(base.rows, 1, 1)
    BY <1>1, <2>1, <2>2, AppendedType
  <2>4. base.rows \in Seq(RowVal)
    BY <2>1, UnusedArrays, ArraysAre
  <2>5. SubSeq(base.rows, 1, 1) = <<PathVar>>
    <3>1. PICK s \in Seq(RowVal) : s = base.rows
      BY <2>4
    <3>2. SubSeq(s, 1, 1) = <<s[1]>>
      BY <2>1, <3>1, FirstOf
    <3>. QED
      BY <2>1, <3>1, <3>2
  <2>6. Appended(base, EmptyArr).rows = <<PathVar>>
    BY <1>1, <2>3, <2>5, PathVarType
  <2>7. Appended(base, EmptyArr).rows \in Seq(Str) /\ Appended(base, EmptyArr) \in Arrays
    <3>1. PICK v \in Str : v = PathVar
      BY PathVarType
    <3>2. <<v>> \in Seq(Str)
      OBVIOUS
    <3>. QED
      BY <2>3, <2>6, <3>1, <3>2, UnusedArrays
  <2>8. ~HasNull(Appended(base, EmptyArr))
    BY <2>7, NoNullRows
  <2>. QED
    BY <2>1, <2>3, <2>6, <2>8
<1>. QED
  BY <1>2, <1>3, <1>4


\* The text that names the plugins is a string.
LEMMA ListTextType ==
  ASSUME machine \in Machines, ConfInv
  PROVE  ListText \in Str
<1>1. Found \in Seq(Str)
  BY NothingFound DEF ConfInv, FoundInv
<1>2. PICK want \in Seq(Str) : want = Wanted
  <2>1. Unskipped(Found, conf.skips.rows) \in Seq(Str)
    BY <1>1, UnskippedType
  <2>. QED
    BY <2>1 DEF Wanted
<1>3. PICK words : words = [k \in DOMAIN want |-> want[k] \o <<" ">>]
  OBVIOUS
<1>4. words \in Seq(Str)
  <2>1. \A k \in DOMAIN want : want[k] \o <<" ">> \in Str
    <3>1. \A k \in DOMAIN want : want[k] \in Str
      OBVIOUS
    <3>. QED
      BY <3>1, WordsType, StrConcat
  <2>2. words \in [1..Len(want) -> Str]
    <3>1. DOMAIN want = 1..Len(want)
      OBVIOUS
    <3>2. words \in [DOMAIN want -> Str]
      BY <1>3, <2>1
    <3>. QED
      BY <3>1, <3>2
  <2>3. Len(want) \in Nat
    OBVIOUS
  <2>. QED
    BY <2>2, <2>3, FunSeq
<1>5. FlattenSeq(words) \in Str
  <2>1. words \in Seq(Seq(Word))
    BY <1>4 DEF Str
  <2>2. PICK total : IsFlatten(total, Word, words)
    BY <2>1, FlattenSteps
  <2>3. Len(words) \in 0..Len(words) /\ total \in [0..Len(words) -> Seq(Word)]
        /\ FlattenSeq(words) = total[Len(words)]
    BY <2>1, <2>2 DEF IsFlatten
  <2>. QED
    BY <2>3 DEF Str
<1>6. ListText = PluginsVar \o FlattenSeq(words)
  BY <1>2, <1>3 DEF ListText
<1>. QED
  BY <1>5, <1>6, StrConcat, WordsType

LEMMA OneWord ==
  ASSUME NEW w \in Word
  PROVE  <<w>> \in Str
BY DEF Str

\* The arguments of kernel-install are strings.
LEMMA ArgsType ==
  /\ <<"kernel-install">> \in Str /\ <<"-v">> \in Str
  /\ Args \in Seq(Str)
<1>1. /\ "kernel-install" \in Word /\ "-v" \in Word /\ "add" \in Word /\ "remove" \in Word
      /\ "version" \in Word /\ "image" \in Word
  BY WordAssumption
<1>2. ASSUME NEW u \in Str, NEW v \in Str, NEW w \in Str
      PROVE  <<u, v, w>> \in Seq(Str) /\ <<u, v>> \in Seq(Str)
  OBVIOUS
<1>3. <<"add">> \in Str /\ <<"remove">> \in Str /\ <<"version">> \in Str /\ <<"image">> \in Str
  BY <1>1, OneWord
<1>4. Args \in Seq(Str)
  BY <1>2, <1>3 DEF Args
<1>. QED
  BY <1>1, <1>4, OneWord

\* The environment of kernel-install: what is there of PATH and of the list of
\* plugins, then the end.
LEMMA EnvRight ==
  ASSUME machine \in Machines, ConfInv
  PROVE  /\ EnvAll \in Unused /\ HasNull(EnvAll)
         /\ SubSeq(EnvAll.rows, 1, UpToNull(EnvAll)) =
              (IF conf.base = EmptyArr THEN <<>> ELSE <<PathVar>>) \o conf.plugins.rows
<1>1. PICK a : a = Appended(conf.base, EmptyArr)
  OBVIOUS
<1>2. /\ a \in Unused /\ ~HasNull(a)
      /\ conf.base = EmptyArr => a.rows = <<>>
      /\ conf.base # EmptyArr => a.rows = <<PathVar>>
  <2>1. PICK base \in {EmptyArr, OnlyPath, FullBase} : base = conf.base
    BY DEF ConfInv
  <2>. QED
    BY <1>1, <2>1, BaseCopied
<1>3. PICK p : p = conf.plugins
  OBVIOUS
<1>4. p \in Unused /\ ~HasNull(p)
  <2>1. p \in Unused
    BY <1>3 DEF ConfInv, ConfType
  <2>2. p.rows \in Seq(Str)
    <3>1. CASE p = EmptyArr
      BY <3>1, EmptyArrType
    <3>2. CASE p # EmptyArr
      <4>1. PICK text \in Str : text = ListText
        BY ListTextType
      <4>2. p.rows = <<text>>
        BY <1>3, <3>2, <4>1 DEF ConfInv
      <4>. QED
        BY <4>2
    <3>. QED
      BY <3>1, <3>2
  <2>. QED
    BY <2>1, <2>2, UnusedArrays, NoNullRows
<1>5. PICK b : b = Appended(p, a)
  OBVIOUS
<1>6. b \in Unused /\ ~HasNull(b) /\ b.rows = a.rows \o p.rows
  BY <1>2, <1>4, <1>5, AppendedStrings
<1>7. EnvAll = Refreshed(NullTerminated(b))
  BY <1>1, <1>3, <1>5 DEF EnvAll
<1>8. EnvAll \in Unused /\ HasNull(EnvAll) /\ SubSeq(EnvAll.rows, 1, UpToNull(EnvAll)) = b.rows
  BY <1>6, <1>7, EndedRows
<1>. QED
  BY <1>2, <1>3, <1>6, <1>8

\* Its arguments: the command, what it is to do, and "-v" at level 3.
LEMMA ArgRight ==
  ASSUME conf.verb \in {0, 1, 3}
  PROVE  /\ ArgAll \in Unused /\ HasNull(ArgAll)
         /\ SubSeq(ArgAll.rows, 1, UpToNull(ArgAll)) =
              <<<<"kernel-install">>>> \o Args \o (IF conf.verb = 3 THEN <<<<"-v">>>> ELSE <<>>)
<1>1. PICK k \in Str : k = <<"kernel-install">>
  BY ArgsType
<1>2. PICK v \in Str : v = <<"-v">>
  BY ArgsType
<1>3. PICK args \in Seq(Str) : args = Args
  BY ArgsType
<1>4. PICK src : src = ArgArr /\ src \in Unused /\ src.rows = args /\ ~HasNull(src)
  <2>1. ArgArr = Refreshed(StoredAll(NewArr(Len(args)), args))
    BY <1>3 DEF ArgArr
  <2>2. ArgArr \in Unused /\ ArgArr.rows = args
    BY <2>1, RowsStored
  <2>3. ~HasNull(ArgArr)
    BY <2>2, UnusedArrays, NoNullRows
  <2>. QED
    BY <2>2, <2>3
<1>5. PICK dst : dst = Stored(NewArr(1), 1, k) /\ dst \in Unused /\ dst.rows = <<k>> /\ ~HasNull(dst)
  BY OneRow
<1>6. PICK cmd : cmd = Appended(src, dst) /\ cmd \in Unused /\ cmd.rows = <<k>> \o args /\ ~HasNull(cmd)
  BY <1>4, <1>5, AppendedStrings
<1>7. cmd \in Arrays /\ cmd.rows \in Seq(Str) /\ Len(cmd.rows) \in Nat
  BY <1>6, UnusedArrays, NoNullRows
<1>8. PICK n : n = Len(cmd.rows) + 1
  OBVIOUS
<1>9. PICK long : long = Stored(Resized(cmd, n), n, v)
  OBVIOUS
<1>10. long \in Unused /\ long.rows = Append(cmd.rows, v) /\ ~HasNull(long)
  <2>1. n \in Nat /\ n \in 1..n /\ n > Len(cmd.rows)
    BY <1>7, <1>8
  <2>2. PICK r : r = Resized(cmd, n)
    OBVIOUS
  <2>3. /\ r \in Unused /\ Len(r.rows) = n
        /\ \A j \in 1..n : r.rows[j] = IF j <= Len(cmd.rows) THEN cmd.rows[j] ELSE NULL
    BY <1>6, <1>7, <2>1, <2>2, ResizedType
  <2>4. r \in Arrays
    BY <2>3, UnusedArrays
  <2>5. /\ long \in Unused /\ Len(long.rows) = n
        /\ \A j \in 1..n : long.rows[j] = IF j = n THEN v ELSE r.rows[j]
    BY <1>9, <2>1, <2>2, <2>3, <2>4, StoredType
  <2>6. long \in Arrays /\ long.rows \in Seq(RowVal)
    BY <2>5, UnusedArrays, ArraysAre
  <2>7. \A j \in 1..n : long.rows[j] = Append(cmd.rows, v)[j]
    BY <1>7, <1>8, <2>1, <2>3, <2>5
  <2>8. Append(cmd.rows, v) \in Seq(Str) /\ Len(Append(cmd.rows, v)) = n
    BY <1>7, <1>8
  <2>9. long.rows = Append(cmd.rows, v)
    <3>1. Append(cmd.rows, v) \in Seq(RowVal)
      <4>1. PICK t \in Seq(Str) : t = Append(cmd.rows, v)
        BY <2>8
      <4>2. \A j \in 1..Len(t) : t[j] \in RowVal
        BY StrRow
      <4>3. t \in Seq(RowVal)
        BY <4>2
      <4>. QED
        BY <4>1, <4>3
    <3>. QED
      BY <2>5, <2>6, <2>7, <2>8, <3>1, SeqEqual
  <2>10. ~HasNull(long)
    BY <2>6, <2>8, <2>9, NoNullRows
  <2>. QED
    BY <2>5, <2>9, <2>10
<1>11. PICK loud : loud = IF conf.verb >= 3 THEN long ELSE cmd
  OBVIOUS
<1>12. conf.verb >= 3 <=> conf.verb = 3
  OBVIOUS
<1>13. loud \in Unused /\ ~HasNull(loud)
  BY <1>6, <1>10, <1>11
<1>14. loud.rows = (<<k>> \o args) \o (IF conf.verb = 3 THEN <<v>> ELSE <<>>)
  <2>1. <<k>> \o args \in Seq(Str)
    BY <1>6, <1>7
  <2>2. ASSUME NEW t \in Seq(Str) PROVE Append(t, v) = t \o <<v>> /\ t \o <<>> = t
    OBVIOUS
  <2>3. CASE conf.verb = 3
    BY <1>6, <1>10, <1>11, <1>12, <2>1, <2>2, <2>3
  <2>4. CASE conf.verb # 3
    BY <1>6, <1>11, <1>12, <2>1, <2>2, <2>4
  <2>. QED
    BY <2>3, <2>4
<1>15. ArgAll = Refreshed(NullTerminated(loud))
  BY <1>1, <1>2, <1>4, <1>5, <1>6, <1>8, <1>9, <1>11 DEF ArgAll
<1>16. ArgAll \in Unused /\ HasNull(ArgAll) /\ SubSeq(ArgAll.rows, 1, UpToNull(ArgAll)) = loud.rows
  BY <1>13, <1>15, EndedRows
<1>. QED
  BY <1>1, <1>2, <1>3, <1>14, <1>16


LEMMA ChildNone ==
  ASSUME child' = NoChild
  PROVE  ChildInv'
BY EmptyArrType DEF ChildInv, ChildGets, NoChild

LEMMA ChildInit ==
  ASSUME Init
  PROVE  ChildInv
BY EmptyArrType DEF Init, StartInit, ChildInv, ChildGets, NoChild

LEMMA ChildStays ==
  ASSUME ChildInv, UNCHANGED <<machine, conf, loaded, child>>,
         child = NoChild \/ pc' \in {"done", "bootctl", "mark"}
  PROVE  ChildInv'
<1>1. CASE child = NoChild
  BY <1>1, ChildNone
<1>2. CASE pc' \in {"done", "bootctl", "mark"}
  BY <1>2 DEF ChildInv, ChildGets, Args, prog
<1>. QED
  BY <1>1, <1>2

LEMMA ChildRuns ==
  ASSUME SharedInv, ConfInv, RunChild
  PROVE  ChildInv'
<1>1. /\ pc = "run" /\ prog = "tool" /\ pc' = "done" /\ UNCHANGED <<machine, conf, loaded>>
      /\ child' = [env |-> EnvAll, argv |-> ArgAll]
  BY DEF RunChild, Exit, ToolOnly, SharedInv, ToolPlaces
<1>2. PICK env : env = EnvAll
  OBVIOUS
<1>3. PICK argv : argv = ArgAll
  OBVIOUS
<1>4. PICK path \in Str : path = PathVar
  BY PathVarType
<1>5. PICK list : list = conf.plugins.rows
  OBVIOUS
<1>6. PICK args : args = Args
  OBVIOUS
<1>7. PICK loud : loud = IF conf.verb = 3 THEN <<<<"-v">>>> ELSE <<>>
  OBVIOUS
<1>8. PICK head : head = IF conf.base = EmptyArr THEN <<>> ELSE <<path>>
  OBVIOUS
<1>9. /\ env \in Unused /\ HasNull(env) /\ SubSeq(env.rows, 1, UpToNull(env)) = head \o list
  <2>1. machine \in Machines
    BY DEF SharedInv
  <2>. QED
    BY <1>2, <1>4, <1>5, <1>8, <2>1, EnvRight
<1>10. /\ argv \in Unused /\ HasNull(argv)
       /\ SubSeq(argv.rows, 1, UpToNull(argv)) = <<<<"kernel-install">>>> \o args \o loud
  <2>1. conf.verb \in {0, 1, 3}
    BY DEF ConfInv, ConfType
  <2>. QED
    BY <1>3, <1>6, <1>7, <2>1, ArgRight
<1>11. list = <<>> \/ (\E text \in Str : list = <<text>>)
  <2>1. CASE conf.plugins = EmptyArr
    BY <1>5, <2>1, EmptyArrType
  <2>2. CASE conf.plugins # EmptyArr
    <3>1. PICK text \in Str : text = ListText
      BY ListTextType DEF SharedInv
    <3>2. list = <<text>>
      BY <1>5, <2>2, <3>1 DEF ConfInv
    <3>. QED
      BY <3>2
  <2>. QED
    BY <2>1, <2>2
<1>12. loaded => conf.base.rows[1] = path /\ conf.base # EmptyArr /\ list # <<>>
  <2>1. ASSUME loaded PROVE conf.base = FullBase /\ conf.plugins # EmptyArr
    BY <2>1 DEF ConfInv
  <2>2. ASSUME conf.plugins # EmptyArr PROVE list # <<>>
    <3>1. PICK text \in Str : text = ListText
      BY ListTextType DEF SharedInv
    <3>2. list = <<text>>
      BY <1>5, <2>2, <3>1 DEF ConfInv
    <3>. QED
      BY <3>2
  <2>. QED
    BY <1>4, <2>1, <2>2, BaseTypes
<1>13. \A k \in DOMAIN (head \o list) : (head \o list)[k] = path \/ <<(head \o list)[k]>> = list
  <2>1. ASSUME NEW text \in Str
        PROVE  /\ \A k \in DOMAIN (<<path>> \o <<text>>) :
                    (<<path>> \o <<text>>)[k] = path \/ (<<path>> \o <<text>>)[k] = text
               /\ \A k \in DOMAIN (<<>> \o <<text>>) : (<<>> \o <<text>>)[k] = text
               /\ \A k \in DOMAIN (<<path>> \o <<>>) : (<<path>> \o <<>>)[k] = path
    OBVIOUS
  <2>2. \A k \in DOMAIN (<<>> \o <<>>) : FALSE
    OBVIOUS
  <2>3. CASE list = <<>>
    BY <1>8, <2>1, <2>2, <2>3, <1>4
  <2>4. CASE \E text \in Str : list = <<text>>
    <3>1. PICK text \in Str : list = <<text>>
      BY <2>4
    <3>2. CASE head = <<>>
      BY <2>1, <3>1, <3>2
    <3>3. CASE head = <<path>>
      BY <2>1, <3>1, <3>3
    <3>. QED
      BY <1>8, <3>2, <3>3
  <2>. QED
    BY <1>11, <2>3, <2>4
<1>14. child' = [env |-> env, argv |-> argv]
  BY <1>1, <1>2, <1>3
<1>15. /\ conf'.base.rows[1] = conf.base.rows[1] /\ conf'.plugins.rows = list
       /\ (IF conf'.verb = 3 THEN <<<<"-v">>>> ELSE <<>>) = loud
       /\ Args' = args
       /\ prog' = "tool" /\ loaded' = loaded
  BY <1>1, <1>5, <1>6, <1>7 DEF Args, prog
<1>16. ChildGets'
  <2>1. /\ child'.env = env /\ child'.argv = argv
    BY <1>14
  <2>2. loaded => head = <<path>>
    BY <1>8, <1>12
  <2>. QED
    BY <1>4, <1>9, <1>10, <1>12, <1>13, <1>15, <2>1, <2>2 DEF ChildGets, HasNull, UpToNull
<1>17. child' \in [env : Unused, argv : Unused]
  BY <1>9, <1>10, <1>14
<1>. QED
  BY <1>1, <1>16, <1>17 DEF ChildInv


\* find-boot-mounts gives bootctl the environment as load_config left it.
LEMMA ChildWalks ==
  ASSUME SharedInv, ConfInv, ChildInv, WalkEnd
  PROVE  ChildInv'
<1>1. /\ pc = "walk" /\ prog # "tool" /\ UNCHANGED <<machine, conf, loaded>> /\ child = NoChild
  BY DEF WalkEnd, SharedInv, MountPlaces, ToolPlaces, ChildInv
<1>2. CASE conf.base.rows = <<>>
  <2>1. child' = NoChild
    BY <1>1, <1>2 DEF WalkEnd
  <2>. QED
    BY <2>1, ChildNone
<1>3. CASE conf.base.rows # <<>>
  <2>1. PICK cmd : cmd = Stored(NewArr(1), 1, <<"bootctl">>)
    OBVIOUS
  <2>2. PICK argv : argv = NullTerminated(cmd)
    OBVIOUS
  <2>3. PICK env : env = conf.base
    OBVIOUS
  <2>4. pc' = "bootctl" /\ child' = [env |-> env, argv |-> argv]
    BY <1>3, <2>1, <2>2, <2>3 DEF WalkEnd
  <2>5. argv \in Unused /\ HasNull(argv)
    <3>1. PICK w \in Str : w = <<"bootctl">>
      BY MountAssumption, OneWord
    <3>2. cmd \in Unused
      BY <2>1, <3>1, OneRow
    <3>. QED
      BY <2>2, <3>2, NullTerminatedType
  <2>6. PICK path : path = PathVar
    OBVIOUS
  <2>7. /\ env \in Unused /\ UpToNull(env) = 1 /\ env.rows[1] = path
        /\ loaded => HasNull(env)
    <3>1. env # EmptyArr
      BY <1>3, <2>3, EmptyArrType
    <3>2. CASE env = OnlyPath
      <4>1. env \in Unused /\ env.rows = <<path>> /\ ~HasNull(env)
        BY <2>6, <3>2, BaseTypes
      <4>2. UpToNull(env) = 1
        BY <4>1, UnusedArrays, NoNullRows
      <4>3. loaded => env = FullBase
        BY <2>3 DEF ConfInv
      <4>. QED
        BY <4>1, <4>2, <4>3, BaseTypes
    <3>3. CASE env = FullBase
      <4>1. env \in Unused /\ Len(env.rows) = 2 /\ env.rows[1] = path /\ env.rows[2] = NULL /\ HasNull(env)
        BY <2>6, <3>3, BaseTypes
      <4>2. env.rows[1] # NULL
        BY <2>6, <4>1, PathVarType, StrRow
      <4>3. PICK n \in Nat : n = 1
        OBVIOUS
      <4>4. env \in Arrays /\ n < Len(env.rows) /\ env.rows[n + 1] = NULL /\ \A k \in 1..n : env.rows[k] # NULL
        BY <4>1, <4>2, <4>3, UnusedArrays
      <4>5. UpToNull(env) = n
        BY <4>4, UpToNullIs
      <4>. QED
        BY <4>1, <4>3, <4>5
    <3>. QED
      BY <2>3, <3>1, <3>2, <3>3 DEF ConfInv
  <2>8. SubSeq(env.rows, 1, 1) = <<path>>
    <3>1. env.rows \in Seq(RowVal) /\ Len(env.rows) # 0
      <4>1. env.rows \in Seq(RowVal)
        BY <2>7, UnusedArrays, ArraysAre
      <4>. QED
        BY <1>3, <2>3, <4>1
    <3>. QED
      BY <2>7, <3>1, FirstOf
  <2>9. \A k \in DOMAIN <<path>> : <<path>>[k] = path
    OBVIOUS
  <2>10. loaded => conf.base.rows[1] = path /\ conf.plugins.rows # <<>>
    <3>1. ASSUME loaded PROVE conf.plugins.rows = <<ListText>>
      BY <3>1 DEF ConfInv
    <3>2. PICK text \in Str : text = ListText
      BY ListTextType DEF SharedInv
    <3>3. <<text>> # <<>>
      OBVIOUS
    <3>. QED
      BY <2>3, <2>7, <3>1, <3>2, <3>3
  <2>11. ChildGets'
    <3>1. /\ child'.env = env /\ child'.argv = argv /\ prog' # "tool" /\ loaded' = loaded
          /\ conf'.base = conf.base /\ conf'.plugins = conf.plugins
      BY <1>1, <2>4 DEF prog
    <3>2. SubSeq(env.rows, 1, UpToNull(env)) = <<path>>
      BY <2>7, <2>8
    <3>. QED
      BY <2>5, <2>6, <2>7, <2>9, <2>10, <3>1, <3>2 DEF ChildGets
  <2>12. child' \in [env : Unused, argv : Unused]
    BY <2>4, <2>5, <2>7
  <2>. QED
    BY <2>4, <2>11, <2>12 DEF ChildInv
<1>. QED
  BY <1>2, <1>3

LEMMA ChildStep ==
  ASSUME SharedInv, ConfInv, ChildInv, [Next]_vars
  PROVE  ChildInv'
<1>1. CASE ReadStep
  <2>1. UNCHANGED <<machine, pc, loaded, child>>
    BY <1>1, ReadFrame
  <2>2. CASE child = NoChild
    BY <2>1, <2>2, ChildNone
  <2>3. CASE child # NoChild
    <3>1. pc \in {"done", "bootctl", "mark"}
      BY <2>3 DEF ChildInv
    <3>2. look[Self] = "done"
      BY <3>1 DEF SharedInv
    <3>3. conf' = conf
      BY <1>1, <3>2 DEF ReadStep, Look, OpenCopy, Fill, Load, CopyFails, LoadCut, AdminEdits
    <3>. QED
      BY <2>1, <3>1, <3>3, ChildStays
  <2>. QED
    BY <2>2, <2>3
<1>2. CASE LoadStep
  <2>1. pc \in LoadPlaces /\ child' = child
    BY <1>2, LoadFrame DEF LoadStep, LoadConfig, ConfigInit, AllPlugins, PluginsFound, ActivePlugins,
       PluginEnv, BaseEnv, InstallConf, ConfigInitFails, GlobFails, BaseEnvFails, LoadFails, LoadPlaces
  <2>2. child = NoChild
    BY <2>1 DEF ChildInv, LoadPlaces
  <2>. QED
    BY <2>1, <2>2, ChildNone
<1>3. CASE ToolStep
  <2>1. CASE RunChild
    BY <2>1, ChildRuns
  <2>2. CASE ~RunChild
    <3>1. pc \in ToolPlaces /\ child' = child
      BY <1>3, <2>2 DEF ToolStep, ToolRun, Packages, ReadLine, ReadEnd, Split, NothingToRun, ReadFails,
         ToolFails, ToolPlaces
    <3>2. child = NoChild
      BY <3>1 DEF ChildInv, ToolPlaces
    <3>. QED
      BY <3>1, <3>2, ChildNone
  <2>. QED
    BY <2>1, <2>2
<1>4. CASE MountStep
  <2>1. UNCHANGED <<machine, conf, loaded>>
    BY <1>4, MountFrame
  <2>2. CASE WalkEnd
    BY <2>2, ChildWalks
  <2>3. CASE MountChanges
    <3>1. pc' = pc /\ pc = "bootctl" /\ child' = child
      BY <2>3 DEF MountChanges, svars
    <3>. QED
      BY <2>1, <3>1, ChildStays
  <2>4. CASE ~WalkEnd /\ ~MountChanges
    <3>1. /\ child' = child
          /\ pc \in {"mounts", "disk", "walk"} \/ pc' \in {"done", "mark"}
      BY <1>4, <2>4 DEF MountStep, FindMounts, MountFault, Snapshot, FindDisk, ProcessOne, Bootctl, MarkCurrent,
         SnapshotFails, FindDiskFails, UuidFails, ProcessFails, WalkFails, BootctlFails, BootctlCut,
         MountsOnly
    <3>2. child = NoChild \/ pc' \in {"done", "bootctl", "mark"}
      BY <3>1 DEF ChildInv
    <3>. QED
      BY <2>1, <3>1, <3>2, ChildStays
  <2>. QED
    BY <2>2, <2>3, <2>4
<1>5. CASE UNCHANGED vars
  <2>1. UNCHANGED <<machine, conf, loaded, child, pc>>
    BY <1>5 DEF vars, svars
  <2>2. child = NoChild \/ pc' \in {"done", "bootctl", "mark"}
    BY <2>1 DEF ChildInv
  <2>. QED
    BY <2>1, <2>2, ChildStays
<1>. QED
  BY <1>1, <1>2, <1>3, <1>4, <1>5, NextCases


-----------------------------------------------------------------------------
(* find-boot-mounts.                                                       *)

LEMMA SelectedNone ==
  ASSUME NEW S
  PROVE  Selected(<<>>, S) = <<>>
<1>1. PICK E : E = Nat
  OBVIOUS
<1>2. PICK s : s = <<>> /\ s \in Seq(E)
  <2>1. <<>> \in Seq(E)
    OBVIOUS
  <2>. QED
    BY <2>1
<1>3. Selected(s, S) \in Seq(E \cap S) /\ Len(Selected(s, S)) \in Nat /\ Len(Selected(s, S)) <= Len(s)
  <2>1. s \in Seq(E)
    BY <1>2
  <2>. QED
    BY <2>1, SelectedType
<1>4. Len(s) = 0
  BY <1>2
<1>5. Len(Selected(s, S)) = 0
  BY <1>3, <1>4
<1>6. Selected(s, S) = <<>>
  BY <1>3, <1>5
<1>. QED
  BY <1>2, <1>6

\* What is selected of one element more.
LEMMA SelectedNext ==
  ASSUME NEW E, NEW s \in Seq(E), NEW S, NEW n \in 1..Len(s)
  PROVE  Selected(SubSeq(s, 1, n), S) =
           IF s[n] \in S THEN Append(Selected(SubSeq(s, 1, n - 1), S), s[n])
                         ELSE Selected(SubSeq(s, 1, n - 1), S)
<1>1. PICK t : t = SubSeq(s, 1, n)
  OBVIOUS
<1>2. PICK u : u = SubSeq(s, 1, n - 1)
  OBVIOUS
<1>3. n \in Nat /\ n - 1 \in Nat /\ n \in 1..n /\ \A k \in 1..(n - 1) : k \in 1..n
  OBVIOUS
<1>4. t \in Seq(E) /\ Len(t) = n /\ \A k \in 1..n : t[k] = s[k]
  BY <1>1
<1>5. u \in Seq(E) /\ Len(u) = n - 1 /\ \A k \in 1..(n - 1) : u[k] = s[k]
  BY <1>2
<1>6. PICK g : IsSelection(g, E, t, S)
  BY <1>4, SelectedSteps
<1>7. PICK h : IsSelection(h, E, u, S)
  BY <1>5, SelectedSteps
<1>8. /\ g[0] = <<>> /\ Selected(t, S) = g[n]
      /\ \A k \in 1..n : g[k] = IF t[k] \in S THEN Append(g[k - 1], t[k]) ELSE g[k - 1]
  BY <1>4, <1>6 DEF IsSelection
<1>9. /\ h[0] = <<>> /\ Selected(u, S) = h[n - 1]
      /\ \A k \in 1..(n - 1) : h[k] = IF u[k] \in S THEN Append(h[k - 1], u[k]) ELSE h[k - 1]
  BY <1>5, <1>7 DEF IsSelection
<1>10. g[n - 1] = h[n - 1]
  <2>. DEFINE P == {k \in Nat : g[k] = h[k]}
  <2>1. 0 \in P
    BY <1>8, <1>9
  <2>2. ASSUME NEW k \in 1..(n - 1), k - 1 \in P PROVE k \in P
    <3>1. k \in Nat /\ k \in 1..n /\ t[k] = u[k] /\ g[k - 1] = h[k - 1]
      <4>1. k \in Nat /\ k \in 1..n
        BY <1>3
      <4>2. t[k] = u[k]
        BY <1>4, <1>5, <4>1
      <4>3. g[k - 1] = h[k - 1]
        BY <2>2
      <4>. QED
        BY <4>1, <4>2, <4>3
    <3>. QED
      BY <1>8, <1>9, <3>1
  <2>. HIDE DEF P
  <2>3. \A k \in 0..(n - 1) : k \in P
    BY <1>3, <2>1, <2>2, UpToInduction
  <2>4. n - 1 \in 0..(n - 1)
    BY <1>3
  <2>. QED
    BY <2>3, <2>4 DEF P
<1>11. g[n] = IF s[n] \in S THEN Append(h[n - 1], s[n]) ELSE h[n - 1]
  BY <1>3, <1>4, <1>8, <1>10
<1>. QED
  BY <1>1, <1>2, <1>8, <1>9, <1>11

\* What is mounted, one mount less.
LEMMA RemovedType ==
  ASSUME NEW E, NEW s \in Seq(E), NEW k \in DOMAIN s
  PROVE  RemoveAt(s, k) \in Seq(E)
<1>1. SubSeq(s, 1, k - 1) \in Seq(E) /\ SubSeq(s, k + 1, Len(s)) \in Seq(E)
  OBVIOUS
<1>. QED
  BY <1>1, ConcatSeq DEF RemoveAt

LEMMA MountIs ==
  ASSUME NEW m \in Mounts
  PROVE  /\ m.part \in Parts /\ m.kind \in {"plain", "bind", "auto", "system"}
         /\ m = [part |-> m.part, target |-> m.target, kind |-> m.kind]
         /\ m.target \in Targets /\ m.target # ""
BY MountAssumption DEF Targets

\* What is selected has every element that is in the set.
LEMMA SelectedHas ==
  ASSUME NEW E, NEW s \in Seq(E), NEW S, NEW i \in 1..Len(s), s[i] \in S
  PROVE  \E j \in DOMAIN Selected(s, S) : Selected(s, S)[j] = s[i]
<1>0. PICK g : IsSelection(g, E, s, S)
  BY SelectedSteps
<1>1. /\ g \in [0..Len(s) -> Seq(E)]
      /\ \A k \in 1..Len(s) : g[k] = IF s[k] \in S THEN Append(g[k - 1], s[k]) ELSE g[k - 1]
      /\ Selected(s, S) = g[Len(s)]
  BY <1>0 DEF IsSelection
<1>2. Len(s) \in Nat /\ i \in Nat /\ i <= Len(s) /\ 1 <= i
  OBVIOUS
<1>. DEFINE P == {n \in Nat : i <= n => \E j \in DOMAIN g[n] : g[n][j] = s[i]}
<1>3. 0 \in P
  BY <1>2
<1>4. ASSUME NEW n \in 1..Len(s), n - 1 \in P PROVE n \in P
  <2>1. /\ n \in Nat /\ n - 1 \in 0..Len(s) /\ g[n - 1] \in Seq(E) /\ s[n] \in E
        /\ i <= n - 1 => \E j \in DOMAIN g[n - 1] : g[n - 1][j] = s[i]
    <3>1. n \in Nat /\ n - 1 \in 0..Len(s)
      BY <1>2
    <3>. QED
      BY <1>1, <1>4, <3>1
  <2>2. PICK h \in Seq(E) : h = g[n - 1]
    BY <2>1
  <2>3. /\ Append(h, s[n])[Len(h) + 1] = s[n] /\ Len(h) + 1 \in DOMAIN Append(h, s[n])
        /\ \A j \in DOMAIN h : j \in DOMAIN Append(h, s[n]) /\ Append(h, s[n])[j] = h[j]
    BY <2>1, <2>2
  <2>4. CASE n = i
    BY <1>1, <2>1, <2>2, <2>3, <2>4
  <2>5. CASE n # i /\ i <= n
    <3>1. i <= n - 1
      BY <1>2, <2>1, <2>5
    <3>2. PICK j \in DOMAIN h : h[j] = s[i]
      BY <2>1, <2>2, <3>1
    <3>. QED
      BY <1>1, <2>1, <2>2, <2>3, <3>2
  <2>. QED
    BY <2>1, <2>4, <2>5
<1>. HIDE DEF P
<1>5. \A n \in 0..Len(s) : n \in P
  BY <1>2, <1>3, <1>4, UpToInduction
<1>6. Len(s) \in P
  BY <1>2, <1>5
<1>. QED
  BY <1>1, <1>2, <1>6 DEF P

\* Numbers of an interval have a least one.
LEMMA LeastIn ==
  ASSUME NEW n \in Nat, NEW S \in SUBSET (1..n), S # {}
  PROVE  \E k \in S : \A j \in 1..(k - 1) : j \notin S
<1>. SUFFICES ASSUME \A k \in S : \E j \in 1..(k - 1) : j \in S PROVE FALSE
  OBVIOUS
<1>. DEFINE P == {i \in Nat : \A j \in 1..i : j \notin S}
<1>1. 0 \in P
  OBVIOUS
<1>2. ASSUME NEW i \in 1..n, i - 1 \in P PROVE i \in P
  <2>1. i \in Nat /\ \A j \in 1..(i - 1) : j \notin S
    BY <1>2
  <2>2. i \notin S
    BY <2>1
  <2>3. \A j \in 1..i : j \in 1..(i - 1) \/ j = i
    BY <2>1
  <2>. QED
    BY <2>1, <2>2, <2>3
<1>. HIDE DEF P
<1>3. \A i \in 0..n : i \in P
  BY <1>1, <1>2, UpToInduction
<1>4. n \in P
  BY <1>3
<1>. QED
  BY <1>4 DEF P

\* No rows are right before the walk.
LEMMA RowsNone ==
  ASSUME NEW type, table' \in Seq(Mounts), entry' = 1
  PROVE  RowsInv(<<>>, type)'
<1>1. PICK t \in Seq(Mounts) : t = table'
  OBVIOUS
<1>2. SubSeq(t, 1, 1 - 1) = <<>>
  OBVIOUS
<1>3. AsMounts(<<>>) = <<>>
  BY DEF AsMounts
<1>4. AsMounts(<<>>) = Selected(SubSeq(t, 1, 1 - 1), OfType(type))
  BY <1>2, <1>3, SelectedNone
<1>. QED
  BY <1>1, <1>4 DEF RowsInv

\* Rows stay right where neither they nor what they are of change.
LEMMA RowsStay ==
  ASSUME MountInv, UNCHANGED <<machine, table, uuid, active, efis, xbootldrs>>,
         faults' = 0 => faults = 0 /\ entry' = entry
  PROVE  RowsInv(efis, "esp")' /\ RowsInv(xbootldrs, "xbootldr")'
<1>1. RowsInv(efis, "esp")'
  <2>1. RowsInv(efis, "esp")
    BY DEF MountInv
  <2>. QED
    BY <2>1 DEF RowsInv, Mounted, IsActive
<1>2. RowsInv(xbootldrs, "xbootldr")'
  <2>1. RowsInv(xbootldrs, "xbootldr")
    BY DEF MountInv
  <2>. QED
    BY <2>1 DEF RowsInv, Mounted, IsActive
<1>. QED
  BY <1>1, <1>2

\* What is marked stays right: before the end nothing is, at the end it is what
\* bootctl said.
LEMMA MarkStays ==
  ASSUME MountInv, UNCHANGED <<efis, xbootldrs>>,
         \/ pc # "done" /\ pc' # "done"
         \/ pc = "done" /\ pc' = "done" /\ said' = said
         \/ pc # "done" /\ said' = NoAnswer
  PROVE  MarkInv(efis, "esp")' /\ MarkInv(xbootldrs, "xbootldr")'
<1>1. MarkInv(efis, "esp") /\ MarkInv(xbootldrs, "xbootldr")
  BY DEF MountInv
<1>2. CASE pc' # "done"
  BY <1>1, <1>2 DEF MarkInv, MarkedRows
<1>3. CASE pc = "done" /\ pc' = "done" /\ said' = said
  <2>1. \A rows, type : ToMark(rows, type)' = ToMark(rows', type)
    BY <1>3 DEF ToMark
  <2>2. \A rows : MarkedRows(rows)' = MarkedRows(rows')
    BY DEF MarkedRows
  <2>. QED
    BY <1>1, <1>3, <2>1, <2>2 DEF MarkInv
<1>4. CASE pc # "done" /\ said' = NoAnswer
  <2>1. said'.esp.target = ""
    BY <1>4 DEF NoAnswer, NoRow
  <2>2. MarkedRows(efis)' = {} /\ MarkedRows(xbootldrs)' = {}
    BY <1>1, <1>4 DEF MarkInv, MarkedRows
  <2>3. ToMark(efis, "esp")' = {} /\ ToMark(xbootldrs, "xbootldr")' = {}
    BY <2>1 DEF ToMark
  <2>. QED
    BY <2>2, <2>3 DEF MarkInv
<1>. QED
  BY <1>2, <1>3, <1>4

LEMMA SaidStays ==
  ASSUME MountInv, UNCHANGED <<table, changes, said>> \/ said' = NoAnswer
  PROVE  SaidInv("esp")' /\ SaidInv("xbootldr")'
<1>1. CASE UNCHANGED <<table, changes, said>>
  BY <1>1 DEF MountInv, SaidInv, Mounted
<1>2. CASE said' = NoAnswer
  BY <1>2 DEF SaidInv, NoAnswer, NoRow
<1>. QED
  BY <1>1, <1>2

LEMMA NoAnswerType == NoAnswer \in [esp : AnswerRow, xbootldr : AnswerRow]
BY DEF NoAnswer, NoRow, AnswerRow, Targets

LEMMA MountInit ==
  ASSUME Init
  PROVE  MountInv
<1>1. /\ machine \in Machines /\ mounted = machine.table /\ changes = 0 /\ table = <<>> /\ entry = 1
      /\ uuid = NoPart /\ active = NoDisk /\ efis = <<>> /\ xbootldrs = <<>> /\ said = NoAnswer
      /\ pc = "start"
  BY DEF Init, StartInit
<1>2. mounted \in Seq(Mounts)
  BY <1>1, MachineIs
<1>3. PICK t : t = table /\ t \in Seq(Mounts)
  <2>1. <<>> \in Seq(Mounts)
    OBVIOUS
  <2>. QED
    BY <1>1, <2>1
<1>4. SubSeq(t, 1, 1 - 1) = <<>> /\ AsMounts(<<>>) = <<>> /\ MarkedRows(<<>>) = {}
  BY <1>3 DEF AsMounts, MarkedRows
<1>5. ASSUME NEW type PROVE RowsInv(<<>>, type) /\ MarkInv(<<>>, type)
  <2>1. AsMounts(<<>>) = Selected(SubSeq(t, 1, 1 - 1), OfType(type))
    BY <1>4, SelectedNone
  <2>. QED
    BY <1>1, <1>3, <1>4, <2>1 DEF RowsInv, MarkInv
<1>6. /\ RowsInv(efis, "esp") /\ RowsInv(xbootldrs, "xbootldr")
      /\ MarkInv(efis, "esp") /\ MarkInv(xbootldrs, "xbootldr")
  BY <1>1, <1>5
<1>7. SaidInv("esp") /\ SaidInv("xbootldr")
  BY <1>1 DEF SaidInv, NoAnswer, NoRow
<1>8. changes \in 0..MaxChanges
  BY <1>1, ChangeBound
<1>. QED
  BY <1>1, <1>2, <1>3, <1>6, <1>7, <1>8, NoAnswerType DEF MountInv, LoadPlaces


\* Steps of the other parts.
LEMMA MountStays ==
  ASSUME MountInv, UNCHANGED <<machine, mvars>>, MayFail, faults \in 0..MaxFaults,
         \/ pc' = pc
         \/ pc \in LoadPlaces \cup ToolPlaces /\ pc' \in LoadPlaces \cup ToolPlaces \cup {"mounts"}
         \/ pc \in LoadPlaces \cup ToolPlaces /\ pc' = "done" /\ prog = "tool"
  PROVE  MountInv'
<1>1. /\ UNCHANGED <<mounted, changes, table, entry, uuid, active, efis, xbootldrs, said>>
      /\ faults' = 0 => faults = 0
  BY FaultsBounded DEF mvars
<1>2. RowsInv(efis, "esp")' /\ RowsInv(xbootldrs, "xbootldr")'
  BY <1>1, RowsStay
<1>3. MarkInv(efis, "esp")' /\ MarkInv(xbootldrs, "xbootldr")'
  <2>1. pc \in LoadPlaces \cup ToolPlaces => pc # "done" /\ said' = NoAnswer
    BY <1>1 DEF MountInv, LoadPlaces, ToolPlaces
  <2>. QED
    BY <1>1, <2>1, MarkStays
<1>4. SaidInv("esp")' /\ SaidInv("xbootldr")'
  BY <1>1, SaidStays
<1>5. ActiveDisk(table)' = ActiveDisk(table) /\ prog' = prog /\ nvram' = nvram
  BY <1>1 DEF ActiveDisk, nvram, prog
<1>6. CASE pc' = pc
  BY <1>1, <1>2, <1>3, <1>4, <1>5, <1>6 DEF MountInv
<1>7. CASE pc \in LoadPlaces \cup ToolPlaces /\ pc' \in LoadPlaces \cup ToolPlaces \cup {"mounts"}
  BY <1>1, <1>2, <1>3, <1>4, <1>5, <1>7 DEF MountInv, LoadPlaces, ToolPlaces
<1>8. CASE pc \in LoadPlaces \cup ToolPlaces /\ pc' = "done" /\ prog = "tool"
  <2>1. table = <<>> /\ entry = 1 /\ active = NoDisk
    BY <1>8 DEF MountInv
  <2>2. entry' = Len(table') + 1
    BY <1>1, <2>1
  <2>. QED
    BY <1>1, <1>2, <1>3, <1>4, <1>5, <1>8, <2>1, <2>2 DEF MountInv, LoadPlaces, ToolPlaces
<1>. QED
  BY <1>6, <1>7, <1>8

\* The walk meets one mount more, and until something fails it has the row that
\* stands for it.
LEMMA RowsWalk ==
  ASSUME NEW rows, NEW type \in {"esp", "xbootldr"}, RowsInv(rows, type), MarkedRows(rows) = {},
         table \in Seq(Mounts), entry \in 1..Len(table),
         UNCHANGED <<machine, table, uuid, active>>, entry' = entry + 1,
         NEW r, RowOf(table[entry], r),
         faults' = 0 => faults = 0 /\ r = Row(table[entry]),
         NEW new,
         new = IF (IF SkipMount(table[entry]) THEN "other" ELSE PartType[table[entry].part]) = type
                 THEN Append(rows, r) ELSE rows
  PROVE  RowsInv(new, type)' /\ MarkedRows(new) = {}
<1>1. PICK t : t = table /\ t \in Seq(Mounts)
  OBVIOUS
<1>2. PICK e : e = entry /\ e \in 1..Len(t)
  BY <1>1
<1>3. PICK m : m = t[e] /\ m \in Mounts
  BY <1>1, <1>2
<1>4. /\ m.part \in Parts /\ m.kind \in {"plain", "bind", "auto", "system"}
      /\ m = [part |-> m.part, target |-> m.target, kind |-> m.kind]
      /\ m.target \in Targets
  BY <1>3, MountIs
<1>5. /\ r \in BootRow /\ r.part = m.part /\ ~r.current /\ r.target \in {m.target, ""}
      /\ r.active => IsActive(r.part)
  BY <1>1, <1>2, <1>3 DEF RowOf
<1>6. ASSUME faults' = 0 PROVE r.target = m.target /\ r.active = IsActive(r.part)
  <2>1. r = Row(m)
    BY <1>1, <1>2, <1>3, <1>6
  <2>. QED
    BY <2>1 DEF Row
<1>7. m \in OfType(type) <=> m.kind = "plain" /\ PartType[m.part] = type
  BY <1>3 DEF OfType
<1>8. new = IF m \in OfType(type) THEN Append(rows, r) ELSE rows
  BY <1>1, <1>2, <1>3, <1>7 DEF SkipMount
<1>9. /\ rows \in Seq(BootRow)
      /\ \A k \in DOMAIN rows :
           /\ PartType[rows[k].part] = type
           /\ rows[k].target # "" => Mounted(rows[k].part, rows[k].target)
           /\ rows[k].active => IsActive(rows[k].part)
           /\ faults = 0 => rows[k].active = IsActive(rows[k].part)
      /\ faults = 0 => AsMounts(rows) = Selected(SubSeq(t, 1, e - 1), OfType(type))
      /\ \A k \in DOMAIN rows : ~rows[k].current
  BY <1>1, <1>2 DEF RowsInv, MarkedRows
<1>10. e' = e /\ t' = t /\ entry' - 1 = e /\ DOMAIN t = 1..Len(t) /\ e \in 1..Len(t)
  BY <1>1, <1>2
<1>11. PICK n : n = Len(rows) /\ n \in Nat /\ DOMAIN rows = 1..n
  <2>1. rows \in Seq(BootRow)
    BY <1>9
  <2>. QED
    BY <2>1
<1>12. ASSUME m \in OfType(type)
       PROVE  /\ new \in Seq(BootRow) /\ DOMAIN new = 1..(n + 1) /\ new[n + 1] = r
              /\ \A k \in 1..n : new[k] = rows[k]
              /\ \A k \in 1..(n + 1) : k \in 1..n \/ k = n + 1
  <2>1. new = Append(rows, r)
    BY <1>8, <1>12
  <2>. QED
    <3>1. rows \in Seq(BootRow) /\ r \in BootRow
      BY <1>5, <1>9
    <3>. QED
      BY <1>11, <2>1, <3>1
<1>13. new \in Seq(BootRow)
  BY <1>8, <1>9, <1>12
<1>14. ASSUME NEW k \in DOMAIN new
       PROVE  /\ PartType[new[k].part] = type
              /\ new[k].target # "" => Mounted(new[k].part, new[k].target)
              /\ new[k].active => IsActive(new[k].part)
              /\ faults' = 0 => new[k].active = IsActive(new[k].part)
              /\ ~new[k].current
  <2>1. CASE m \in OfType(type)
    <3>1. CASE k \in 1..n
      BY <1>9, <1>11, <1>12, <2>1, <3>1
    <3>2. CASE k = n + 1
      <4>1. new[k] = r
        BY <1>12, <2>1, <3>2
      <4>2. PartType[r.part] = type /\ (r.active => IsActive(r.part)) /\ ~r.current
            /\ (faults' = 0 => r.active = IsActive(r.part))
        BY <1>5, <1>6, <1>7, <2>1
      <4>3. r.target # "" => Mounted(r.part, r.target)
        <5>1. e \in DOMAIN table /\ table[e].kind = "plain" /\ table[e].part = r.part
              /\ (r.target # "" => table[e].target = r.target)
          BY <1>1, <1>3, <1>5, <1>7, <1>10, <2>1
        <5>. QED
          BY <5>1 DEF Mounted
      <4>. QED
        BY <4>1, <4>2, <4>3
    <3>. QED
      BY <1>12, <2>1, <3>1, <3>2
  <2>2. CASE m \notin OfType(type)
    BY <1>8, <1>9, <2>2
  <2>. QED
    BY <2>1, <2>2
<1>15. ASSUME faults' = 0
       PROVE  AsMounts(new) = Selected(SubSeq(t, 1, e), OfType(type))
  <2>1. PICK before : before = Selected(SubSeq(t, 1, e - 1), OfType(type)) /\ before = AsMounts(rows)
    BY <1>9, <1>15
  <2>2. Selected(SubSeq(t, 1, e), OfType(type)) = IF m \in OfType(type) THEN Append(before, m) ELSE before
    BY <1>1, <1>2, <1>3, <2>1, SelectedNext
  <2>3. CASE m \in OfType(type)
    <3>1. m = [part |-> r.part, target |-> r.target, kind |-> "plain"]
      BY <1>4, <1>5, <1>6, <1>7, <1>15, <2>3
    <3>2. before = [k \in 1..n |-> [part |-> rows[k].part, target |-> rows[k].target, kind |-> "plain"]]
      BY <1>11, <2>1 DEF AsMounts
    <3>3. AsMounts(new) = [k \in 1..(n + 1) |->
                             [part |-> new[k].part, target |-> new[k].target, kind |-> "plain"]]
      BY <1>12, <2>3 DEF AsMounts
    <3>4. PICK w : w = Append(before, m)
      OBVIOUS
    <3>5. /\ DOMAIN w = 1..(n + 1) /\ w[n + 1] = m /\ \A k \in 1..n : w[k] = before[k]
          /\ w = [k \in 1..(n + 1) |-> w[k]]
      BY <1>11, <3>2, <3>4
    <3>6. \A k \in 1..(n + 1) : w[k] = [part |-> new[k].part, target |-> new[k].target, kind |-> "plain"]
      <4>1. ASSUME NEW k \in 1..n
            PROVE  w[k] = [part |-> new[k].part, target |-> new[k].target, kind |-> "plain"]
        BY <1>12, <2>3, <3>2, <3>5
      <4>2. w[n + 1] = [part |-> new[n + 1].part, target |-> new[n + 1].target, kind |-> "plain"]
        BY <1>12, <2>3, <3>1, <3>5
      <4>. QED
        BY <1>12, <2>3, <4>1, <4>2
    <3>7. AsMounts(new) = w
      BY <3>3, <3>5, <3>6
    <3>. QED
      BY <2>2, <2>3, <3>4, <3>7
  <2>4. CASE m \notin OfType(type)
    BY <1>8, <2>1, <2>2, <2>4
  <2>. QED
    BY <2>3, <2>4
<1>16. MarkedRows(new) = {}
  BY <1>14 DEF MarkedRows
<1>17. ASSUME NEW k \in DOMAIN new
       PROVE  (/\ PartType[new[k].part] = type
               /\ new[k].target # "" => Mounted(new[k].part, new[k].target)
               /\ new[k].active => IsActive(new[k].part)
               /\ faults = 0 => new[k].active = IsActive(new[k].part))'
  <2>1. \A part : IsActive(part)' = IsActive(part)
    BY DEF IsActive
  <2>2. \A part, target : Mounted(part, target)' = Mounted(part, target)
    BY DEF Mounted
  <2>. QED
    BY <1>14, <2>1, <2>2
<1>18. (faults = 0 => AsMounts(new) = Selected(SubSeq(table, 1, entry - 1), OfType(type)))'
  BY <1>1, <1>10, <1>15
<1>. QED
  BY <1>13, <1>16, <1>17, <1>18 DEF RowsInv


\* The rows marked are those bootctl named, and nothing else changes.
LEMMA RowsMarked ==
  ASSUME NEW rows, NEW type, RowsInv(rows, type), NEW target,
         UNCHANGED <<machine, table, entry, uuid, active, faults>>
  PROVE  /\ RowsInv(Marked(rows, target), type)'
         /\ MarkedRows(Marked(rows, target)) =
              {k \in DOMAIN rows : /\ target # "" /\ rows[k].target = target
                                   /\ \A j \in 1..(k - 1) : rows[j].target # target}
         /\ DOMAIN Marked(rows, target) = DOMAIN rows
         /\ \A k \in DOMAIN rows : Marked(rows, target)[k].target = rows[k].target
<1>1. PICK new : new = Marked(rows, target)
  OBVIOUS
<1>2. PICK n : n = Len(rows) /\ n \in Nat /\ DOMAIN rows = 1..n /\ rows \in [1..n -> BootRow]
  <2>1. rows \in Seq(BootRow)
    BY DEF RowsInv
  <2>. QED
    BY <2>1
<1>3. /\ new \in [1..n -> BootRow]
      /\ \A k \in 1..n : /\ new[k].part = rows[k].part /\ new[k].target = rows[k].target
                         /\ new[k].active = rows[k].active
                         /\ new[k].current = (/\ target # "" /\ rows[k].target = target
                                              /\ \A j \in 1..(k - 1) : rows[j].target # target)
  <2>1. new = [k \in 1..n |->
                 [rows[k] EXCEPT !.current = /\ target # "" /\ rows[k].target = target
                                             /\ \A j \in 1..(k - 1) : rows[j].target # target]]
    BY <1>1, <1>2 DEF Marked
  <2>2. ASSUME NEW k \in 1..n, NEW mark \in BOOLEAN
        PROVE  /\ [rows[k] EXCEPT !.current = mark] \in BootRow
               /\ [rows[k] EXCEPT !.current = mark].part = rows[k].part
               /\ [rows[k] EXCEPT !.current = mark].target = rows[k].target
               /\ [rows[k] EXCEPT !.current = mark].active = rows[k].active
               /\ [rows[k] EXCEPT !.current = mark].current = mark
    <3>1. rows[k] \in BootRow
      BY <1>2
    <3>. QED
      BY <3>1 DEF BootRow
  <2>3. ASSUME NEW k \in 1..n
        PROVE  (/\ target # "" /\ rows[k].target = target
                /\ \A j \in 1..(k - 1) : rows[j].target # target) \in BOOLEAN
    OBVIOUS
  <2>. QED
    BY <2>1, <2>2, <2>3
<1>4. DOMAIN new = 1..n /\ new \in Seq(BootRow)
  BY <1>2, <1>3, FunSeq
<1>5. MarkedRows(new) = {k \in DOMAIN rows : /\ target # "" /\ rows[k].target = target
                                             /\ \A j \in 1..(k - 1) : rows[j].target # target}
  BY <1>2, <1>3, <1>4 DEF MarkedRows
<1>6. AsMounts(new) = AsMounts(rows)
  BY <1>2, <1>3, <1>4 DEF AsMounts
<1>7. ASSUME NEW k \in DOMAIN new
      PROVE  (/\ PartType[new[k].part] = type
              /\ new[k].target # "" => Mounted(new[k].part, new[k].target)
              /\ new[k].active => IsActive(new[k].part)
              /\ faults = 0 => new[k].active = IsActive(new[k].part))'
  <2>1. /\ PartType[rows[k].part] = type
        /\ rows[k].target # "" => Mounted(rows[k].part, rows[k].target)
        /\ rows[k].active => IsActive(rows[k].part)
        /\ faults = 0 => rows[k].active = IsActive(rows[k].part)
    BY <1>2, <1>4 DEF RowsInv
  <2>2. \A part : IsActive(part)' = IsActive(part)
    BY DEF IsActive
  <2>3. \A part, mount : Mounted(part, mount)' = Mounted(part, mount)
    BY DEF Mounted
  <2>. QED
    BY <1>3, <1>4, <2>1, <2>2, <2>3
<1>8. (faults = 0 => AsMounts(new) = Selected(SubSeq(table, 1, entry - 1), OfType(type)))'
  BY <1>6 DEF RowsInv
<1>9. RowsInv(new, type)'
  BY <1>4, <1>7, <1>8 DEF RowsInv
<1>. QED
  BY <1>1, <1>2, <1>3, <1>4, <1>5, <1>9

LEMMA MountSnapshot ==
  ASSUME MountInv, Snapshot
  PROVE  MountInv'
<1>1. /\ pc = "mounts" /\ pc' = "disk" /\ table' = mounted /\ UNCHANGED <<machine, faults>>
      /\ UNCHANGED <<mounted, changes, entry, uuid, active, efis, xbootldrs, said>>
  BY DEF Snapshot, MountsOnly
<1>2. /\ mounted \in Seq(Mounts) /\ entry = 1 /\ active = NoDisk /\ efis = <<>> /\ xbootldrs = <<>>
      /\ said' = NoAnswer
  BY <1>1 DEF MountInv
<1>3. entry' \in 1..(Len(table') + 1)
  <2>1. Len(mounted) \in Nat
    BY <1>2
  <2>. QED
    BY <1>1, <1>2, <2>1
<1>4. RowsInv(<<>>, "esp")' /\ RowsInv(<<>>, "xbootldr")'
  BY <1>1, <1>2, RowsNone
<1>5. RowsInv(efis, "esp")' /\ RowsInv(xbootldrs, "xbootldr")'
  BY <1>1, <1>2, <1>4 DEF RowsInv
<1>6. MarkInv(efis, "esp")' /\ MarkInv(xbootldrs, "xbootldr")' /\ SaidInv("esp")' /\ SaidInv("xbootldr")'
  BY <1>1, <1>2, MarkStays, SaidStays
<1>7. nvram' = nvram
  BY <1>1 DEF nvram
<1>. QED
  BY <1>1, <1>2, <1>3, <1>5, <1>6, <1>7 DEF MountInv, LoadPlaces, ToolPlaces

LEMMA MountDisk ==
  ASSUME MountInv, FindDisk \/ FindDiskFails \/ UuidFails, faults \in 0..MaxFaults
  PROVE  MountInv'
<1>1. /\ pc = "disk" /\ pc' = "walk" /\ UNCHANGED machine
      /\ UNCHANGED <<mounted, changes, table, entry, efis, xbootldrs, said>>
      /\ active' \in {ActiveDisk(table), active} /\ uuid' \in {nvram, uuid}
      /\ faults' = 0 => active' = ActiveDisk(table) /\ uuid' = nvram
  <2>1. CASE FindDisk
    BY <2>1 DEF FindDisk, MountsOnly
  <2>2. CASE FindDiskFails \/ UuidFails
    <3>1. faults' # 0
      BY <2>2, FaultsBounded DEF FindDiskFails, UuidFails, MayFail
    <3>. QED
      BY <2>2, <3>1 DEF FindDiskFails, UuidFails, MountsOnly, mvars
  <2>. QED
    BY <2>1, <2>2
<1>2. entry = 1 /\ active = NoDisk /\ efis = <<>> /\ xbootldrs = <<>> /\ table \in Seq(Mounts)
      /\ uuid \in {nvram, NoPart}
  BY <1>1 DEF MountInv
<1>3. ActiveDisk(table)' = ActiveDisk(table) /\ nvram' = nvram
  BY <1>1 DEF ActiveDisk, nvram
<1>4. RowsInv(<<>>, "esp")' /\ RowsInv(<<>>, "xbootldr")'
  BY <1>1, <1>2, RowsNone
<1>5. RowsInv(efis, "esp")' /\ RowsInv(xbootldrs, "xbootldr")'
  BY <1>1, <1>2, <1>4 DEF RowsInv
<1>6. faults' = 0 => faults = 0
  BY <1>1, FaultsBounded DEF FindDisk, FindDiskFails, UuidFails, MayFail
<1>7. MarkInv(efis, "esp")' /\ MarkInv(xbootldrs, "xbootldr")' /\ SaidInv("esp")' /\ SaidInv("xbootldr")'
  BY <1>1, MarkStays, SaidStays
<1>. QED
  BY <1>1, <1>2, <1>3, <1>5, <1>6, <1>7 DEF MountInv, LoadPlaces, ToolPlaces

\* The row process_one_mount makes, or what a failure makes of it.
LEMMA RowIs ==
  ASSUME NEW m \in Mounts, NEW r, MadeOf(m, r)
  PROVE  RowOf(m, r)
<1>1. m.part \in Parts /\ m.target \in Targets
  BY MountIs
<1>2. PICK none \in Targets : none = ""
  BY DEF Targets
<1>3. PICK row : row = Row(m)
  OBVIOUS
<1>4. /\ row.part = m.part /\ row.target = m.target /\ row.active = IsActive(m.part) /\ row.current = FALSE
      /\ row \in BootRow
  BY <1>1, <1>3 DEF Row, IsActive, BootRow
<1>5. CASE r = row
  BY <1>4, <1>5 DEF RowOf
<1>6. CASE r = [row EXCEPT !.target = none]
  <2>1. r \in BootRow /\ r.part = row.part /\ r.target = none /\ r.active = row.active /\ r.current = row.current
    BY <1>2, <1>4, <1>6 DEF BootRow
  <2>. QED
    BY <1>2, <1>4, <2>1 DEF RowOf
<1>7. CASE r = [row EXCEPT !.active = FALSE]
  <2>1. r \in BootRow /\ r.part = row.part /\ r.target = row.target /\ r.active = FALSE /\ r.current = row.current
    BY <1>4, <1>7 DEF BootRow
  <2>. QED
    BY <1>4, <2>1 DEF RowOf
<1>. QED
  BY <1>2, <1>3, <1>5, <1>6, <1>7 DEF MadeOf

\* boot_mounts_add_mount with the row or what a failure makes of it.
LEMMA RowsAdded ==
  ASSUME MountInv, pc = "walk", entry \in 1..Len(table), entry' = entry + 1, NEW r,
         UNCHANGED <<machine, table, uuid, active>>, AddMount(table[entry], r),
         MadeOf(table[entry], r), faults' = 0 => faults = 0 /\ r = Row(table[entry])
  PROVE  /\ RowsInv(efis, "esp")' /\ RowsInv(xbootldrs, "xbootldr")'
         /\ MarkedRows(efis') = {} /\ MarkedRows(xbootldrs') = {}
<1>1. /\ table \in Seq(Mounts) /\ RowsInv(efis, "esp") /\ RowsInv(xbootldrs, "xbootldr")
      /\ MarkedRows(efis) = {} /\ MarkedRows(xbootldrs) = {}
  BY DEF MountInv, MarkInv
<1>2. table[entry] \in Mounts
  BY <1>1
<1>3. RowOf(table[entry], r)
  BY <1>2, RowIs
<1>4. ASSUME NEW rows, NEW new, NEW type \in {"esp", "xbootldr"}, RowsInv(rows, type), MarkedRows(rows) = {},
             new = IF (IF SkipMount(table[entry]) THEN "other" ELSE PartType[table[entry].part]) = type
                     THEN Append(rows, r) ELSE rows
      PROVE  RowsInv(new, type)' /\ MarkedRows(new) = {}
  BY <1>1, <1>3, <1>4, RowsWalk
<1>5. RowsInv(efis, "esp")' /\ MarkedRows(efis') = {}
  <2>1. PICK rows : rows = efis
    OBVIOUS
  <2>2. PICK new : new = efis'
    OBVIOUS
  <2>3. new = IF (IF SkipMount(table[entry]) THEN "other" ELSE PartType[table[entry].part]) = "esp"
                THEN Append(rows, r) ELSE rows
    BY <2>1, <2>2 DEF AddMount
  <2>4. PICK type \in {"esp", "xbootldr"} : type = "esp"
    OBVIOUS
  <2>5. RowsInv(new, type)' /\ MarkedRows(new) = {}
    BY <1>1, <1>4, <2>1, <2>3, <2>4
  <2>. QED
    BY <2>2, <2>4, <2>5 DEF RowsInv
<1>6. RowsInv(xbootldrs, "xbootldr")' /\ MarkedRows(xbootldrs') = {}
  <2>1. PICK rows : rows = xbootldrs
    OBVIOUS
  <2>2. PICK new : new = xbootldrs'
    OBVIOUS
  <2>3. new = IF (IF SkipMount(table[entry]) THEN "other" ELSE PartType[table[entry].part]) = "xbootldr"
                THEN Append(rows, r) ELSE rows
    BY <2>1, <2>2 DEF AddMount
  <2>4. PICK type \in {"esp", "xbootldr"} : type = "xbootldr"
    OBVIOUS
  <2>5. RowsInv(new, type)' /\ MarkedRows(new) = {}
    BY <1>1, <1>4, <2>1, <2>3, <2>4
  <2>. QED
    BY <2>2, <2>4, <2>5 DEF RowsInv
<1>. QED
  BY <1>5, <1>6

LEMMA MountWalk ==
  ASSUME SharedInv, MountInv, ProcessOne \/ ProcessFails
  PROVE  MountInv'
<1>1. /\ pc = "walk" /\ entry <= Len(table) /\ entry' = entry + 1 /\ UNCHANGED <<machine, pc>>
      /\ UNCHANGED <<mounted, changes, table, uuid, active, said>> /\ MayFail
  BY DEF ProcessOne, ProcessFails, MountsOnly, MayFail
<1>2. faults' = 0 => faults = 0
  BY <1>1, FaultsBounded DEF SharedInv
<1>3. entry \in 1..Len(table) /\ entry' \in 1..(Len(table) + 1) /\ table \in Seq(Mounts)
  <2>1. table \in Seq(Mounts) /\ entry \in 1..(Len(table) + 1)
    BY DEF MountInv
  <2>2. Len(table) \in Nat
    BY <2>1
  <2>. QED
    BY <1>1, <2>1, <2>2
<1>4. /\ RowsInv(efis, "esp")' /\ RowsInv(xbootldrs, "xbootldr")'
      /\ MarkedRows(efis') = {} /\ MarkedRows(xbootldrs') = {}
  <2>1. CASE ProcessOne
    <3>1. PICK r : r = Row(table[entry])
      OBVIOUS
    <3>2. AddMount(table[entry], r)
      BY <2>1, <3>1 DEF ProcessOne
    <3>. QED
      BY <1>1, <1>2, <1>3, <3>1, <3>2, RowsAdded DEF MadeOf
  <2>2. CASE ProcessFails
    <3>1. faults' # 0
      BY <1>1, <2>2, FaultsBounded DEF ProcessFails, SharedInv
    <3>2. CASE UNCHANGED <<efis, xbootldrs>>
      <4>1. RowsInv(efis, "esp")' /\ RowsInv(xbootldrs, "xbootldr")'
        BY <1>1, <3>1, <3>2, RowsStay
      <4>2. MarkedRows(efis) = {} /\ MarkedRows(xbootldrs) = {}
        BY <1>1 DEF MountInv, MarkInv
      <4>. QED
        BY <3>2, <4>1, <4>2
    <3>3. ASSUME AddMount(table[entry], [Row(table[entry]) EXCEPT !.target = ""])
          PROVE  /\ RowsInv(efis, "esp")' /\ RowsInv(xbootldrs, "xbootldr")'
                 /\ MarkedRows(efis') = {} /\ MarkedRows(xbootldrs') = {}
      <4>1. PICK r : r = [Row(table[entry]) EXCEPT !.target = ""]
        OBVIOUS
      <4>. QED
        BY <1>1, <1>2, <1>3, <3>1, <3>3, <4>1, RowsAdded DEF MadeOf
    <3>4. ASSUME AddMount(table[entry], [Row(table[entry]) EXCEPT !.active = FALSE])
          PROVE  /\ RowsInv(efis, "esp")' /\ RowsInv(xbootldrs, "xbootldr")'
                 /\ MarkedRows(efis') = {} /\ MarkedRows(xbootldrs') = {}
      <4>1. PICK r : r = [Row(table[entry]) EXCEPT !.active = FALSE]
        OBVIOUS
      <4>. QED
        BY <1>1, <1>2, <1>3, <3>1, <3>4, <4>1, RowsAdded DEF MadeOf
    <3>. QED
      BY <2>2, <3>2, <3>3, <3>4 DEF ProcessFails
  <2>. QED
    BY <2>1, <2>2
<1>5. MarkInv(efis, "esp")' /\ MarkInv(xbootldrs, "xbootldr")'
  BY <1>1, <1>4 DEF MarkInv, MarkedRows
<1>6. SaidInv("esp")' /\ SaidInv("xbootldr")'
  BY <1>1, SaidStays
<1>7. ActiveDisk(table)' = ActiveDisk(table) /\ prog' = prog /\ nvram' = nvram
  BY <1>1 DEF ActiveDisk, nvram, prog
<1>. QED
  BY <1>1, <1>2, <1>3, <1>4, <1>5, <1>6, <1>7 DEF MountInv, LoadPlaces, ToolPlaces

\* What bootctl may answer is a mount of the snapshot if no mount has changed.
LEMMA AnswersAre ==
  ASSUME MountInv, pc = "bootctl", NEW type, NEW row \in MayName(type)
  PROVE  /\ row \in AnswerRow
         /\ changes = 0 /\ row.part # NoPart => PartType[row.part] = type /\ Mounted(row.part, row.target)
<1>1. mounted \in Seq(Mounts) /\ (changes = 0 => mounted = table)
  BY DEF MountInv
<1>2. CASE row = NoRow
  BY <1>2, NoAnswerType DEF NoAnswer, NoRow
<1>3. CASE row # NoRow
  <2>1. PICK k \in DOMAIN mounted : /\ mounted[k].kind = "plain" /\ PartType[mounted[k].part] = type
                                    /\ row = [target |-> mounted[k].target, part |-> mounted[k].part]
    BY <1>3 DEF MayName
  <2>2. mounted[k] \in Mounts
    BY <1>1
  <2>3. mounted[k].part \in Parts /\ mounted[k].target \in Targets
    BY <2>2, MountIs
  <2>. QED
    BY <1>1, <2>1, <2>3 DEF AnswerRow, Mounted
<1>. QED
  BY <1>2, <1>3

LEMMA LeftOfRow ==
  ASSUME NEW of, NEW row \in LeftOf(of)
  PROVE  row \in AnswerRow /\ row.part = NoPart
<1>1. CASE row = NoRow
  BY <1>1 DEF NoRow, AnswerRow, Targets
<1>2. CASE row # NoRow
  <2>1. PICK c \in Cuts : row = [target |-> c[2], part |-> NoPart]
    BY <1>2 DEF LeftOf
  <2>2. c[2] \in Targets \cup {d[2] : d \in Cuts}
    OBVIOUS
  <2>. QED
    BY <2>1, <2>2 DEF AnswerRow
<1>. QED
  BY <1>1, <1>2

\* bootctl's answer, whole or cut.
LEMMA MountAnswers ==
  ASSUME SharedInv, MountInv, Bootctl \/ BootctlCut
  PROVE  MountInv'
<1>1. /\ UNCHANGED machine /\ UNCHANGED <<mounted, changes, table, entry, uuid, active, efis, xbootldrs>>
      /\ pc = "bootctl" /\ pc' = "mark" /\ MayFail
  BY DEF Bootctl, BootctlCut, MountsOnly, MayFail
<1>2. faults' = 0 => faults = 0
  BY <1>1, FaultsBounded DEF SharedInv
<1>3. PICK esp \in AnswerRow, xbootldr \in AnswerRow :
        /\ said' = [esp |-> esp, xbootldr |-> xbootldr]
        /\ esp \in MayName("esp") \/ esp.part = NoPart
        /\ xbootldr \in MayName("xbootldr") \/ xbootldr.part = NoPart
  <2>1. ASSUME NEW answer \in Answers
        PROVE  /\ answer = [esp |-> answer.esp, xbootldr |-> answer.xbootldr]
               /\ answer.esp \in MayName("esp") /\ answer.xbootldr \in MayName("xbootldr")
               /\ answer.esp \in AnswerRow /\ answer.xbootldr \in AnswerRow
    <3>1. /\ answer = [esp |-> answer.esp, xbootldr |-> answer.xbootldr]
          /\ answer.esp \in MayName("esp") /\ answer.xbootldr \in MayName("xbootldr")
      BY DEF Answers
    <3>. QED
      BY <1>1, <3>1, AnswersAre
  <2>2. NoRow \in AnswerRow /\ NoRow.part = NoPart
    BY DEF NoRow, AnswerRow, Targets
  <2>3. CASE Bootctl
    <3>1. said' \in Answers
      BY <2>3 DEF Bootctl
    <3>2. PICK answer \in Answers : said' = answer
      BY <3>1
    <3>. QED
      BY <2>1, <3>2
  <2>4. CASE BootctlCut
    <3>1. PICK answer \in Answers :
            \/ \E row \in LeftOf(answer.xbootldr) : said' = [answer EXCEPT !.xbootldr = row]
            \/ \E row \in LeftOf(answer.esp) : said' = [esp |-> row, xbootldr |-> NoRow]
            \/ said' = [answer EXCEPT !.esp = NoRow]
      BY <2>4 DEF BootctlCut
    <3>2. PICK e, x : /\ answer = [esp |-> e, xbootldr |-> x] /\ e \in AnswerRow /\ x \in AnswerRow
                      /\ e \in MayName("esp") /\ x \in MayName("xbootldr")
      BY <2>1
    <3>3. \/ \E row \in LeftOf(x) : said' = [esp |-> e, xbootldr |-> row]
          \/ \E row \in LeftOf(e) : said' = [esp |-> row, xbootldr |-> NoRow]
          \/ said' = [esp |-> NoRow, xbootldr |-> x]
      BY <3>1, <3>2
    <3>. QED
      BY <2>2, <3>2, <3>3, LeftOfRow
  <2>. QED
    BY <2>3, <2>4
<1>4. said' \in [esp : AnswerRow, xbootldr : AnswerRow]
  BY <1>3
<1>5. SaidInv("esp")' /\ SaidInv("xbootldr")'
  <2>1. said'["esp"] = esp /\ said'["xbootldr"] = xbootldr
    BY <1>3
  <2>2. \A part, target : Mounted(part, target)' = Mounted(part, target)
    BY <1>1 DEF Mounted
  <2>3. changes = 0 /\ esp.part # NoPart => PartType[esp.part] = "esp" /\ Mounted(esp.part, esp.target)
    BY <1>1, <1>3, AnswersAre
  <2>4. changes = 0 /\ xbootldr.part # NoPart =>
          PartType[xbootldr.part] = "xbootldr" /\ Mounted(xbootldr.part, xbootldr.target)
    BY <1>1, <1>3, AnswersAre
  <2>. QED
    BY <1>1, <2>1, <2>2, <2>3, <2>4 DEF SaidInv
<1>6. RowsInv(efis, "esp")' /\ RowsInv(xbootldrs, "xbootldr")'
  BY <1>1, <1>2, RowsStay
<1>7. MarkInv(efis, "esp")' /\ MarkInv(xbootldrs, "xbootldr")'
  BY <1>1, MarkStays
<1>8. ActiveDisk(table)' = ActiveDisk(table) /\ prog' = prog /\ nvram' = nvram
  BY <1>1 DEF ActiveDisk, nvram, prog
<1>. QED
  BY <1>1, <1>2, <1>4, <1>5, <1>6, <1>7, <1>8 DEF MountInv, LoadPlaces, ToolPlaces

\* What is marked.
LEMMA MountMarks ==
  ASSUME MountInv, MarkCurrent
  PROVE  MountInv'
<1>1. /\ UNCHANGED <<machine, faults>>
      /\ UNCHANGED <<mounted, changes, table, entry, uuid, active, said>> /\ pc = "mark" /\ pc' = "done"
  BY DEF MarkCurrent, MountsOnly
<1>2. /\ RowsInv(efis, "esp")' /\ RowsInv(xbootldrs, "xbootldr")'
      /\ MarkInv(efis, "esp")' /\ MarkInv(xbootldrs, "xbootldr")'
  <2>1. CASE said.esp.target = ""
    <3>1. UNCHANGED <<efis, xbootldrs>>
      BY <2>1 DEF MarkCurrent
    <3>2. RowsInv(efis, "esp")' /\ RowsInv(xbootldrs, "xbootldr")'
      BY <1>1, <3>1, RowsStay
    <3>3. MarkedRows(efis)' = {} /\ MarkedRows(xbootldrs)' = {}
      BY <1>1, <3>1 DEF MountInv, MarkInv, MarkedRows
    <3>4. ToMark(efis, "esp")' = {} /\ ToMark(xbootldrs, "xbootldr")' = {}
      BY <1>1, <2>1 DEF ToMark
    <3>. QED
      BY <3>2, <3>3, <3>4 DEF MarkInv
  <2>2. CASE said.esp.target # ""
    <3>1. PICK e, x, te, tx : e = efis /\ x = xbootldrs /\ te = said.esp.target /\ tx = said.xbootldr.target
      OBVIOUS
    <3>2. efis' = Marked(e, te) /\ xbootldrs' = Marked(x, tx)
      BY <2>2, <3>1 DEF MarkCurrent
    <3>3. RowsInv(e, "esp") /\ RowsInv(x, "xbootldr")
      BY <3>1 DEF MountInv
    <3>4. ASSUME NEW rows, NEW type \in {"esp", "xbootldr"}, RowsInv(rows, type),
                 NEW new, new = Marked(rows, said[type].target)
          PROVE  RowsInv(new, type)' /\ (MarkedRows(new) = ToMark(new, type)')
      <4>1. PICK target : target = said[type].target
        OBVIOUS
      <4>2. /\ RowsInv(Marked(rows, target), type)'
            /\ MarkedRows(Marked(rows, target)) =
                 {k \in DOMAIN rows : /\ target # "" /\ rows[k].target = target
                                      /\ \A j \in 1..(k - 1) : rows[j].target # target}
            /\ DOMAIN Marked(rows, target) = DOMAIN rows
            /\ \A k \in DOMAIN rows : Marked(rows, target)[k].target = rows[k].target
        BY <1>1, <3>4, RowsMarked
      <4>3. PICK n \in Nat : DOMAIN rows = 1..n
        <5>1. rows \in Seq(BootRow)
          BY <3>4 DEF RowsInv
        <5>. QED
          BY <5>1
      <4>4. \A k \in 1..n : \A j \in 1..(k - 1) : j \in 1..n
        OBVIOUS
      <4>5. PICK marked : marked = Marked(rows, target)
        OBVIOUS
      <4>6. /\ new = marked /\ RowsInv(marked, type)'
            /\ DOMAIN marked = 1..n /\ \A k \in 1..n : marked[k].target = rows[k].target
            /\ MarkedRows(marked) = {k \in 1..n : /\ target # "" /\ rows[k].target = target
                                                  /\ \A j \in 1..(k - 1) : rows[j].target # target}
        BY <3>4, <4>1, <4>2, <4>3, <4>5
      <4>7. MarkedRows(marked) = {k \in 1..n : /\ target # "" /\ marked[k].target = target
                                               /\ \A j \in 1..(k - 1) : marked[j].target # target}
        BY <4>4, <4>6
      <4>8. ToMark(marked, type)' = {k \in 1..n : /\ target # "" /\ marked[k].target = target
                                                  /\ \A j \in 1..(k - 1) : marked[j].target # target}
        BY <1>1, <2>2, <4>1, <4>6 DEF ToMark
      <4>. QED
        BY <4>6, <4>7, <4>8
    <3>5. PICK ne, nx : ne = Marked(e, te) /\ nx = Marked(x, tx)
      OBVIOUS
    <3>6. /\ RowsInv(ne, "esp")' /\ RowsInv(nx, "xbootldr")'
          /\ MarkedRows(ne) = ToMark(ne, "esp")' /\ MarkedRows(nx) = ToMark(nx, "xbootldr")'
      <4>1. ne = Marked(e, said["esp"].target) /\ nx = Marked(x, said["xbootldr"].target)
        BY <3>1, <3>5
      <4>2. PICK ty \in {"esp", "xbootldr"} : ty = "esp"
        OBVIOUS
      <4>3. PICK tz \in {"esp", "xbootldr"} : tz = "xbootldr"
        OBVIOUS
      <4>4. RowsInv(ne, ty)' /\ MarkedRows(ne) = ToMark(ne, ty)'
        BY <3>3, <3>4, <4>1, <4>2
      <4>5. RowsInv(nx, tz)' /\ MarkedRows(nx) = ToMark(nx, tz)'
        BY <3>3, <3>4, <4>1, <4>3
      <4>. QED
        BY <4>2, <4>3, <4>4, <4>5
    <3>7. efis' = ne /\ xbootldrs' = nx
      BY <3>2, <3>5
    <3>8. /\ RowsInv(efis, "esp")' /\ RowsInv(xbootldrs, "xbootldr")'
          /\ MarkedRows(efis') = ToMark(efis, "esp")'
          /\ MarkedRows(xbootldrs') = ToMark(xbootldrs, "xbootldr")'
      BY <3>6, <3>7 DEF RowsInv, ToMark
    <3>9. MarkInv(efis, "esp")' /\ MarkInv(xbootldrs, "xbootldr")'
      BY <1>1, <3>8 DEF MarkInv, MarkedRows
    <3>. QED
      BY <3>8, <3>9
  <2>. QED
    BY <2>1, <2>2
<1>3. SaidInv("esp")' /\ SaidInv("xbootldr")'
  BY <1>1, SaidStays
<1>4. ActiveDisk(table)' = ActiveDisk(table) /\ prog' = prog /\ nvram' = nvram
  BY <1>1 DEF ActiveDisk, nvram, prog
<1>. QED
  BY <1>1, <1>2, <1>3, <1>4 DEF MountInv, LoadPlaces, ToolPlaces

\* A failure that ends find_boot_mounts: the rows stay as they are.
LEMMA MountFails ==
  ASSUME SharedInv, MountInv, SnapshotFails \/ WalkFails \/ BootctlFails
  PROVE  MountInv'
<1>1. /\ UNCHANGED machine /\ UNCHANGED <<mounted, changes, table, entry, uuid, active, efis, xbootldrs, said>>
      /\ pc \in {"mounts", "walk", "bootctl"} /\ pc' = "done"
  BY DEF SnapshotFails, WalkFails, BootctlFails, MountsOnly, mvars
<1>2. faults' # 0
  BY FaultsBounded DEF SnapshotFails, WalkFails, BootctlFails, MayFail, SharedInv
<1>3. RowsInv(efis, "esp")' /\ RowsInv(xbootldrs, "xbootldr")'
  BY <1>1, <1>2, RowsStay
<1>4. MarkInv(efis, "esp")' /\ MarkInv(xbootldrs, "xbootldr")' /\ SaidInv("esp")' /\ SaidInv("xbootldr")'
  <2>1. said' = NoAnswer
    BY <1>1 DEF MountInv
  <2>. QED
    BY <1>1, <2>1, MarkStays, SaidStays
<1>5. ActiveDisk(table)' = ActiveDisk(table) /\ prog' = prog /\ nvram' = nvram
  BY <1>1 DEF ActiveDisk, nvram, prog
<1>. QED
  BY <1>1, <1>2, <1>3, <1>4, <1>5 DEF MountInv, LoadPlaces, ToolPlaces

LEMMA MountWalkEnd ==
  ASSUME SharedInv, MountInv, WalkEnd
  PROVE  MountInv'
<1>1. /\ UNCHANGED <<machine, faults>>
      /\ UNCHANGED <<mounted, changes, table, entry, uuid, active, efis, xbootldrs, said>>
      /\ pc = "walk" /\ pc' \in {"done", "bootctl"} /\ entry > Len(table)
  BY DEF WalkEnd, mvars
<1>2. RowsInv(efis, "esp")' /\ RowsInv(xbootldrs, "xbootldr")'
  BY <1>1, RowsStay
<1>3. MarkInv(efis, "esp")' /\ MarkInv(xbootldrs, "xbootldr")' /\ SaidInv("esp")' /\ SaidInv("xbootldr")'
  <2>1. said' = NoAnswer
    BY <1>1 DEF MountInv
  <2>. QED
    BY <1>1, <2>1, MarkStays, SaidStays
<1>4. ActiveDisk(table)' = ActiveDisk(table) /\ prog' = prog /\ nvram' = nvram
  BY <1>1 DEF ActiveDisk, nvram, prog
<1>5. entry = Len(table) + 1
  <2>1. entry \in 1..(Len(table) + 1) /\ Len(table) \in Nat
    BY DEF MountInv
  <2>. QED
    BY <1>1, <2>1
<1>. QED
  BY <1>1, <1>2, <1>3, <1>4, <1>5 DEF MountInv, LoadPlaces, ToolPlaces

LEMMA MountsChange ==
  ASSUME MountInv, MountChanges
  PROVE  MountInv'
<1>1. /\ UNCHANGED <<machine, faults, pc>>
      /\ UNCHANGED <<table, entry, uuid, active, efis, xbootldrs, said>>
      /\ pc = "bootctl" /\ changes < MaxChanges /\ changes' = changes + 1
  BY DEF MountChanges, svars
<1>2. changes' \in 0..MaxChanges /\ changes' # 0
  BY <1>1, ChangeBound DEF MountInv
<1>3. mounted' \in Seq(Mounts)
  <2>1. mounted \in Seq(Mounts)
    BY DEF MountInv
  <2>2. ASSUME NEW m \in Mounts PROVE Append(mounted, m) \in Seq(Mounts)
    BY <2>1
  <2>3. ASSUME NEW k \in DOMAIN mounted PROVE RemoveAt(mounted, k) \in Seq(Mounts)
    <3>1. PICK s : s = mounted /\ s \in Seq(Mounts)
      BY <2>1
    <3>2. PICK j : j = k /\ j \in DOMAIN s
      BY <3>1
    <3>3. RemoveAt(s, j) \in Seq(Mounts)
      BY <3>1, <3>2, RemovedType
    <3>. QED
      BY <3>1, <3>2, <3>3
  <2>. QED
    BY <2>2, <2>3 DEF MountChanges
<1>4. RowsInv(efis, "esp")' /\ RowsInv(xbootldrs, "xbootldr")'
  BY <1>1, RowsStay
<1>5. MarkInv(efis, "esp")' /\ MarkInv(xbootldrs, "xbootldr")' /\ SaidInv("esp")' /\ SaidInv("xbootldr")'
  <2>1. said' = NoAnswer
    BY <1>1 DEF MountInv
  <2>. QED
    BY <1>1, <2>1, MarkStays, SaidStays
<1>6. ActiveDisk(table)' = ActiveDisk(table) /\ prog' = prog /\ nvram' = nvram
  BY <1>1 DEF ActiveDisk, nvram, prog
<1>. QED
  BY <1>1, <1>2, <1>3, <1>4, <1>5, <1>6 DEF MountInv, LoadPlaces, ToolPlaces

LEMMA MountInvStep ==
  ASSUME SharedInv, MountInv, [Next]_vars
  PROVE  MountInv'
<1>1. CASE (ReadStep \/ LoadStep \/ ToolStep) /\ UNCHANGED mvars
  <2>1. UNCHANGED machine /\ MayFail
    BY <1>1, ReadFrame, LoadFrame, ToolFrame
  <2>2. CASE ReadStep
    BY <1>1, <2>1, <2>2, ReadFrame, MountStays DEF SharedInv
  <2>3. CASE LoadStep
    <3>1. pc \in LoadPlaces /\ pc' \in LoadPlaces \cup {"packages", "mounts"}
      BY <2>3 DEF LoadStep, LoadConfig, ConfigInit, AllPlugins, PluginsFound, ActivePlugins, PluginEnv,
         BaseEnv, InstallConf, ConfigInitFails, GlobFails, BaseEnvFails, LoadFails, LoadOver, LoadPlaces
    <3>2. pc \in LoadPlaces \cup ToolPlaces /\ pc' \in LoadPlaces \cup ToolPlaces \cup {"mounts"}
      BY <3>1 DEF ToolPlaces
    <3>3. UNCHANGED <<machine, mvars>> /\ faults \in 0..MaxFaults
      BY <1>1, <2>1 DEF SharedInv
    <3>. QED
      BY <2>1, <3>2, <3>3, MountStays
  <2>4. CASE ToolStep
    <3>1. pc \in ToolPlaces /\ pc' \in ToolPlaces \cup {"done"}
      BY <2>4 DEF ToolStep, ToolRun, Packages, ReadLine, ReadEnd, Split, NothingToRun, RunChild, ReadFails,
         ToolFails, Exit, ToolPlaces
    <3>2. prog = "tool"
      BY <3>1 DEF SharedInv
    <3>. QED
      BY <1>1, <2>1, <3>1, <3>2, MountStays DEF SharedInv
  <2>. QED
    BY <1>1, <2>2, <2>3, <2>4
<1>2. CASE MountStep
  <2>1. faults \in 0..MaxFaults
    BY DEF SharedInv
  <2>. QED
    BY <1>2, <2>1, MountSnapshot, MountDisk, MountWalk, MountWalkEnd, MountAnswers, MountMarks, MountFails,
       MountsChange
       DEF MountStep, FindMounts, MountFault
<1>3. CASE UNCHANGED vars
  <2>1. UNCHANGED <<machine, mvars, pc, faults>>
    BY <1>3 DEF vars, svars
  <2>. QED
    BY <2>1, MountStays DEF MayFail, SharedInv
<1>. QED
  BY <1>1, <1>2, <1>3, NextCases


\* The disk of the active ESP: that of a mount of it.
LEMMA ActiveDiskIs ==
  ASSUME table \in Seq(Mounts)
  PROVE  /\ ActiveDisk(table) \in {DiskOf[p] : p \in Parts} \cup {NoDisk}
         /\ ActiveDisk(table) # NoDisk =>
              /\ nvram # NoPart /\ ActiveDisk(table) = DiskOf[nvram]
              /\ \E k \in DOMAIN table : table[k].kind = "plain" /\ table[k].part = nvram
         /\ (\E k \in DOMAIN table : table[k].kind = "plain" /\ table[k].part = nvram) =>
              ActiveDisk(table) = DiskOf[nvram]
<1>1. PICK hits : hits = {k \in DOMAIN table : ~SkipMount(table[k]) /\ table[k].part = nvram}
  OBVIOUS
<1>2. ActiveDisk(table) = IF hits = {} THEN NoDisk ELSE DiskOf[nvram]
  BY <1>1 DEF ActiveDisk
<1>3. hits = {k \in DOMAIN table : table[k].kind = "plain" /\ table[k].part = nvram}
  BY <1>1 DEF SkipMount
<1>4. \A k \in DOMAIN table : table[k] \in Mounts
  OBVIOUS
<1>5. hits # {} => nvram \in Parts /\ nvram # NoPart
  <2>1. ASSUME NEW k \in hits PROVE nvram \in Parts /\ nvram # NoPart
    <3>1. table[k] \in Mounts /\ table[k].part = nvram
      BY <1>3, <1>4
    <3>. QED
      BY <3>1, MountIs, MountAssumption
  <2>. QED
    BY <2>1
<1>. QED
  BY <1>2, <1>3, <1>5

\* A row of a type stands for each of its mounts, and the first at a mount point
\* is found.
LEMMA MarkExists ==
  ASSUME NEW rows, NEW type, RowsInv(rows, type), table \in Seq(Mounts), faults = 0,
         entry = Len(table) + 1, EspNamed, NEW part, PartType[part] = type,
         Mounted(part, said[type].target)
  PROVE  ToMark(rows, type) # {}
<1>1. PICK target : target = said[type].target
  OBVIOUS
<1>2. PICK i \in DOMAIN table : table[i].kind = "plain" /\ table[i].part = part /\ table[i].target = target
  BY <1>1 DEF Mounted
<1>3. table[i] \in Mounts /\ i \in 1..Len(table) /\ Len(table) \in Nat
  OBVIOUS
<1>4. table[i] \in OfType(type) /\ target # ""
  BY <1>2, <1>3, MountIs DEF OfType
<1>5. PICK j \in DOMAIN Selected(table, OfType(type)) : Selected(table, OfType(type))[j] = table[i]
  <2>. DEFINE T == OfType(type)
  <2>1. table[i] \in T
    BY <1>4
  <2>2. table \in Seq(Mounts) /\ i \in 1..Len(table)
    BY <1>3
  <2>. HIDE DEF T
  <2>3. \E j \in DOMAIN Selected(table, T) : Selected(table, T)[j] = table[i]
    BY <2>1, <2>2, SelectedHas, Zenon
  <2>. QED
    BY <2>3 DEF T
<1>6. SubSeq(table, 1, entry - 1) = table
  <2>1. PICK m \in Nat : m = Len(table)
    BY <1>3
  <2>2. entry - 1 = m
    BY <2>1
  <2>3. SubSeq(table, 1, m) = table
    BY <2>1
  <2>. QED
    BY <2>2, <2>3
<1>7. AsMounts(rows) = Selected(table, OfType(type))
  BY <1>6 DEF RowsInv
<1>8. PICK n \in Nat : DOMAIN rows = 1..n
  <2>1. rows \in Seq(BootRow)
    BY DEF RowsInv
  <2>. QED
    BY <2>1
<1>9. j \in 1..n /\ rows[j].target = target
  <2>1. j \in DOMAIN rows /\ AsMounts(rows)[j].target = rows[j].target
    BY <1>5, <1>7 DEF AsMounts
  <2>. QED
    BY <1>2, <1>5, <1>7, <1>8, <2>1
<1>. DEFINE S == {k \in 1..n : rows[k].target = target}
<1>10. S \in SUBSET (1..n) /\ S # {}
  BY <1>9
<1>11. PICK k \in S : \A h \in 1..(k - 1) : h \notin S
  <2>. HIDE DEF S
  <2>. QED
    BY <1>8, <1>10, LeastIn
<1>12. \A h \in 1..(k - 1) : rows[h].target # target
  <2>1. \A h \in 1..(k - 1) : h \in 1..n
    BY <1>8, <1>11
  <2>. QED
    BY <1>11, <2>1
<1>13. k \in DOMAIN rows /\ rows[k].target = target
  BY <1>8, <1>11
<1>. QED
  BY <1>1, <1>4, <1>12, <1>13 DEF ToMark, EspNamed

\* The row that is marked is the right one.
LEMMA CurrentIs ==
  ASSUME NEW rows, NEW type, RowsInv(rows, type), MarkInv(rows, type), SaidInv(type), pc = "done",
         table \in Seq(Mounts), faults = 0 => entry = Len(table) + 1
  PROVE  CurrentRight(rows, type)
<1>1. MarkedRows(rows) = ToMark(rows, type)
  BY DEF MarkInv
<1>2. PICK n \in Nat : DOMAIN rows = 1..n
  <2>1. rows \in Seq(BootRow)
    BY DEF RowsInv
  <2>. QED
    BY <2>1
<1>3. ASSUME NEW k \in MarkedRows(rows)
      PROVE  /\ k \in 1..n /\ said.esp.target # "" /\ said[type].target # ""
             /\ rows[k].target = said[type].target
             /\ \A j \in 1..(k - 1) : rows[j].target # said[type].target
  BY <1>1, <1>2 DEF ToMark
<1>4. ASSUME NEW k \in MarkedRows(rows), NEW j \in 1..n, rows[j].target = said[type].target
      PROVE  k <= j
  <2>1. SUFFICES ASSUME ~(k <= j) PROVE FALSE
    OBVIOUS
  <2>2. k \in 1..n
    BY <1>3
  <2>3. j \in 1..(k - 1)
    BY <1>2, <2>1, <2>2
  <2>. QED
    BY <1>3, <1>4, <2>3
<1>5. ASSUME NEW k \in MarkedRows(rows)
      PROVE  MarkedRows(rows) = {k}
  <2>1. SUFFICES ASSUME NEW j \in MarkedRows(rows) PROVE j = k
    OBVIOUS
  <2>2. j \in 1..n /\ k \in 1..n
    BY <1>3
  <2>3. j <= k /\ k <= j
    BY <1>3, <1>4, <2>2
  <2>. QED
    BY <1>2, <2>2, <2>3
<1>6. ASSUME changes = 0, said.esp.target # "", said[type].part # NoPart
      PROVE  PartType[said[type].part] = type /\ Mounted(said[type].part, said[type].target)
  BY <1>6 DEF SaidInv
<1>7. ASSUME changes = 0, said.esp.target # "", said[type].part # NoPart, faults = 0
      PROVE  MarkedRows(rows) # {}
  <2>1. PICK part : part = said[type].part
    OBVIOUS
  <2>. QED
    BY <1>1, <1>6, <1>7, <2>1, MarkExists DEF EspNamed
<1>8. ASSUME changes = 0, said.esp.target # "", said[type].part # NoPart,
             \A i, j \in There(type) : i = j, NEW k \in MarkedRows(rows)
      PROVE  rows[k].part = said[type].part
  <2>1. PICK i \in DOMAIN table :
          table[i].kind = "plain" /\ table[i].part = said[type].part /\ table[i].target = said[type].target
    BY <1>6, <1>8 DEF Mounted
  <2>2. Mounted(rows[k].part, rows[k].target) /\ PartType[rows[k].part] = type
    BY <1>2, <1>3 DEF RowsInv
  <2>3. PICK j \in DOMAIN table :
          table[j].kind = "plain" /\ table[j].part = rows[k].part /\ table[j].target = said[type].target
    BY <1>3, <2>2 DEF Mounted
  <2>4. i \in There(type) /\ j \in There(type)
    BY <1>6, <1>8, <2>1, <2>2, <2>3 DEF There
  <2>. QED
    BY <1>8, <2>1, <2>3, <2>4
<1>. QED
  BY <1>2, <1>3, <1>4, <1>5, <1>7, <1>8 DEF CurrentRight

LEMMA MountsAreRight ==
  ASSUME MountInv
  PROVE  MountsRight
<1>. SUFFICES ASSUME prog = "mounts", pc = "done"
             PROVE  /\ faults = 0 => RowsAre(efis, "esp") /\ RowsAre(xbootldrs, "xbootldr")
                    /\ \A k \in DOMAIN efis :
                         /\ efis[k].active => efis[k].part = nvram
                         /\ faults = 0 /\ efis[k].part = nvram => efis[k].active
                    /\ \A k \in DOMAIN xbootldrs :
                         /\ xbootldrs[k].active => BootedFrom(xbootldrs[k].part)
                         /\ faults = 0 /\ BootedFrom(xbootldrs[k].part) => xbootldrs[k].active
                    /\ CurrentRight(efis, "esp") /\ CurrentRight(xbootldrs, "xbootldr")
  BY DEF MountsRight
<1>1. /\ RowsInv(efis, "esp") /\ RowsInv(xbootldrs, "xbootldr")
      /\ MarkInv(efis, "esp") /\ MarkInv(xbootldrs, "xbootldr")
      /\ SaidInv("esp") /\ SaidInv("xbootldr")
      /\ table \in Seq(Mounts) /\ active \in {ActiveDisk(table), NoDisk} /\ uuid \in {nvram, NoPart}
      /\ faults = 0 => entry = Len(table) + 1 /\ active = ActiveDisk(table) /\ uuid = nvram
  BY DEF MountInv, LoadPlaces, ToolPlaces
<1>2. ASSUME faults = 0 PROVE RowsAre(efis, "esp") /\ RowsAre(xbootldrs, "xbootldr")
  <2>1. SubSeq(table, 1, entry - 1) = table
    <3>1. PICK n \in Nat : n = Len(table)
      BY <1>1
    <3>2. entry - 1 = n
      BY <1>1, <1>2, <3>1
    <3>3. SubSeq(table, 1, n) = table
      BY <1>1, <3>1
    <3>. QED
      BY <3>2, <3>3
  <2>2. AsMounts(efis) = Selected(table, OfType("esp"))
    BY <1>1, <1>2, <2>1 DEF RowsInv
  <2>3. AsMounts(xbootldrs) = Selected(table, OfType("xbootldr"))
    BY <1>1, <1>2, <2>1 DEF RowsInv
  <2>. QED
    BY <2>2, <2>3 DEF RowsAre, AsMounts, OfType
<1>3. ASSUME NEW k \in DOMAIN efis
      PROVE  /\ efis[k].active => efis[k].part = nvram
             /\ faults = 0 /\ efis[k].part = nvram => efis[k].active
  <2>1. /\ PartType[efis[k].part] = "esp" /\ (efis[k].active => IsActive(efis[k].part))
        /\ faults = 0 => efis[k].active = IsActive(efis[k].part)
    BY <1>1 DEF RowsInv
  <2>2. efis[k].part # NoPart
    <3>1. efis \in Seq(BootRow)
      BY <1>1 DEF RowsInv
    <3>2. efis[k] \in BootRow
      BY <3>1
    <3>. QED
      BY <3>2, MountAssumption DEF BootRow
  <2>. QED
    BY <1>1, <2>1, <2>2 DEF IsActive
<1>4. ASSUME NEW k \in DOMAIN xbootldrs
      PROVE  /\ xbootldrs[k].active => BootedFrom(xbootldrs[k].part)
             /\ faults = 0 /\ BootedFrom(xbootldrs[k].part) => xbootldrs[k].active
  <2>1. /\ PartType[xbootldrs[k].part] = "xbootldr"
        /\ xbootldrs[k].active => IsActive(xbootldrs[k].part)
        /\ faults = 0 => xbootldrs[k].active = IsActive(xbootldrs[k].part)
    BY <1>1 DEF RowsInv
  <2>2. IsActive(xbootldrs[k].part) <=> active # NoDisk /\ DiskOf[xbootldrs[k].part] = active
    BY <2>1 DEF IsActive
  <2>. QED
    BY <1>1, <2>1, <2>2, ActiveDiskIs DEF BootedFrom
<1>5. CurrentRight(efis, "esp") /\ CurrentRight(xbootldrs, "xbootldr")
  BY <1>1, CurrentIs
<1>. QED
  BY <1>2, <1>3, <1>4, <1>5


-----------------------------------------------------------------------------
(* What always holds of a start, whichever program it is.                  *)

LEMMA InvInit ==
  ASSUME Init
  PROVE  Inv
BY SharedInit, ConfInit, TrigInit, ChildInit, MountInit DEF Inv

LEMMA InvStep ==
  ASSUME Inv, [Next]_vars
  PROVE  Inv'
<1>1. SharedInv /\ ConfInv /\ TrigInv /\ ChildInv /\ MountInv
  BY DEF Inv
<1>2. conf.root \in BOOLEAN
  BY <1>1 DEF ConfInv, ConfType
<1>. QED
  BY <1>1, <1>2, SharedStep, ConfStep, TrigStep, ChildStep, MountInvStep DEF Inv

LEMMA TypesAreRight ==
  ASSUME Inv
  PROVE  TypeOK
<1>1. SharedInv /\ ConfInv /\ TrigInv /\ ChildInv /\ MountInv
  BY DEF Inv
<1>2. /\ conf.skips \in Arrays /\ conf.all \in Arrays /\ conf.active \in Arrays
      /\ conf.plugins \in Arrays /\ conf.base \in Arrays
      /\ conf.root \in BOOLEAN /\ conf.verb \in {0, 1, 3}
  BY <1>1, UnusedArrays DEF ConfInv, ConfType
<1>3. trig \in Arrays /\ trigs.pkgs \in Arrays /\ trigs.paths \in Arrays
  BY <1>1, UnusedArrays DEF TrigInv
<1>4. child.env \in Arrays /\ child.argv \in Arrays
  BY <1>1, UnusedArrays DEF ChildInv
<1>5. \A a \in {conf.skips, conf.all, conf.active, conf.plugins, conf.base, trig,
                trigs.pkgs, trigs.paths, child.env, child.argv} : IsArr(a)
  BY <1>2, <1>3, <1>4, ArraysAre
<1>6. conf.verb \in 0..3
  BY <1>2
<1>7. StartTypeOK
  BY <1>1, <1>2, <1>5, <1>6 DEF SharedInv, Places, StartTypeOK
<1>8. pc \in StartPlaces \cup {"disk", "walk", "bootctl", "mark"}
  BY <1>1 DEF SharedInv, LoadPlaces, ToolPlaces, MountPlaces, StartPlaces
<1>9. active \in {DiskOf[p] : p \in Parts} \cup {NoDisk}
  BY <1>1, ActiveDiskIs DEF MountInv
<1>10. efis \in Rows /\ xbootldrs \in Rows
  BY <1>1 DEF MountInv, RowsInv, BootRow, Rows
<1>11. uuid \in Parts \cup {NoPart}
  <2>1. nvram \in Parts \cup {NoPart}
    BY <1>1, MachineIs DEF SharedInv, nvram
  <2>. QED
    BY <1>1, <2>1 DEF MountInv
<1>. QED
  BY <1>1, <1>7, <1>8, <1>9, <1>10, <1>11 DEF MountInv, TypeOK

LEMMA PluginsAreRight ==
  ASSUME ConfInv
  PROVE  PluginsRight
<1>1. SUFFICES ASSUME conf.plugins.rows # <<>>
               PROVE  /\ conf.plugins.rows = <<ListText>>
                      /\ Found \in MayFind
                      /\ IsPrefix(conf.skips.rows, Skips(conf.seen))
                      /\ faults = 0 => /\ Found = machine.usr \o machine.etc
                                       /\ conf.skips.rows = Skips(conf.seen)
  <2>1. Found \in MayFind =>
          \E usr \in Sublists(machine.usr), etc \in Sublists(machine.etc) : conf.all.rows = usr \o etc
    BY DEF MayFind, Found
  <2>2. ListText = PluginsVar \o FlattenSeq([k \in DOMAIN Wanted |-> Wanted[k] \o <<" ">>])
    BY DEF ListText
  <2>. QED
    BY <2>1, <2>2 DEF PluginsRight, Wanted, Found
<1>2. conf.plugins # EmptyArr
  BY <1>1, EmptyArrType
<1>3. pc \notin {"start", "config"}
  BY <1>2 DEF ConfInv
<1>. QED
  BY <1>2, <1>3 DEF ConfInv, FoundInv

\* All variables have their types: no array has a row outside its memory, in
\* whichever program and after whatever fails.
THEOREM TypesAlways == Spec => []TypeOK
<1>1. Init => Inv
  BY InvInit
<1>2. Inv /\ [Next]_vars => Inv'
  BY InvStep
<1>3. Inv => TypeOK
  BY TypesAreRight
<1>. QED
  BY <1>1, <1>2, <1>3, PTL DEF Spec

\* The list kernel-install is given names every plugin found that the skip list
\* read does not name, whole and in order, however many there are and however
\* long their names, or there is no list.  What is found are all the plugins and
\* what is read is all of the skip list of the config.yaml of the load, unless
\* glob or the memory for a skip has failed unnoticed.
THEOREM PluginsRightAlways == Spec => []PluginsRight
<1>1. Init => Inv
  BY InvInit
<1>2. Inv /\ [Next]_vars => Inv'
  BY InvStep
<1>3. Inv => PluginsRight
  BY PluginsAreRight DEF Inv
<1>. QED
  BY <1>1, <1>2, <1>3, PTL DEF Spec

\* Every trigger line pacman writes, however many chunks of memory they take,
\* is split into the packages or the paths, in order, none twice, before
\* anything is run; a run whose reading failed goes no further.
THEOREM TriggersRightAlways == Spec => []TriggersRight
<1>1. Init => Inv
  BY InvInit
<1>2. Inv /\ [Next]_vars => Inv'
  BY InvStep
<1>3. Inv => TriggersRight
  BY DEF Inv, TrigInv
<1>. QED
  BY <1>1, <1>2, <1>3, PTL DEF Spec

\* A child reads, up to the first row without a string, all of the environment
\* load_config made and all of its arguments; only what find-boot-mounts runs
\* after a load that failed may have an environment without an end.
THEOREM ChildGetsAlways == Spec => []ChildGets
<1>1. Init => Inv
  BY InvInit
<1>2. Inv /\ [Next]_vars => Inv'
  BY InvStep
<1>3. Inv => ChildGets
  BY DEF Inv, ChildInv
<1>. QED
  BY <1>1, <1>2, <1>3, PTL DEF Spec

\* find-boot-mounts prints, for any mount table: until something fails a row
\* for every boot partition of the snapshot; no ESP active but by the firmware's
\* word and no XBOOTLDR but by the disk of the active ESP, and until something
\* fails all of those; and at most one current row of a type, the first at the
\* mount point bootctl named: until something fails or a mount changes there is
\* one if bootctl named one, of the partition bootctl means unless two of the
\* type are mounted there.
THEOREM MountsRightAlways == Spec => []MountsRight
<1>1. Init => Inv
  BY InvInit
<1>2. Inv /\ [Next]_vars => Inv'
  BY InvStep
<1>3. Inv => MountsRight
  BY MountsAreRight DEF Inv
<1>. QED
  BY <1>1, <1>2, <1>3, PTL DEF Spec

-----------------------------------------------------------------------------
(* config.yaml.                                                            *)

\* An empty config.yaml is being filled by a start whose open file it is.
FillInv ==
  /\ faults \in Nat
  /\ look \in [Starts -> Places] /\ live \subseteq Starts
  /\ \A p \in live : look[p] = "fill"
  /\ faults = 0 /\ file = "empty" => live # {}

LEMMA FillInit ==
  ASSUME \A m \in Machines : m.file # "empty", Init
  PROVE  FillInv
BY DEF Init, StartInit, FillInv, Places, Starts

\* The steps of one start in read_config_file.
LEMMA FillRead ==
  ASSUME FillInv, NEW p \in Starts,
         Look(p) \/ OpenCopy(p) \/ Fill(p) \/ Load(p) \/ CopyFails(p)
  PROVE  FillInv'
<1>0. Starts' = Starts /\ faults \in Nat /\ look \in [Starts -> Places] /\ live \subseteq Starts
  BY DEF FillInv, Starts, Look, OpenCopy, Fill, Load, CopyFails
<1>1. CASE Look(p)
  <2>1. \E c \in {"done", "copy", "load"} : look' = [look EXCEPT ![p] = c]
    BY <1>1 DEF Look
  <2>2. look[p] = "look" /\ UNCHANGED <<file, live, faults>>
    BY <1>1 DEF Look
  <2>. QED
    BY <1>0, <2>1, <2>2 DEF FillInv, Places
<1>2. CASE OpenCopy(p)
  BY <1>0, <1>2 DEF OpenCopy, FillInv, Places
<1>3. CASE Fill(p)
  BY <1>0, <1>3 DEF Fill, FillInv, Places
<1>4. CASE Load(p)
  BY <1>0, <1>4 DEF Load, FillInv, Places
<1>5. CASE CopyFails(p)
  <2>1. faults' # 0 /\ faults' \in Nat
    BY <1>0, <1>5 DEF CopyFails, Fault
  <2>. QED
    BY <1>0, <1>5, <2>1 DEF CopyFails, FillInv, Places
<1>. QED
  BY <1>1, <1>2, <1>3, <1>4, <1>5

\* All else leaves config.yaml and those who copy to it alone; an edit puts a
\* file with something in it in place.
LEMMA FillRest ==
  ASSUME FillInv, [Next]_vars,
         ~(\E p \in Starts : Look(p) \/ OpenCopy(p) \/ Fill(p) \/ Load(p) \/ CopyFails(p))
  PROVE  FillInv'
<1>1. CASE AdminEdits
  BY <1>1 DEF AdminEdits, FillInv, Places, Starts
<1>2. CASE LoadCut
  <2>1. look[Self] = "load" /\ look' = [look EXCEPT ![Self] = "done"] /\ Self \in Starts
        /\ faults' = faults + 1 /\ UNCHANGED <<machine, file, live>>
    BY <1>2 DEF LoadCut, Fault, Starts
  <2>. QED
    BY <2>1 DEF FillInv, Places, Starts
<1>3. ASSUME UNCHANGED <<machine, file, look, live>>, faults' \in {faults, faults + 1}
      PROVE  FillInv'
  BY <1>3 DEF FillInv, Places, Starts
<1>4. CASE LoadConfig
  <2>1. UNCHANGED <<machine, file, look, live, faults>>
    BY <1>4 DEF LoadConfig, ConfigInit, AllPlugins, PluginsFound, ActivePlugins, PluginEnv, BaseEnv,
       InstallConf, MemoryOnly, fileVars
  <2>. QED
    BY <1>3, <2>1
<1>5. CASE ToolRun
  <2>1. UNCHANGED <<machine, file, look, live, faults>>
    BY <1>5 DEF ToolRun, Packages, ReadLine, ReadEnd, Split, NothingToRun, RunChild, ToolOnly, fileVars
  <2>. QED
    BY <1>3, <2>1
<1>6. CASE ConfigInitFails \/ GlobFails \/ BaseEnvFails \/ LoadFails \/ ReadFails \/ ToolFails
  <2>1. UNCHANGED <<machine, file, look, live>> /\ faults' = faults + 1
    BY <1>6 DEF ConfigInitFails, GlobFails, PluginsFound, BaseEnvFails, LoadFails, ReadFails, ToolFails, Fault, MemoryOnly,
       ToolOnly, fileVars
  <2>. QED
    BY <1>3, <2>1
<1>7. CASE FindMounts
  <2>1. UNCHANGED <<machine, file, look, live, faults>>
    BY <1>7 DEF FindMounts, Snapshot, FindDisk, ProcessOne, WalkEnd, Bootctl, MarkCurrent, MountsOnly,
       fileVars
  <2>. QED
    BY <1>3, <2>1
<1>8. CASE MountFault
  <2>1. UNCHANGED <<machine, file, look, live>> /\ faults' = faults + 1
    BY <1>8 DEF MountFault, SnapshotFails, FindDiskFails, UuidFails, ProcessFails, WalkFails,
       BootctlFails, BootctlCut, Fault, MountsOnly, fileVars
  <2>. QED
    BY <1>3, <2>1
<1>9. CASE MountChanges \/ Stopped \/ UNCHANGED vars
  <2>1. UNCHANGED <<machine, file, look, live, faults>>
    BY <1>9 DEF MountChanges, Stopped, vars, svars, fileVars
  <2>. QED
    BY <1>3, <2>1
<1>. QED
  BY <1>1, <1>2, <1>4, <1>5, <1>6, <1>7, <1>8, <1>9 DEF Next, StartNext, StartFault, ReadConfig

\* Where config.yaml is not empty to begin with: any number of programs that
\* start at once, and any edits, leave no empty config.yaml behind, which no
\* later start would ever fill, unless something fails.
THEOREM ConfigWholeAlways ==
  ASSUME \A m \in Machines : m.file # "empty"
  PROVE  Spec => []ConfigWhole
<1>1. Init => FillInv
  BY FillInit
<1>2. FillInv /\ [Next]_vars => FillInv'
  BY FillRead, FillRest
<1>3. FillInv => ConfigWhole
  BY DEF FillInv, ConfigWhole
<1>. QED
  BY <1>1, <1>2, <1>3, PTL DEF Spec

=============================================================================
