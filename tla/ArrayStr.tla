------------------------------ MODULE ArrayStr ------------------------------
(***************************************************************************)
(* Array_str: an array of pointers to strings and the length of each, which *)
(* is kept by whoever stores a string.  What the functions of array_str*.c *)
(* make of an array when memory suffices; a caller whose allocation fails  *)
(* does not come here.                                                     *)
(*                                                                         *)
(* A string is a sequence of words, its length the number of them.         *)
(***************************************************************************)
EXTENDS Naturals, Sequences, SequencesExt

CONSTANTS
  Word,    \* the words strings are made of
  NULL     \* a row with no string

Str == Seq(Word)

ASSUME NullAssumption == NULL \notin Str

\* The elements of a sequence that are in a set, in order: the loops that walk
\* an array and store a row where a test holds.
Selected(s, S) == FoldLeft(LAMBDA kept, x : IF x \in S THEN Append(kept, x) ELSE kept, <<>>, s)

EmptyArr == [rows |-> <<>>, lens |-> <<>>, used |-> 0]

\* A row and its length for every allocated place, no more.
IsArr(a) ==
  /\ DOMAIN a = {"rows", "lens", "used"}
  /\ DOMAIN a.rows = DOMAIN a.lens
  /\ a.used <= Len(a.lens)

NewArr(n) == [rows |-> [k \in 1..n |-> NULL], lens |-> [k \in 1..n |-> 0], used |-> 0]

\* array_str_resize: rows beyond n are freed, new ones have no string.
Resized(a, n) ==
  [rows |-> [k \in 1..n |-> IF k \in DOMAIN a.rows THEN a.rows[k] ELSE NULL],
   lens |-> [k \in 1..n |-> IF k \in DOMAIN a.lens THEN a.lens[k] ELSE 0],
   used |-> IF a.used > n THEN n ELSE a.used]

\* arr->rows[k] = string: the array neither grows nor learns the length.
Stored(a, k, string) ==
  [a EXCEPT !.rows = [j \in DOMAIN a.rows \cup {k} |-> IF j = k THEN string ELSE a.rows[j]]]

\* The first rows are those of the sequence.
StoredAll(a, strings) ==
  [a EXCEPT !.rows = [j \in DOMAIN a.rows \cup DOMAIN strings |->
                        IF j \in DOMAIN strings THEN strings[j] ELSE a.rows[j]]]

\* array_str_refresh_row_len
Refreshed(a) ==
  [a EXCEPT !.lens = [k \in DOMAIN a.lens |-> IF a.rows[k] = NULL THEN 0 ELSE Len(a.rows[k])]]

\* array_str_add_string
Added(a, string) ==
  LET n == Len(a.rows) + 1
  IN  [Stored(Resized(a, n), n, string) EXCEPT !.lens[n] = Len(string)]

HasNull(a) == \E k \in DOMAIN a.rows : a.rows[k] = NULL

\* How many rows come before the first without a string: what execve reads.
UpToNull(a) ==
  IF HasNull(a)
    THEN CHOOSE n \in 0..(Len(a.rows) - 1) :
           a.rows[n + 1] = NULL /\ \A k \in 1..n : a.rows[k] # NULL
    ELSE Len(a.rows)

MutantAppended(src, dst) ==
  IF \A k \in DOMAIN src.rows : src.rows[k] = NULL THEN dst
  ELSE [rows |-> dst.rows \o src.rows, lens |-> dst.lens \o src.lens, used |-> dst.used + src.used]

\* array_str_copy_move_prep and the copy or the move: what follows the first
\* row without a string goes from dst, and the strings of src come there, with
\* the lengths src has for them.
Appended(src, dst) ==
  LET head == Resized(dst, UpToNull(dst))
      all == [k \in DOMAIN src.rows |-> <<src.rows[k], src.lens[k]>>]
      pairs == Selected(all, {p \in Range(all) : p[1] # NULL})
  IN  IF pairs = <<>> THEN head
      ELSE [rows |-> head.rows \o [k \in DOMAIN pairs |-> pairs[k][1]],
            lens |-> head.lens \o [k \in DOMAIN pairs |-> pairs[k][2]],
            used |-> head.used + src.used]

\* array_str_null_terminate
NullTerminated(a) == IF HasNull(a) THEN a ELSE Resized(a, Len(a.rows) + 1)

=============================================================================
