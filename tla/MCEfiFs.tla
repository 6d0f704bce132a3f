------------------------------ MODULE MCEfiFs ------------------------------
(***************************************************************************)
(* Instances of EfiFs for TLC: two drivers of the package; bootctl says    *)
(* more than a pipe holds, and what it says takes the buffer to the size   *)
(* where doubling is over the limit.                                       *)
(***************************************************************************)
EXTENDS EfiFs

Two == {"ntfs", "btrfs"}

EspRows == {<<"row", "key", "end">>}

\* Nothing, or more than may be read.
OtherRows == {<<>>, [i \in 1..6 |-> "row"]}

=============================================================================
