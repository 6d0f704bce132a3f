--------------------------- MODULE MCLoaderEntry ---------------------------
(***************************************************************************)
(* Instances of LoaderEntry for TLC: entries as 90-loaderentry.install     *)
(* writes them, short of rows nobody changes.                              *)
(***************************************************************************)
EXTENDS LoaderEntry

Own(k) == Piece(k, "own")

Bls == <<Own("title"), Own("other"), Own("options"), Own("linux"), Own("other")>>
Uki == <<Own("title"), Own("options"), Own("uki")>>

ShortRows == {Bls, Uki}

=============================================================================
