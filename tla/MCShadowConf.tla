---------------------------- MODULE MCShadowConf ----------------------------
(***************************************************************************)
(* Instances of ShadowConf for TLC.                                        *)
(***************************************************************************)
EXTENDS ShadowConf

TwoFiles == {"cmdline", "entry-token"}
TwoTools == {"hook", "admin"}

=============================================================================
