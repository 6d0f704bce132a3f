--------------------------- MODULE MCInstallConf ---------------------------
(***************************************************************************)
(* Instances of InstallConf for TLC.                                       *)
(***************************************************************************)
EXTENDS InstallConf

OneKey == {"layout"}
TwoValues == {"bls", "uki"}

\* All four directories are searched; the strongest and the weakest may have an
\* install.conf, and there are two drop-ins in one directory and one in others.
Ends == {1, 4}
FourDropins == {<<1, 1>>, <<2, 1>>, <<4, 1>>, <<4, 2>>}

=============================================================================
