--------------------------- MODULE MCKernelUpdate ---------------------------
(***************************************************************************)
(* Instances of KernelUpdate for TLC.  Kernels 1 and 2 are two versions of *)
(* the managed package "custom", kernel 3 belongs to the unmanaged package *)
(* "linux" or was built by hand and has no pkgbase file.  The package      *)
(* "next" is managed and not installed.                                    *)
(***************************************************************************)
EXTENDS KernelUpdate

Packages == {"custom", "linux", "next"}

\* Versions 1 and 2 of a managed package, one unmanaged kernel.
ThreeKernels == 1..3
NoHandmade == <<"custom", "custom", "linux">>

\* The same with a kernel without a pkgbase file instead of the unmanaged one.
WithHandmade == <<"custom", "custom", "none">>

=============================================================================
