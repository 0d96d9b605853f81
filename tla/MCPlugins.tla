----------------------------- MODULE MCPlugins -----------------------------
(* Bounds for Plugins: two files and two inodes, so that a file can be     *)
(* replaced while its old object stays mapped; two plugins, so that copies *)
(* of one, two files of one name and two names occur; three loads in a     *)
(* run, which are a scan over a loaded plugin and one install.             *)
EXTENDS Plugins, TLC

CONSTANTS f1, f2, i1, i2, lib1, lib2

MCFiles == {f1, f2}
MCInodes == {i1, i2}
MCLibs == {lib1, lib2}
MCNames == {"a", "b"}
MCNameOf == (lib1 :> "a") @@ (lib2 :> "b")
MCSymmetry == Permutations(MCFiles) \union Permutations(MCInodes)
=============================================================================
