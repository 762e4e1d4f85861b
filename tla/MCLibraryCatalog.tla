-------------------------- MODULE MCLibraryCatalog --------------------------
(***************************************************************************)
(* An instance of LibraryCatalog for TLC: a work that a coroutine          *)
(* refreshes while the user edits the library.  Two of its episodes are    *)
(* listed at first, a third is announced at some time.                     *)
(***************************************************************************)
EXTENDS LibraryCatalog

CONSTANTS w1, k1, k2, k3, f1, r1, d1

OneWork == {w1}
ThreeKeys == {k1, k2, k3}
OneWorkOf == [k \in ThreeKeys |-> w1]
TwoAtFirst == {[w \in OneWork |-> <<k1, k2>>]}
OneFile == {f1}
MCFolderOf == [f \in OneFile |-> d1]
OneRefresh == {r1}
=============================================================================
