--------------------------- MODULE MCAppSettings ---------------------------
(***************************************************************************)
(* Instances of AppSettings for TLC: the desktop application and the       *)
(* command line, one secret.                                               *)
(***************************************************************************)
EXTENDS AppSettings

CONSTANT s1

MCPrograms == {"gui", "cli"}
MCSecrets == {s1}
=============================================================================
