--------------------------- MODULE MCVideoSurface ---------------------------
(***************************************************************************)
(* Instances of VideoSurface for TLC: two threads that produce frames.     *)
(***************************************************************************)
EXTENDS VideoSurface

CONSTANTS p1, p2

MCProducers == {p1, p2}
=============================================================================
