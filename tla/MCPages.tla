------------------------------ MODULE MCPages ------------------------------
(* A work and a subject of the user's own, a file, and pages of two.  The    *)
(* list of the work begins with a special, EP 1 and EP 2.5: EP 1 is not      *)
(* where it is expected, EP 2.5 is, and nothing else is there.               *)
EXTENDS SubjectDetails

MCNumberings == {<<Special, 2, 5>>}
=============================================================================
