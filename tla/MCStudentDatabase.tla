------------------------- MODULE MCStudentDatabase -------------------------
(* Instances of StudentDatabase for TLC.                                    *)
EXTENDS StudentDatabase

MCInput == <<0, 1>>
=============================================================================
