--------------------------- MODULE MCLogProgress ---------------------------
(***************************************************************************)
(* LogIndex under fairness.  The main loop calls rebuild_indexes() for     *)
(* ever, so full passes are infinitely frequent, also ones that change     *)
(* nothing; beat flips with each of them so that those are steps too.      *)
(***************************************************************************)
EXTENDS LogIndex

VARIABLE beat

Beat == FullPass /\ beat' = ~beat

FairSpec ==
    /\ Init /\ beat = FALSE
    /\ [][Beat \/ (Next /\ UNCHANGED beat)]_<<vars, beat>>
    /\ []<><<Beat>>_<<vars, beat>>
=============================================================================
