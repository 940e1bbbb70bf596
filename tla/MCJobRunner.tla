---------------------------- MODULE MCJobRunner ----------------------------
(* Instances of JobRunner for TLC: four jobs of two users, the first two   *)
(* competing for one lane.                                                 *)
EXTENDS JobRunner

MCJobs == 1..4
MCUserOf == <<"ann", "ann", "ann", "bob">>
MCLaneOf == <<"x", "x", "y", "x">>
MCThree == 1..3
MCThreeUserOf == <<"ann", "ann", "bob">>
(* One lane shared by two jobs of one user (the runs README describes).    *)
MCThreeLaneOf == <<"x", "x", "x">>
(* Three jobs on three lanes, two of them of one user.                     *)
MCApartLaneOf == <<"x", "y", "x">>
=============================================================================
