---------------------------- MODULE MCDataDirMove ----------------------------
(* Instances of DataDirMove for TLC.                                       *)
EXTENDS DataDirMove, TLC

MCSymmetry == Permutations(Boots)

(* A boot's variables as far as any action may still read them: what a     *)
(* boot that is gone had in memory, or a mover once it has moved, tells no *)
(* two states apart.                                                       *)
MCView ==
    <<files, lock, pc,
      [b \in Boots |->
          IF pc[b] = "gone" THEN <<>>
          ELSE <<at[b], due[b], key[b], holds[b],
                 IF pc[b] \in Held THEN <<wipeOk[b], moved[b], put[b]>> ELSE <<>>,
                 IF pc[b] \in {"commit", "grace", "cleanup"} THEN i[b] ELSE 0>>]>>
=============================================================================
