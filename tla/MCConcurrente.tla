--------------------------- MODULE MCConcurrente ---------------------------
(* Instances of AlmacenConcurrente for TLC: main and two workers, four     *)
(* registrations of one file and one of another.                           *)
EXTENDS AlmacenConcurrente, TLC

CONSTANTS w1, w2, ff, gg, a1, a2, a3, a4, b1

MCTrabajadores == {w1, w2}
MCFicheros == {ff, gg}
MCAltas == {a1, a2, a3, a4, b1}
MCFicheroDe == a1 :> ff @@ a2 :> ff @@ a3 :> ff @@ a4 :> ff @@ b1 :> gg
MCSimetria == Permutations(MCTrabajadores) \cup Permutations({a1, a2, a3, a4})
=============================================================================
