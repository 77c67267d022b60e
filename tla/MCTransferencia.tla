-------------------------- MODULE MCTransferencia --------------------------
(* Instances of Transferencia for TLC: s holds the file in folder A; x, in *)
(* B, has an old copy it downloads again while it serves it; y, in C, has  *)
(* none and downloads from both.                                           *)
EXTENDS Transferencia, TLC

CONSTANTS s, x, y, A, B, Cc, d1, d2, d3

MCNodos == {s, x, y}
MCDescargas == {d1, d2, d3}
MCCarpeta == s :> A @@ x :> B @@ y :> Cc
MCQuien == [d \in Descargas |-> IF d = d1 THEN x ELSE y]
MCDe == [d \in Descargas |-> IF d = d2 THEN x ELSE s]
MCCompletas == {A, B}
MCSirven == {s, x}
MCContenido == <<1, 2, 3>>
MCHueco == 0
MCDosDescargas == {d1, d3}
MCLentas == {d1}
MCNinguna == {}
=============================================================================
