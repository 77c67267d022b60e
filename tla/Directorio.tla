----------------------------- MODULE Directorio ----------------------------
(***************************************************************************)
(* What the server promises as a directory, without dialogue, backup file  *)
(* or signals: a registration that is accepted is on offer from then on,   *)
(* all offers go together when the directory stops, and what comes back    *)
(* afterwards was accepted once.  That last promise ends with the first    *)
(* registration whose written form can be mistaken.                        *)
(***************************************************************************)
CONSTANT Confusas  \* the registrations whose written form can be mistaken

VARIABLES
    activo,    \* there is a directory to ask
    ofertas,   \* what lookups are answered from
    historial  \* every registration ever accepted

varsDirectorio == <<activo, ofertas, historial>>

Init == ~activo /\ ofertas = {} /\ historial = {}

Empieza ==
    /\ ~activo /\ activo'
    /\ UNCHANGED <<ofertas, historial>>

Publica(x) ==
    /\ activo
    /\ historial' = historial \cup {x}
    /\ ofertas' = ofertas \cup {x}
    /\ UNCHANGED activo

Recuerda(x) ==
    /\ activo
    /\ UNCHANGED <<activo, historial>>
    /\ historial \cap Confusas = {} => x \in historial
    /\ ofertas' = ofertas \cup {x}

Olvida ==
    /\ activo /\ ~activo'
    /\ ofertas' = {}
    /\ UNCHANGED historial

Next == Empieza \/ Olvida \/ \E x \in ofertas' : Publica(x) \/ Recuerda(x)

Spec == Init /\ [][Next]_varsDirectorio
=============================================================================
