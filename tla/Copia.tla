------------------------------- MODULE Copia -------------------------------
(***************************************************************************)
(* What one download (option 2 of the client) promises the user of the     *)
(* folder it writes to, without threads, sockets or buffers.               *)
(***************************************************************************)
EXTENDS Integers, Sequences

CONSTANTS Original, Vacia   \* the remote file; there is no local one

VARIABLES
    local,   \* the local file
    fuente,  \* the peer still serves, or has yet to
    estado   \* of the download

vars == <<local, fuente, estado>>

EsPrefijo(s, t) == Len(s) <= Len(t) /\ s = SubSeq(t, 1, Len(s))

Init ==
    /\ local \in {Vacia, Original}
    /\ fuente = TRUE
    /\ estado = "no"

\* Whoever serves the local file creates it.
Crea == local = Vacia /\ local' = <<>> /\ UNCHANGED <<fuente, estado>>

\* The download begins by giving up the local copy, or does not begin.
Empieza ==
    /\ estado = "no"
    /\ \/ estado' = "en_curso" /\ local' = <<>>
       \/ estado' = "rota" /\ UNCHANGED local
    /\ UNCHANGED fuente

Avanza ==
    /\ estado = "en_curso"
    /\ local' # local /\ EsPrefijo(local, local') /\ EsPrefijo(local', Original)
    /\ UNCHANGED <<fuente, estado>>

\* It ends with the whole file, unless the peer failed.
Acaba ==
    /\ estado = "en_curso"
    /\ local = Original \/ ~fuente
    /\ estado' = "acabada"
    /\ UNCHANGED <<local, fuente>>

Rompe == estado = "en_curso" /\ estado' = "rota" /\ UNCHANGED <<local, fuente>>

FuenteCae == fuente /\ ~fuente' /\ UNCHANGED <<local, estado>>

Next == Crea \/ Empieza \/ Avanza \/ Acaba \/ Rompe \/ FuenteCae

Spec == Init /\ [][Next]_vars
=============================================================================
