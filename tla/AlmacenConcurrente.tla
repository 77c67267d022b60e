------------------------- MODULE AlmacenConcurrente ------------------------
(***************************************************************************)
(* AlmacenDirecciones as its callers really use it: main (requests of the  *)
(* clients) and Crow's workers (HTTP) on one std::map, without a lock.  An *)
(* operation is a sequence of accesses to the map and to the vectors in    *)
(* it; an access has a beginning and an end, and other threads run in      *)
(* between.  Two accesses to one object that overlap, one of them a write, *)
(* are a data race: from then on the table may lose entries and the        *)
(* process may crash.  Nothing is ever erased, so an iterator find has     *)
(* returned stays valid.                                                   *)
(***************************************************************************)
EXTENDS Integers, Sequences, FiniteSets

CONSTANTS
    Principal,     \* the main thread
    Trabajadores,  \* Crow's workers
    Ficheros,      \* names of files
    Altas,         \* registrations: each is an address for a file
    FicheroDe,     \* that file
    Arbol,         \* the map itself, as opposed to a vector in it
    Nada           \* a thread that does nothing

Hebras == Trabajadores \cup {Principal}

ASSUME ConcurrenteAssumption ==
    /\ FicheroDe \in [Altas -> Ficheros]
    /\ Arbol \notin Ficheros
    /\ Nada \notin Altas \cup Ficheros
    /\ Altas \cap Ficheros = {}
    /\ IsFiniteSet(Trabajadores)

VARIABLES
    tabla,        \* the addresses of every file, <<>> when it is no key
    pc,           \* the access a thread is in, or has made last
    que,          \* the registration or the file it works on
    confirmadas,  \* registrations for which agregar_cliente returned true
    carrera,      \* ghost: there has been a data race
    activo        \* the process runs

varsConc == <<tabla, pc, que, confirmadas, carrera, activo>>

Accesos == {"busca", "empuja", "inserta", "lista", "recorre", "consulta", "primero"}

TypeOKConc ==
    /\ tabla \in [Ficheros -> Seq(Altas)]
    /\ pc \in [Hebras -> {"libre", "esta", "falta"} \cup Accesos]
    /\ que \in [Hebras -> Altas \cup Ficheros \cup {Nada}]
    /\ confirmadas \subseteq Altas
    /\ carrera \in BOOLEAN /\ activo \in BOOLEAN

InitConc ==
    /\ tabla = [f \in Ficheros |-> <<>>]
    /\ pc = [h \in Hebras |-> "libre"]
    /\ que = [h \in Hebras |-> Nada]
    /\ confirmadas = {}
    /\ carrera = FALSE
    /\ activo = TRUE

----------------------------------------------------------------------------
\* What access p on q reads and writes: find walks the tree, emplace changes
\* it, push_back moves the vector of one file, and an iteration reads keys
\* (obtener_ficheros) or keys and vectors (to_html).
Lee(p, q) ==
    CASE p \in {"busca", "lista", "consulta"} -> {Arbol}
      [] p = "recorre"                        -> {Arbol} \cup Ficheros
      [] p = "primero"                        -> {q}
      [] OTHER                                -> {}

Escribe(p, q) ==
    CASE p = "inserta" -> {Arbol}
      [] p = "empuja"  -> {FicheroDe[q]}
      [] OTHER         -> {}

\* Thread h goes to p on q.
Va(h, p, q) ==
    /\ activo
    /\ pc' = [pc EXCEPT ![h] = p]
    /\ que' = [que EXCEPT ![h] = q]
    /\ carrera' = (carrera \/ \E k \in Hebras \ {h} :
                      \/ Escribe(p, q) \cap (Lee(pc[k], que[k]) \cup Escribe(pc[k], que[k])) # {}
                      \/ Lee(p, q) \cap Escribe(pc[k], que[k]) # {})
    /\ UNCHANGED activo

----------------------------------------------------------------------------
(* agregar_cliente, called by main (option 1) and by two HTTP routes.      *)

Busca(h, a) ==
    /\ pc[h] = "libre"
    /\ a \notin confirmadas /\ \A k \in Hebras : que[k] # a
    /\ Va(h, "busca", a)
    /\ UNCHANGED <<tabla, confirmadas>>

FinBusca(h) ==
    /\ pc[h] = "busca"
    /\ Va(h, IF tabla[FicheroDe[que[h]]] = <<>> THEN "falta" ELSE "esta", que[h])
    /\ UNCHANGED <<tabla, confirmadas>>

PushBack(h) ==
    /\ pc[h] = "esta"
    /\ Va(h, "empuja", que[h])
    /\ UNCHANGED <<tabla, confirmadas>>

MutEmplace(h) ==
    /\ pc[h] = "falta"
    /\ Va(h, "inserta", que[h])
    /\ confirmadas' = confirmadas \cup {que[h]}
    /\ UNCHANGED tabla

Emplace(h) ==
    /\ pc[h] = "falta"
    /\ Va(h, "inserta", que[h])
    /\ UNCHANGED <<tabla, confirmadas>>

MutConfirma(h) ==
    /\ Va(h, "libre", Nada)
    /\ confirmadas' = confirmadas \cup {que'[h]}

\* The result of emplace is not looked at: true is returned in any case.
Confirma(h) ==
    /\ Va(h, "libre", Nada)
    /\ confirmadas' = confirmadas \cup {que[h]}

FinPushBack(h) ==
    /\ pc[h] = "empuja"
    /\ Confirma(h)
    /\ tabla' = [tabla EXCEPT ![FicheroDe[que[h]]] = Append(@, que[h])]

MutFinEmplace(h) ==
    /\ pc[h] = "inserta"
    /\ Confirma(h)
    /\ tabla' = [tabla EXCEPT ![FicheroDe[que[h]]] = <<que[h]>>]

\* emplace leaves the map alone when the key is there by now.
FinEmplace(h) ==
    /\ pc[h] = "inserta"
    /\ Confirma(h)
    /\ tabla' = [tabla EXCEPT ![FicheroDe[que[h]]] = IF @ = <<>> THEN <<que[h]>> ELSE @]

----------------------------------------------------------------------------
(* The readers.                                                            *)

\* Option 0, main only.
ObtenerFicheros ==
    /\ pc[Principal] = "libre"
    /\ Va(Principal, "lista", Nada)
    /\ UNCHANGED <<tabla, confirmadas>>

\* The page "/", any worker.
ToHtml(h) ==
    /\ h \in Trabajadores /\ pc[h] = "libre"
    /\ Va(h, "recorre", Nada)
    /\ UNCHANGED <<tabla, confirmadas>>

\* Option 2, main only: find, then element 0 of the vector.
ObtenerCliente(f) ==
    /\ pc[Principal] = "libre"
    /\ Va(Principal, "consulta", f)
    /\ UNCHANGED <<tabla, confirmadas>>

Primero ==
    /\ pc[Principal] = "consulta" /\ tabla[que[Principal]] # <<>>
    /\ Va(Principal, "primero", que[Principal])
    /\ UNCHANGED <<tabla, confirmadas>>

FinLectura(h) ==
    /\ pc[h] \in {"lista", "recorre", "primero"} \/ (pc[h] = "consulta" /\ tabla[que[h]] = <<>>)
    /\ Va(h, "libre", Nada)
    /\ UNCHANGED <<tabla, confirmadas>>

----------------------------------------------------------------------------
\* Undefined behaviour: entries have become unreachable.
Dana ==
    /\ activo /\ carrera
    /\ \E F \in SUBSET Ficheros :
          tabla' = [f \in Ficheros |-> IF f \in F THEN tabla[f] ELSE <<>>]
    /\ UNCHANGED <<pc, que, confirmadas, carrera, activo>>

\* Undefined behaviour: the process crashes.
Cae ==
    /\ activo /\ carrera
    /\ activo' = FALSE
    /\ UNCHANGED <<tabla, pc, que, confirmadas, carrera>>

NextConc ==
    \/ \E h \in Hebras :
          \/ \E a \in Altas : Busca(h, a)
          \/ FinBusca(h) \/ PushBack(h) \/ Emplace(h) \/ FinPushBack(h) \/ FinEmplace(h)
          \/ ToHtml(h) \/ FinLectura(h)
    \/ ObtenerFicheros
    \/ \E f \in Ficheros : ObtenerCliente(f)
    \/ Primero \/ Dana \/ Cae

SpecConc == InitConc /\ [][NextConc]_varsConc

----------------------------------------------------------------------------
(* Properties.  They speak of executions in which no two accesses have     *)
(* collided, and in which operations may interleave all the same.          *)

\* A file of which a registration was confirmed is on the list, and its
\* lookup finds an address, whatever find saw before emplace was reached.
ListadoCompleto ==
    ~carrera => \A a \in confirmadas : tabla[FicheroDe[a]] # <<>>

Guardada(a) == \E i \in DOMAIN tabla[FicheroDe[a]] : tabla[FicheroDe[a]][i] = a

Perdidas(f) == { a \in confirmadas : FicheroDe[a] = f /\ ~Guardada(a) }

\* Confirmed registrations are lost only to the first one of their file, by
\* threads that were between find and emplace at that moment: for each file
\* fewer than there are threads, and never again later.
PerdidasAcotadas ==
    ~carrera => \A f \in Ficheros : Cardinality(Perdidas(f)) < Cardinality(Hebras)

\* "Verdadero si se agrega el cliente correctamente": a registration that was
\* confirmed is in the table.
AltaEnTabla ==
    ~carrera => \A a \in confirmadas : Guardada(a)
=============================================================================
