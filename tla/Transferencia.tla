--------------------------- MODULE Transferencia ---------------------------
(***************************************************************************)
(* The transfer of one file between clients (cliente.cpp, FileService and  *)
(* the threads that use it).  A serving thread runs one io_context, so it  *)
(* does one thing at a time: it accepts, reads a piece of its file ahead,  *)
(* and writes that piece with a blocking write.  A downloading thread      *)
(* empties the local file, connects, and writes what it reads until the    *)
(* connection ends, for whatever reason.                                   *)
(*                                                                         *)
(* Files are sequences of units.  Processes started in the same folder     *)
(* share the file: every descriptor has its own offset, and writing past   *)
(* the end of a file somebody else has emptied leaves a hole.              *)
(***************************************************************************)
EXTENDS Integers, Sequences

CONSTANTS
    Nodos,      \* client processes
    Carpeta,    \* the folder each process was started in
    Descargas,  \* downloading threads
    Quien,      \* the process each of them belongs to
    De,         \* the process whose address the server handed out
    Contenido,  \* the file that is shared
    Completas,  \* the folders that hold it at the beginning
    Sirven,     \* processes whose user shares it (option 1)
    Ausente,    \* no such file in the folder
    Hueco,      \* a unit nobody wrote
    Nadie,      \* no download
    Tam,        \* size of FileService::datos
    Ventana,    \* what TCP takes before a write blocks
    Lentas      \* downloads whose process may be stopped by its user

Carpetas == { Carpeta[n] : n \in Nodos }
Unidades == { Contenido[i] : i \in DOMAIN Contenido } \cup {Hueco}
Destino(d) == Carpeta[Quien[d]]
Origen(d) == Carpeta[De[d]]

ASSUME TransferenciaAssumption ==
    /\ Carpeta \in [Nodos -> Carpetas]
    /\ Quien \in [Descargas -> Nodos] /\ De \in [Descargas -> Nodos]
    /\ Contenido \in Seq({ Contenido[i] : i \in DOMAIN Contenido })
    /\ Nadie \notin Descargas /\ Ausente \notin Seq(Unidades)
    /\ Tam \in Nat \ {0} /\ Ventana \in Nat \ {0}
    /\ Sirven \subseteq Nodos /\ Lentas \subseteq Descargas

VARIABLES
    vivos,    \* processes that run
    disco,    \* the file in each folder
    hilo,     \* the serving thread of each process
    listo,    \* processes whose thread has a FileService for the next peer
    ocupado,  \* the download it is blocked in write for
    srv,      \* the server's end of each connection
    datos,    \* what the server has read for it and not written
    leidos,   \* offset of the server's descriptor while it is open
    canal,    \* units written to the socket and not read from it
    dpc,      \* the downloading thread
    escritos  \* offset of its descriptor while it is open

servidora == <<hilo, listo, ocupado>>
conexion == <<srv, datos, leidos, canal>>
descarga == <<dpc, escritos>>
vars == <<vivos, disco, servidora, conexion, descarga>>

\* A thread ends because the file could not be opened, or in another way.
Fin == {"acabada", "sin_fichero"}

TypeOK ==
    /\ vivos \subseteq Nodos
    /\ disco \in [Carpetas -> {Ausente} \cup Seq(Unidades)]
    /\ hilo \in [Nodos -> {"no", "arranca", "escucha"} \cup Fin]
    /\ listo \subseteq Nodos
    /\ ocupado \in [Nodos -> Descargas \cup {Nadie}]
    /\ srv \in [Descargas -> {"no", "cola", "leida", "cerrada"}]
    /\ datos \in [Descargas -> Seq(Unidades)]
    /\ leidos \in [Descargas -> Nat]
    /\ canal \in [Descargas -> Seq(Unidades)]
    /\ dpc \in [Descargas -> {"no", "truncada", "conectada", "acabada", "excepcion", "muerta"}]
    /\ escritos \in [Descargas -> Nat]

Init ==
    /\ vivos = Nodos
    /\ disco = [c \in Carpetas |-> IF c \in Completas THEN Contenido ELSE Ausente]
    /\ hilo = [n \in Nodos |-> "no"]
    /\ listo = {}
    /\ ocupado = [n \in Nodos |-> Nadie]
    /\ srv = [d \in Descargas |-> "no"]
    /\ datos = [d \in Descargas |-> <<>>]
    /\ leidos = [d \in Descargas |-> 0]
    /\ canal = [d \in Descargas |-> <<>>]
    /\ dpc = [d \in Descargas |-> "no"]
    /\ escritos = [d \in Descargas |-> 0]

----------------------------------------------------------------------------
(* Files.                                                                  *)

Menor(i, j) == IF i < j THEN i ELSE j

\* open with O_CREAT: a file that is not there is created empty.
Abre(f) == IF f = Ausente THEN <<>> ELSE f

MutTrozo(f, p) == SubSeq(f, p + 1, Menor(p + Tam, Len(f) - 1))

\* read of up to Tam units at offset p; nothing at the end of the file.
Trozo(f, p) == SubSeq(f, p + 1, Menor(p + Tam, Len(f)))

MutPon(f, p, s) == f \o s

\* write of s at offset p.
Pon(f, p, s) ==
    LET fin == p + Len(s)
    IN [i \in 1 .. (IF fin > Len(f) THEN fin ELSE Len(f)) |->
          IF i > p /\ i <= fin THEN s[i - p] ELSE IF i <= Len(f) THEN f[i] ELSE Hueco]

----------------------------------------------------------------------------
(* The serving thread, hebra_servidora_ficheros.                           *)

\* Option 1 has been confirmed: the file is on the list, the thread starts.
Lanza(n) ==
    /\ n \in Sirven \cap vivos
    /\ hilo[n] = "no"
    /\ hilo' = [hilo EXCEPT ![n] = "arranca"]
    /\ UNCHANGED <<vivos, disco, listo, ocupado, conexion, descarga>>

\* The acceptor listens: from now on peers may connect.
Escucha(n) ==
    /\ hilo[n] = "arranca"
    /\ hilo' = [hilo EXCEPT ![n] = "escucha"]
    /\ UNCHANGED <<vivos, disco, listo, ocupado, conexion, descarga>>

\* The port is taken: the exception ends the thread.
NoEscucha(n) ==
    /\ hilo[n] = "arranca"
    /\ hilo' = [hilo EXCEPT ![n] = "acabada"]
    /\ UNCHANGED <<vivos, disco, listo, ocupado, conexion, descarga>>

\* do_accept, at the start and after every accept: the file is opened for
\* the next peer, and created if need be.
Crea(n) ==
    /\ hilo[n] = "escucha" /\ n \notin listo
    /\ listo' = listo \cup {n}
    /\ disco' = [disco EXCEPT ![Carpeta[n]] = Abre(@)]
    /\ UNCHANGED <<vivos, hilo, ocupado, conexion, descarga>>

\* The thread has run the handler it was in and waits for the next.
Libre(n) == hilo[n] = "escucha" /\ n \in listo /\ ocupado[n] = Nadie

MutDoRead(d) ==
    LET t == Trozo(disco[Origen(d)], leidos[d])
    IN /\ datos' = [datos EXCEPT ![d] = t]
       /\ leidos' = [leidos EXCEPT ![d] = @ + Len(t) - 1]

\* async_read on a file reads when it is called; its handler runs later.
DoRead(d) ==
    LET t == Trozo(disco[Origen(d)], leidos[d])
    IN /\ datos' = [datos EXCEPT ![d] = t]
       /\ leidos' = [leidos EXCEPT ![d] = @ + Len(t)]

\* The handler of async_accept: the first read; Crea or CreaFalla follows.
DoAccept(d) ==
    /\ Libre(De[d])
    /\ srv[d] = "cola"
    /\ srv' = [srv EXCEPT ![d] = "leida"]
    /\ DoRead(d)
    /\ listo' = listo \ {De[d]}
    /\ UNCHANGED <<vivos, disco, hilo, ocupado, canal, descarga>>

\* The handler of async_read enters the blocking write.
EmpiezaWrite(d) ==
    /\ Libre(De[d])
    /\ srv[d] = "leida" /\ datos[d] # <<>>
    /\ ocupado' = [ocupado EXCEPT ![De[d]] = d]
    /\ UNCHANGED <<vivos, disco, hilo, listo, conexion, descarga>>

\* The socket takes one more unit; what is sent to a peer that is gone may
\* be taken too.
Write(d) ==
    /\ ocupado[De[d]] = d
    /\ datos[d] # <<>>
    /\ IF dpc[d] = "conectada"
       THEN /\ Len(canal[d]) < Ventana
            /\ canal' = [canal EXCEPT ![d] = Append(@, Head(datos[d]))]
       ELSE UNCHANGED canal
    /\ datos' = [datos EXCEPT ![d] = Tail(@)]
    /\ UNCHANGED <<vivos, disco, servidora, srv, leidos, descarga>>

\* write returns: the next read.
AcabaWrite(d) ==
    /\ ocupado[De[d]] = d
    /\ datos[d] = <<>>
    /\ DoRead(d)
    /\ ocupado' = [ocupado EXCEPT ![De[d]] = Nadie]
    /\ UNCHANGED <<vivos, disco, hilo, listo, srv, canal, descarga>>

MutFinFichero(d) ==
    /\ Libre(De[d])
    /\ srv[d] = "leida" /\ datos[d] = <<>>
    /\ UNCHANGED vars

\* End of file (a read that fails for another reason is left out): nothing
\* refers to the FileService any more, the socket closes.
FinFichero(d) ==
    /\ Libre(De[d])
    /\ srv[d] = "leida" /\ datos[d] = <<>>
    /\ srv' = [srv EXCEPT ![d] = "cerrada"]
    /\ leidos' = [leidos EXCEPT ![d] = 0]
    /\ UNCHANGED <<vivos, disco, servidora, datos, canal, descarga>>

\* The io_context and everything in it is destroyed: all connections close.
AcabaHilo(n, como) ==
    /\ hilo' = [hilo EXCEPT ![n] = como]
    /\ listo' = listo \ {n}
    /\ ocupado' = [ocupado EXCEPT ![n] = Nadie]
    /\ srv' = [d \in Descargas |->
                 IF De[d] = n /\ srv[d] \in {"cola", "leida"} THEN "cerrada" ELSE srv[d]]
    /\ datos' = [d \in Descargas |-> IF De[d] = n THEN <<>> ELSE datos[d]]
    /\ leidos' = [d \in Descargas |-> IF De[d] = n THEN 0 ELSE leidos[d]]

\* The peer is gone: write throws, through io.run(), out of the thread.
WriteFalla(d) ==
    /\ ocupado[De[d]] = d
    /\ dpc[d] # "conectada"
    /\ AcabaHilo(De[d], "acabada")
    /\ UNCHANGED <<vivos, disco, canal, descarga>>

\* open fails, the stream_descriptor is given -1 and throws, through io.run()
\* if not out of the first do_accept: the thread ends, and with it the
\* connections in progress.  An accept that fails opens the file again too,
\* which shows only when that open fails as well.
CreaFalla(n) ==
    /\ hilo[n] = "escucha"
    /\ \/ n \notin listo
       \/ Libre(n) /\ \E d \in Descargas : De[d] = n /\ srv[d] = "cola"
    /\ AcabaHilo(n, "sin_fichero")
    /\ UNCHANGED <<vivos, disco, canal, descarga>>

----------------------------------------------------------------------------
(* The downloading thread, hebra_cliente_ficheros.                         *)

Va(d, donde) == dpc' = [dpc EXCEPT ![d] = donde]

\* The thread ends, its FileService with it.
AcabaDescarga(d, como) == Va(d, como) /\ escritos' = [escritos EXCEPT ![d] = 0]

\* What the server answered is no address (EMPTY: std::stoi throws), or the
\* local file cannot be written: the thread ends.
NoEmpieza(d) ==
    /\ dpc[d] = "no" /\ Quien[d] \in vivos
    /\ Va(d, "excepcion")
    /\ UNCHANGED <<vivos, disco, servidora, conexion, escritos>>

\* do_connect empties the local file before anything else.
Trunca(d) ==
    /\ dpc[d] = "no" /\ Quien[d] \in vivos
    /\ Va(d, "truncada")
    /\ disco' = [disco EXCEPT ![Destino(d)] = <<>>]
    /\ UNCHANGED <<vivos, servidora, conexion, escritos>>

\* connect succeeds once the acceptor listens.
Connect(d) ==
    /\ dpc[d] = "truncada" /\ hilo[De[d]] = "escucha"
    /\ Va(d, "conectada")
    /\ srv' = [srv EXCEPT ![d] = "cola"]
    /\ UNCHANGED <<vivos, disco, servidora, datos, leidos, canal, escritos>>

\* The file cannot be opened again, or resolve or connect throws: nobody
\* listens, or there is no way there.
ConnectFalla(d) ==
    /\ dpc[d] = "truncada"
    /\ Va(d, "excepcion")
    /\ UNCHANGED <<vivos, disco, servidora, conexion, escritos>>

\* do_write: as much as is there, at most Tam units, goes to the file.
DoWrite(d) ==
    /\ dpc[d] = "conectada"
    /\ \E k \in 1 .. Menor(Tam, Len(canal[d])) :
          /\ disco' = [disco EXCEPT ![Destino(d)] =
                         Pon(@, escritos[d], SubSeq(canal[d], 1, k))]
          /\ escritos' = [escritos EXCEPT ![d] = @ + k]
          /\ canal' = [canal EXCEPT ![d] = SubSeq(@, k + 1, Len(@))]
    /\ UNCHANGED <<vivos, servidora, srv, datos, leidos, dpc>>

\* Writing to the file throws: the disk is full.
DoWriteFalla(d) ==
    /\ dpc[d] = "conectada" /\ canal[d] # <<>>
    /\ AcabaDescarga(d, "excepcion")
    /\ canal' = [canal EXCEPT ![d] = <<>>]
    /\ UNCHANGED <<vivos, disco, servidora, srv, datos, leidos>>

MutFinDescarga(d) ==
    /\ dpc[d] = "conectada" /\ canal[d] = <<>>
    /\ AcabaDescarga(d, "acabada")
    /\ UNCHANGED <<vivos, disco, servidora, conexion>>

\* End of file and any error alike end the download without a word.
FinDescarga(d) ==
    /\ dpc[d] = "conectada" /\ canal[d] = <<>> /\ srv[d] = "cerrada"
    /\ AcabaDescarga(d, "acabada")
    /\ UNCHANGED <<vivos, disco, servidora, conexion>>

----------------------------------------------------------------------------
\* The process ends, with its serving thread and its detached downloads.
AcabaProceso(n) ==
    /\ n \in vivos
    /\ vivos' = vivos \ {n}
    /\ AcabaHilo(n, "acabada")
    /\ dpc' = [d \in Descargas |->
                 IF Quien[d] = n /\ dpc[d] \in {"truncada", "conectada"}
                 THEN "muerta" ELSE dpc[d]]
    /\ canal' = [d \in Descargas |-> IF Quien[d] = n THEN <<>> ELSE canal[d]]
    /\ escritos' = [d \in Descargas |-> IF Quien[d] = n THEN 0 ELSE escritos[d]]
    /\ UNCHANGED disco

\* The user leaves the menu: main joins the serving thread, not the downloads.
Sale(n) == hilo[n] \in {"no"} \cup Fin /\ AcabaProceso(n)

\* The user presses Ctrl+C.
Muere(n) == AcabaProceso(n)

PasoHilo(n) ==
    \/ Escucha(n) \/ NoEscucha(n) \/ Crea(n) \/ CreaFalla(n)
    \/ \E d \in Descargas :
          /\ De[d] = n
          /\ \/ DoAccept(d) \/ EmpiezaWrite(d) \/ Write(d) \/ AcabaWrite(d)
             \/ FinFichero(d) \/ WriteFalla(d)

PasoDescarga(d) ==
    Connect(d) \/ ConnectFalla(d) \/ DoWrite(d) \/ DoWriteFalla(d) \/ FinDescarga(d)

Next ==
    \/ \E n \in Nodos : Lanza(n) \/ PasoHilo(n) \/ Sale(n) \/ Muere(n)
    \/ \E d \in Descargas : NoEmpieza(d) \/ Trunca(d) \/ PasoDescarga(d)

Spec == Init /\ [][Next]_vars

\* Every thread runs, except in a process its user has stopped; nobody has
\* to start anything or to end a process.
FairSpec ==
    /\ Spec
    /\ \A n \in Nodos : WF_vars(PasoHilo(n))
    /\ \A d \in Descargas \ Lentas : WF_vars(PasoDescarga(d))

----------------------------------------------------------------------------
(* Properties.                                                             *)

Destinos == { Destino(d) : d \in { e \in Descargas : dpc[e] # "no" } }

\* Whatever happens to the threads, and however many of them write to and
\* read from the same file at once, a unit of the shared file never ends up
\* at another position: what a file may have too little of is its end, and
\* what it may have in between are holes.
PosicionCorrecta ==
    \A c \in Carpetas : disco[c] # Ausente =>
       /\ Len(disco[c]) <= Len(Contenido)
       /\ \A i \in 1 .. Len(disco[c]) : disco[c][i] \in {Contenido[i], Hueco}

\* A file is complete when every download into its folder has ended quietly,
\* from serving threads that are still up and whose own file is complete and
\* nobody's destination: an end taken for the end of the file is one, two
\* downloads into one file do not spoil it for good, and a slow peer of the
\* same thread costs no data.
DestinoCompleto ==
    \A c \in Destinos :
       LET D == { d \in Descargas : Destino(d) = c /\ dpc[d] # "no" }
       IN (\A d \in D : /\ dpc[d] = "acabada" /\ hilo[De[d]] = "escucha"
                        /\ disco[Origen(d)] = Contenido /\ Origen(d) \notin Destinos)
            => disco[c] = Contenido

\* In a process that still runs, a serving thread that has had connections
\* ends in two ways only: the file could not be opened for the next peer
\* (cliente.cpp:251, 261), or the blocking write threw for one of its own
\* peers, whose download failed or was killed.  A peer that goes on, or has
\* reached the end of the file, never makes it throw.
HebraCaePorUnPar ==
    \A n \in vivos :
       hilo[n] = "acabada" /\ (\E d \in Descargas : De[d] = n /\ srv[d] # "no") =>
          \E d \in Descargas :
             De[d] = n /\ srv[d] = "cerrada" /\ dpc[d] \in {"excepcion", "muerta"}

\* A download comes to an end, although the peer may not listen yet or ever,
\* die half way, or lose its serving thread to another peer; the one thing
\* that can hold it up for ever is a slow peer of the same thread, which is
\* then blocked in its write.
EnCurso(d) == dpc[d] \in {"truncada", "conectada"}

Acaba ==
    \A d \in Descargas \ Lentas :
       <>[](ocupado[De[d]] \notin Lentas) => (EnCurso(d) ~> ~EnCurso(d))

\* A download that is alone in its folder and reads from one that holds the
\* file and is nobody's destination.
Propias ==
    { d \in Descargas : /\ \A e \in Descargas : Destino(e) = Destino(d) => e = d
                        /\ \A e \in Descargas : Destino(e) # Origen(d)
                        /\ Origen(d) \in Completas }

Estado(d) ==
    CASE dpc[d] \in {"truncada", "conectada"} -> "en_curso"
      [] dpc[d] \in {"excepcion", "muerta"}   -> "rota"
      [] OTHER                                -> dpc[d]

C(d) == INSTANCE Copia WITH
           Original <- Contenido, Vacia <- Ausente, local <- disco[Destino(d)],
           fuente <- hilo[De[d]] \in {"no", "arranca", "escucha"}, estado <- Estado(d)

\* Each such download implements Copia: after it has begun the local file is
\* at every moment a beginning of the remote one and only grows, and if it
\* ends quietly while the peer serves, it is all of it.
ImplementaCopia ==
    /\ \A d \in Propias : C(d)!Init
    /\ [][ \A d \in Propias : C(d)!Next \/ UNCHANGED C(d)!vars ]_vars
=============================================================================
