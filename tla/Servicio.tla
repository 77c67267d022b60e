------------------------------ MODULE Servicio -----------------------------
(***************************************************************************)
(* The whole directory service: the server process (Servidor), the client  *)
(* processes (Cliente) and the ZeroMQ connections between them (RedZmq).   *)
(***************************************************************************)
EXTENDS Servidor, Cliente

varsServicio == <<varsServidor, varsClientes, red>>

TypeOK == TypeOKServidor /\ TypeOKClientes /\ TypeOKRed

InitServicio == InitServidor /\ InitClientes /\ InitRed

----------------------------------------------------------------------------
\* The network.  The REP socket is bound from Arranca on, and its I/O thread
\* keeps filling the queue whatever the main thread does.
EntregaPeticion(c) ==
    /\ spc # "parado"
    /\ Transporta(c)
    /\ UNCHANGED <<varsServidor, varsClientes>>

PierdePeticion(c) ==
    /\ spc = "parado" /\ arranques > 0
    /\ Pierde(c)
    /\ UNCHANGED <<varsServidor, varsClientes>>

\* main takes a request from the queue, whoever sent it, does its work and
\* answers; or the process ends on it.
AtiendePeticion(c) ==
    /\ cola[c] # Nada
    /\ Recv(cola[c])
    /\ IF spc' = "parado" THEN CaeServidor ELSE EnviaRespuesta(c, Respuesta(cola[c]))
    /\ UNCHANGED varsClientes

\* The steps of the server in which no client takes part.
PasoPropio(A) ==
    /\ A
    /\ IF spc' = "parado" THEN CaeServidor ELSE UNCHANGED red
    /\ UNCHANGED varsClientes

PasoCliente(c) == NextCliente(c) /\ UNCHANGED varsServidor

NextServicio ==
    \/ PasoPropio(Interno)
    \/ PasoPropio(Entorno)
    \/ \E c \in Clientes : \/ EntregaPeticion(c)
                           \/ PierdePeticion(c)
                           \/ AtiendePeticion(c)
                           \/ PasoCliente(c)

SpecServicio == InitServicio /\ [][NextServicio]_varsServicio

\* The network carries what it is given, the REP socket serves its peers in
\* turn, every process runs its own code.  Nothing forces a user to type, a
\* process to die or to be started.
FairSpecServicio ==
    /\ SpecServicio
    /\ \A c \in Clientes :
          /\ WF_varsServicio(EntregaPeticion(c))
          /\ WF_varsServicio(AtiendePeticion(c))
          /\ WF_varsServicio(Recibe(c) /\ UNCHANGED varsServidor)

----------------------------------------------------------------------------
(* Properties.                                                             *)

\* The server has accepted the file of the serving thread h, and hands out
\* the port h listens on.
Anunciada(h) ==
    \E x \in aceptados : x.fichero = h.nombre /\ Htons(x.puerto) = h.puerto

\* A client that serves a file got its ACK because the server had put that
\* file into its table with the port the client listens on: although every
\* request may be taken for another one, an ACK is misread as a registration
\* only when the name begins with the number of an option that is ACKed.
AltaConfirmada ==
    \A c \in Clientes : \A h \in sirviendo[c] :
       Stoi(h.nombre) \in {1, 2} \/ Anunciada(h)

\* A download goes to an address, IP and port, that the server accepted for
\* the very file that was asked for, and the port is the one its owner listens
\* on: through crossed dialogues, conversions to network order and back and a
\* server that is restarted in between.  The only other addresses clients are
\* sent to are those recuperar_datos made up for that name, once there is a
\* registration it can mistake and a line it can get lost in.
DireccionPedida ==
    \A c \in Clientes : \A x \in descargas[c] :
       x.resp \in Direcciones =>
          \/ \E d \in Datos : /\ SepararOk(d)
                              /\ SepararString(d) \in aceptados
                              /\ d.nombre = x.fichero
                              /\ InetAddr[d.ip] = x.resp.ip
                              /\ PuertoHebra(d.puerto) = x.resp.puerto
          \/ /\ aceptados \cap Confusas # {} /\ Repetidas
             /\ \E y \in inventados : /\ y.fichero = x.fichero
                                      /\ y.ip = x.resp.ip
                                      /\ Htons(y.puerto) = x.resp.puerto

\* "REQ: recibiendo datos fichero": what main of the server takes a request
\* for is what its sender meant.
DialogoCasado ==
    \A c \in conectados :
       cola[c] # Nada /\ spc \in Bucle =>
          spc = CASE cpc[c] \in Opciones           -> "recv"
                  [] cpc[c] = "espera_ack_datos"   -> "recv_datos"
                  [] cpc[c] = "espera_dir"         -> "recv_nombre"

\* A client waits in recv for a request of which no trace is left.
SinRastro(c) ==
    /\ cpc[c] \in Esperas
    /\ salida[c] = Nada /\ cola[c] = Nada /\ respuesta[c] = Nada

\* The REQ/REP discipline end to end: a request or its reply is in at most
\* one place, a client that does not wait has nothing under way, and one
\* that waits waits for nothing only after a server process has ended.
UnaPeticion ==
    \A c \in conectados :
       /\ ~(salida[c] # Nada /\ cola[c] # Nada)
       /\ ~(salida[c] # Nada /\ respuesta[c] # Nada)
       /\ ~(cola[c] # Nada /\ respuesta[c] # Nada)
       /\ cpc[c] \notin Esperas => salida[c] = Nada /\ cola[c] = Nada /\ respuesta[c] = Nada
       /\ SinRastro(c) => arranques > 1 \/ (arranques = 1 /\ spc = "parado")

\* If the server stays in its loop from some time on, no client waits for
\* ever, however many requests the others send, except the ones whose
\* request was lost in a crash: for those the REQ socket never gives up.
Atendida ==
    \A c \in Clientes :
       <>[](spc \in Bucle) => []<>(cpc[c] \notin Esperas \/ (SinRastro(c) /\ arranques > 1))
=============================================================================
