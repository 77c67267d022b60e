------------------------------ MODULE RedZmq -------------------------------
(***************************************************************************)
(* External: the ZeroMQ connections between the REQ socket of each client  *)
(* and the REP socket of the server, as cliente.cpp and servidor.cpp use   *)
(* them.  A REQ socket has at most one request under way, so a connection  *)
(* is three slots: the request in the client's own buffer, the request in  *)
(* the server's queue, and the reply.                                      *)
(*                                                                         *)
(* connect() buffers requests while nobody listens; what had reached a     *)
(* server that ends is lost, and so may be what it had sent.               *)
(***************************************************************************)
EXTENDS Almacen

CONSTANT Clientes  \* the client processes, each one run of cliente.cpp

VARIABLES
    salida,      \* request a client has sent and the server has not got
    cola,        \* request waiting for socket.recv of the server
    respuesta,   \* reply waiting for socket.recv of the client
    conectados   \* clients whose socket exists

red == <<salida, cola, respuesta, conectados>>

Nada == [tipo |-> "nada"]

TypeOKRed ==
    /\ salida \in [Clientes -> Mensajes \cup {Nada}]
    /\ cola \in [Clientes -> Mensajes \cup {Nada}]
    /\ respuesta \in [Clientes -> Respuestas \cup {Nada}]
    /\ conectados \subseteq Clientes

InitRed ==
    /\ salida = [c \in Clientes |-> Nada]
    /\ cola = [c \in Clientes |-> Nada]
    /\ respuesta = [c \in Clientes |-> Nada]
    /\ conectados = Clientes

\* socket.send of the client c.
EnviaPeticion(c, m) ==
    /\ salida' = [salida EXCEPT ![c] = m]
    /\ UNCHANGED <<cola, respuesta, conectados>>

\* The I/O threads carry a request to the server's queue, or into the void
\* when the connection is already dead and nobody has noticed.
Transporta(c) ==
    /\ salida[c] # Nada
    /\ salida' = [salida EXCEPT ![c] = Nada]
    /\ cola' = [cola EXCEPT ![c] = salida[c]]
    /\ UNCHANGED <<respuesta, conectados>>

Pierde(c) ==
    /\ salida[c] # Nada
    /\ salida' = [salida EXCEPT ![c] = Nada]
    /\ UNCHANGED <<cola, respuesta, conectados>>

\* socket.recv of the server takes the request of c and socket.send answers
\* it; a reply to a client that is gone is dropped.
EnviaRespuesta(c, r) ==
    /\ cola' = [cola EXCEPT ![c] = Nada]
    /\ respuesta' = [respuesta EXCEPT ![c] = IF c \in conectados THEN r ELSE Nada]
    /\ UNCHANGED <<salida, conectados>>

\* socket.recv of the client.
RecogeRespuesta(c) ==
    /\ respuesta[c] # Nada
    /\ respuesta' = [respuesta EXCEPT ![c] = Nada]
    /\ UNCHANGED <<salida, cola, conectados>>

\* The client process ends: what it had not transmitted goes with it, what
\* the server already has stays in the queue.
Desconecta(c) ==
    /\ salida' = [salida EXCEPT ![c] = Nada]
    /\ respuesta' = [respuesta EXCEPT ![c] = Nada]
    /\ conectados' = conectados \ {c}
    /\ UNCHANGED cola

\* The server process ends: its queue is lost, and any reply may be.
CaeServidor ==
    /\ cola' = [c \in Clientes |-> Nada]
    /\ \E S \in SUBSET { c \in Clientes : respuesta[c] # Nada } :
          respuesta' = [c \in Clientes |-> IF c \in S THEN Nada ELSE respuesta[c]]
    /\ UNCHANGED <<salida, conectados>>
=============================================================================
