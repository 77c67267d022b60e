------------------------------ MODULE Cliente ------------------------------
(***************************************************************************)
(* The main thread of a client process (cliente.cpp): the menu, the three  *)
(* dialogues with the server, and the threads it starts.  One action is    *)
(* what main does between two blocking points (standard input, the socket, *)
(* join).  The file transfers themselves are not in this module: a serving *)
(* or downloading thread is the arguments it was started with.             *)
(***************************************************************************)
EXTENDS RedZmq

CONSTANT MaxOps  \* bound: options 1 and 2 chosen by one client

ASSUME ClienteAssumption == MaxOps \in Nat

VARIABLES
    cpc,         \* where the main thread of each client is
    entrada,     \* std::cin is still usable
    campos,      \* nombre, ip and puerto, which outlive an iteration
    pedido,      \* solicitud of the download under way
    sirviendo,   \* threads hebra_servidora_ficheros running: name and port
    descargas,   \* threads hebra_cliente_ficheros started: name and reply
    ops          \* options 1 and 2 chosen so far

hebras == <<sirviendo, descargas>>
varsClientes == <<cpc, entrada, campos, pedido, hebras, ops>>

Opciones == {"espera_listado", "espera_ack1", "espera_ack2"}
Esperas == Opciones \cup {"espera_ack_datos", "espera_dir"}
CamposVacios == [nombre |-> Vacio, ip |-> IpVacia, puerto |-> Vacio]

TypeOKClientes ==
    /\ cpc \in [Clientes -> {"menu", "pide_datos", "pide_nombre", "join", "fin"}
                              \cup Esperas]
    /\ entrada \in [Clientes -> BOOLEAN]
    /\ campos \in [Clientes -> Datos]
    /\ pedido \in [Clientes -> Nombres \cup {Vacio}]
    /\ sirviendo \in [Clientes -> SUBSET [nombre : Nombres \cup {Vacio}, puerto : U16]]
    /\ descargas \in [Clientes -> SUBSET [fichero : Nombres \cup {Vacio},
                                          resp : Respuestas]]
    /\ ops \in [Clientes -> 0 .. MaxOps]

InitClientes ==
    /\ cpc = [c \in Clientes |-> "menu"]
    /\ entrada = [c \in Clientes |-> TRUE]
    /\ campos = [c \in Clientes |-> CamposVacios]
    /\ pedido = [c \in Clientes |-> Vacio]
    /\ sirviendo = [c \in Clientes |-> {}]
    /\ descargas = [c \in Clientes |-> {}]
    /\ ops = [c \in Clientes |-> 0]

Va(c, donde) == cpc' = [cpc EXCEPT ![c] = donde]

\* exit(-1), an uncaught exception or the end of main: the threads go too.
Termina(c) ==
    /\ Va(c, "fin")
    /\ sirviendo' = [sirviendo EXCEPT ![c] = {}]
    /\ descargas' = [descargas EXCEPT ![c] = {}]
    /\ Desconecta(c)
    /\ UNCHANGED <<entrada, campos, pedido, ops>>

----------------------------------------------------------------------------
(* The menu.                                                               *)

\* Option 0; it is also what opcion is when cin >> opcion fails, and once
\* that has happened it fails for ever.
EligeListado(c) ==
    /\ cpc[c] = "menu"
    /\ entrada' \in {entrada, [entrada EXCEPT ![c] = FALSE]}
    /\ EnviaPeticion(c, Texto(Numeral(0)))
    /\ Va(c, "espera_listado")
    /\ UNCHANGED <<campos, pedido, hebras, ops>>

EligeAltaODescarga(c, n, espera) ==
    /\ cpc[c] = "menu"
    /\ entrada[c]
    /\ ops[c] < MaxOps
    /\ ops' = [ops EXCEPT ![c] = @ + 1]
    /\ EnviaPeticion(c, Texto(Numeral(n)))
    /\ Va(c, espera)
    /\ UNCHANGED <<entrada, campos, pedido, hebras>>

EligeAlta(c) == EligeAltaODescarga(c, 1, "espera_ack1")
EligeDescarga(c) == EligeAltaODescarga(c, 2, "espera_ack2")

\* Any other number leaves the menu.
EligeSalir(c) ==
    /\ cpc[c] = "menu"
    /\ entrada[c]
    /\ Va(c, "join")
    /\ UNCHANGED <<entrada, campos, pedido, hebras, ops, red>>

\* main waits for every serving thread.
Join(c) ==
    /\ cpc[c] = "join"
    /\ sirviendo[c] = {}
    /\ Termina(c)

----------------------------------------------------------------------------
(* Replies.                                                                *)

MutRecibeListado(c) ==
    /\ cpc[c] = "espera_listado"
    /\ Va(c, "menu")
    /\ UNCHANGED <<entrada, campos, pedido, hebras, ops, red>>

\* Whatever arrives is printed as the list.
RecibeListado(c) ==
    /\ cpc[c] = "espera_listado"
    /\ RecogeRespuesta(c)
    /\ Va(c, "menu")
    /\ UNCHANGED <<entrada, campos, pedido, hebras, ops>>

\* The first ACK of options 1 and 2.
RecibeAck(c) ==
    /\ cpc[c] \in {"espera_ack1", "espera_ack2"}
    /\ respuesta[c] = ACK
    /\ RecogeRespuesta(c)
    /\ Va(c, IF cpc[c] = "espera_ack1" THEN "pide_datos" ELSE "pide_nombre")
    /\ UNCHANGED <<entrada, campos, pedido, hebras, ops>>

\* Anything else where an ACK is expected: exit(-1).
RecibeOtraCosa(c) ==
    /\ cpc[c] \in {"espera_ack1", "espera_ack2", "espera_ack_datos"}
    /\ respuesta[c] \notin {Nada, ACK}
    /\ Termina(c)

MutPuertoHebra(t) == Stoi(t)

\* The port typed, converted to the uint16_t of hebra_servidora_ficheros.
PuertoHebra(t) == Stoi(t) % 65536

MutRecibeAlta(c) ==
    /\ cpc[c] = "espera_ack_datos"
    /\ Stoi(campos[c].puerto) # NoNum
    /\ RecogeRespuesta(c)
    /\ sirviendo' = [sirviendo EXCEPT ![c] =
                       @ \cup {[nombre |-> campos[c].nombre,
                                puerto |-> PuertoHebra(campos[c].puerto)]}]
    /\ Va(c, "menu")
    /\ UNCHANGED <<entrada, campos, pedido, descargas, ops>>

\* The ACK of the registration: the serving thread starts.  std::stoi throws
\* out of main when the port is no number.
RecibeAlta(c) ==
    /\ cpc[c] = "espera_ack_datos"
    /\ respuesta[c] = ACK
    /\ Stoi(campos[c].puerto) # NoNum
    /\ RecogeRespuesta(c)
    /\ sirviendo' = [sirviendo EXCEPT ![c] =
                       @ \cup {[nombre |-> campos[c].nombre,
                                puerto |-> PuertoHebra(campos[c].puerto)]}]
    /\ Va(c, "menu")
    /\ UNCHANGED <<entrada, campos, pedido, descargas, ops>>

RecibeAltaSinPuerto(c) ==
    /\ cpc[c] = "espera_ack_datos"
    /\ respuesta[c] = ACK
    /\ Stoi(campos[c].puerto) = NoNum
    /\ Termina(c)

MutRecibeDireccion(c) ==
    /\ cpc[c] = "espera_dir"
    /\ RecogeRespuesta(c)
    /\ descargas' = IF respuesta[c] = EMPTY THEN descargas
                    ELSE [descargas EXCEPT ![c] =
                            @ \cup {[fichero |-> pedido[c], resp |-> respuesta[c]]}]
    /\ Va(c, IF respuesta[c] = EMPTY THEN "espera_dir" ELSE "menu")
    /\ UNCHANGED <<entrada, campos, pedido, sirviendo, ops>>

\* Everything but "EMPTY" is taken for the address of a client.
RecibeDireccion(c) ==
    /\ cpc[c] = "espera_dir"
    /\ RecogeRespuesta(c)
    /\ descargas' = IF respuesta[c] = EMPTY THEN descargas
                    ELSE [descargas EXCEPT ![c] =
                            @ \cup {[fichero |-> pedido[c], resp |-> respuesta[c]]}]
    /\ Va(c, "menu")
    /\ UNCHANGED <<entrada, campos, pedido, sirviendo, ops>>

----------------------------------------------------------------------------
(* What the user types in the middle of a dialogue.                        *)

\* The three fields; when standard input ends the ones not read yet keep the
\* value of the last registration.
PideDatos(c) ==
    /\ cpc[c] = "pide_datos"
    /\ \E k \in 0 .. 3, d \in Datos :
          LET leidos == [nombre |-> IF k >= 1 THEN d.nombre ELSE campos[c].nombre,
                         ip     |-> IF k >= 2 THEN d.ip ELSE campos[c].ip,
                         puerto |-> IF k = 3 THEN d.puerto ELSE campos[c].puerto]
          IN /\ d.nombre # Vacio /\ d.ip # IpVacia /\ d.puerto # Vacio
             /\ campos' = [campos EXCEPT ![c] = leidos]
             /\ entrada' = [entrada EXCEPT ![c] = (k = 3)]
             /\ EnviaPeticion(c, Registro(leidos))
    /\ Va(c, "espera_ack_datos")
    /\ UNCHANGED <<pedido, hebras, ops>>

\* The name; solicitud is still empty when standard input ends.
PideNombre(c) ==
    /\ cpc[c] = "pide_nombre"
    /\ \E f \in Nombres \cup {Vacio} :
          /\ pedido' = [pedido EXCEPT ![c] = f]
          /\ entrada' = [entrada EXCEPT ![c] = (f # Vacio)]
          /\ EnviaPeticion(c, Texto(f))
    /\ Va(c, "espera_dir")
    /\ UNCHANGED <<campos, hebras, ops>>

----------------------------------------------------------------------------
\* A serving thread ends by an exception: the port is taken, or writing to a
\* peer fails.
TerminaHebra(c) ==
    /\ \E h \in sirviendo[c] : sirviendo' = [sirviendo EXCEPT ![c] = @ \ {h}]
    /\ UNCHANGED <<cpc, entrada, campos, pedido, descargas, ops, red>>

\* The user presses Ctrl+C, the machine goes down.
ClienteMuere(c) == cpc[c] # "fin" /\ Termina(c)

Usuario(c) ==
    \/ EligeListado(c) \/ EligeAlta(c) \/ EligeDescarga(c) \/ EligeSalir(c)
    \/ PideDatos(c) \/ PideNombre(c)

Recibe(c) ==
    \/ RecibeListado(c) \/ RecibeAck(c) \/ RecibeOtraCosa(c) \/ RecibeAlta(c)
    \/ RecibeAltaSinPuerto(c) \/ RecibeDireccion(c)

NextCliente(c) ==
    Usuario(c) \/ Recibe(c) \/ Join(c) \/ TerminaHebra(c) \/ ClienteMuere(c)
=============================================================================
