-------------------------- MODULE ServicioProofs ---------------------------
(***************************************************************************)
(* Theorems about the whole service, for any number of clients, requests   *)
(* and restarts.                                                           *)
(***************************************************************************)
EXTENDS Servicio, ServidorProofs

\* Messages, replies and the empty slot are told apart by their tag.
LEMMA Distintos ==
  /\ Nada \notin Mensajes /\ Nada \notin Respuestas
  /\ ACK # EMPTY /\ ACK \notin Direcciones /\ ACK \notin Listados
  /\ ACK \in Respuestas /\ EMPTY \in Respuestas
<1>1. Nada.tipo = "nada" /\ ACK.tipo = "ACK" /\ EMPTY.tipo = "EMPTY"
  BY DEF Nada, ACK, EMPTY
<1>2. \A m \in Mensajes : m.tipo \in {"texto", "datos"}
  BY DEF Mensajes, MensajesTexto, MensajesDatos
<1>3. \A r \in Direcciones : r.tipo = "dir"
  BY DEF Direcciones
<1>4. \A r \in Listados : r.tipo = "listado"
  BY DEF Listados
<1> QED BY <1>1, <1>2, <1>3, <1>4 DEF Respuestas

LEMMA NumeralToken == \A n \in 0 .. 2 : Numeral(n) \in Tokens
<1>1. \A n \in 0 .. 2 : n \in Nat \cup {NoNum}
  OBVIOUS
<1>2. "" \in STRING
  BY TextosTipo, CamposAssumption DEF Vacio, Palabra
<1> QED BY <1>1, <1>2 DEF Numeral, Tokens

\* What the clients send are requests.
LEMMA EnviosTipo ==
  /\ \A n \in 0 .. 2 : Texto(Numeral(n)) \in Mensajes
  /\ \A f \in Nombres \cup {Vacio} : Texto(f) \in Mensajes
  /\ \A d \in Datos : Registro(d) \in Mensajes
<1>1. \A t \in Tokens : Texto(t) \in Mensajes
  BY DEF Texto, Mensajes, MensajesTexto
<1>2. Nombres \cup {Vacio} \subseteq Tokens
  BY CamposAssumption, TextosTipo
<1>3. \A d \in Datos : Registro(d) \in Mensajes
  BY DEF Registro, Mensajes, MensajesDatos
<1> QED BY <1>1, <1>2, <1>3, NumeralToken

\* What the server answers are replies.
LEMMA RespuestaTipo ==
  ASSUME TypeOKServidor, NEW m
  PROVE  Respuesta(m) \in Respuestas
<1>1. ObtenerFicheros(tabla) \in Respuestas
  BY Distintos DEF ObtenerFicheros, Presentes, Respuestas, Listados
<1>2. \A f : ObtenerCliente(tabla, f) \in Respuestas
  <2> TAKE f
  <2>1. CASE f \notin Presentes(tabla)
    BY <2>1, Distintos DEF ObtenerCliente
  <2>2. CASE f \in Presentes(tabla)
    <3>1. f \in Textos /\ tabla[f] \in Seq(Direccion) /\ tabla[f] # << >>
      BY <2>2 DEF Presentes, TypeOKServidor
    <3>2. tabla[f][1] \in Direccion
      BY <3>1, EmptySeq, ElementOfSeq
    <3>3. tabla[f][1].ip \in U32 /\ tabla[f][1].puerto \in U16
      BY <3>2, EscritosDef DEF Direccion
    <3>4. Htons(tabla[f][1].puerto) \in U16
      BY <3>3, HtonsTipo, MaxU16Tipo DEF U16
    <3>5. [tipo |-> "dir", ip |-> tabla[f][1].ip, puerto |-> Htons(tabla[f][1].puerto)] \in Direcciones
      BY <3>3, <3>4 DEF Direcciones
    <3> QED BY <2>2, <3>5 DEF ObtenerCliente, Respuestas
  <2> QED BY <2>1, <2>2
<1> QED BY <1>1, <1>2, Distintos, Zenon DEF Respuesta

----------------------------------------------------------------------------
\* A step of the service is a step of the server or leaves it alone.
LEMMA PasoDeServicio ==
  ASSUME TypeOK, [NextServicio]_varsServicio
  PROVE  [PasoServidor]_varsServidor
<1>1. CASE UNCHANGED varsServicio
  BY <1>1 DEF varsServicio
<1>2. CASE PasoPropio(Interno) \/ PasoPropio(Entorno)
  BY <1>2 DEF PasoPropio, PasoServidor
<1>3. ASSUME NEW c \in Clientes,
             EntregaPeticion(c) \/ PierdePeticion(c) \/ PasoCliente(c)
      PROVE  UNCHANGED varsServidor
  BY <1>3 DEF EntregaPeticion, PierdePeticion, PasoCliente
<1>4. ASSUME NEW c \in Clientes, AtiendePeticion(c)
      PROVE  PasoServidor
  BY <1>4 DEF AtiendePeticion, PasoServidor, TypeOK, TypeOKRed
<1> QED BY <1>1, <1>2, <1>3, <1>4 DEF NextServicio

----------------------------------------------------------------------------
(* Types of the clients and of the network.                                *)

LEMMA CamposVaciosTipo == CamposVacios \in Datos
BY CamposAssumption DEF CamposVacios, Datos

LEMMA InitTipoServicio == InitServicio => TypeOK
<1> SUFFICES ASSUME InitServicio PROVE TypeOK
  OBVIOUS
<1>1. TypeOKServidor
  BY InitTipo DEF InitServicio
<1>2. TypeOKRed
  BY DEF InitServicio, InitRed, TypeOKRed
<1>3. TypeOKClientes
  BY CamposVaciosTipo, ClienteAssumption DEF InitServicio, InitClientes, TypeOKClientes, Esperas, Opciones
<1> QED BY <1>1, <1>2, <1>3 DEF TypeOK

\* The operations of the network on the connection of one client.
LEMMA RedTipo ==
  ASSUME TypeOKRed, NEW c \in Clientes
  PROVE  /\ \A m \in Mensajes : EnviaPeticion(c, m) => TypeOKRed'
         /\ Transporta(c) \/ Pierde(c) \/ RecogeRespuesta(c) \/ Desconecta(c) => TypeOKRed'
         /\ \A r \in Respuestas : EnviaRespuesta(c, r) => TypeOKRed'
<1>1. ASSUME NEW m \in Mensajes, EnviaPeticion(c, m) PROVE TypeOKRed'
  BY <1>1 DEF TypeOKRed, EnviaPeticion
<1>2. CASE Transporta(c) \/ Pierde(c)
  BY <1>2 DEF TypeOKRed, Transporta, Pierde
<1>3. CASE RecogeRespuesta(c) \/ Desconecta(c)
  BY <1>3 DEF TypeOKRed, RecogeRespuesta, Desconecta
<1>4. ASSUME NEW r \in Respuestas, EnviaRespuesta(c, r) PROVE TypeOKRed'
  BY <1>4 DEF TypeOKRed, EnviaRespuesta
<1> QED BY <1>1, <1>2, <1>3, <1>4

LEMMA CaeTipo == TypeOKRed /\ CaeServidor => TypeOKRed'
BY DEF TypeOKRed, CaeServidor

LEMMA TerminaTipo ==
  ASSUME TypeOKClientes, TypeOKRed, NEW c \in Clientes, Termina(c)
  PROVE  TypeOKClientes' /\ TypeOKRed'
<1>1. TypeOKRed'
  BY RedTipo DEF Termina
<1>2. TypeOKClientes'
  BY DEF Termina, Va, TypeOKClientes
<1> QED BY <1>1, <1>2

LEMMA ClienteTipo ==
  ASSUME TypeOKClientes, TypeOKRed, NEW c \in Clientes, NextCliente(c)
  PROVE  TypeOKClientes' /\ TypeOKRed'
<1> USE DEF hebras, Va
<1>1. CASE EligeListado(c)
  <2>1. TypeOKRed'
    BY <1>1, RedTipo, EnviosTipo DEF EligeListado
  <2>2. TypeOKClientes'
    BY <1>1 DEF EligeListado, TypeOKClientes, Esperas, Opciones
  <2> QED BY <2>1, <2>2
<1>2. ASSUME NEW n \in 0 .. 2, NEW e \in Esperas, EligeAltaODescarga(c, n, e)
      PROVE  TypeOKClientes' /\ TypeOKRed'
  <2>1. TypeOKRed'
    BY <1>2, RedTipo, EnviosTipo DEF EligeAltaODescarga
  <2>2. ops[c] + 1 \in 0 .. MaxOps
    BY <1>2, ClienteAssumption DEF EligeAltaODescarga, TypeOKClientes
  <2>3. TypeOKClientes'
    BY <1>2, <2>2 DEF EligeAltaODescarga, TypeOKClientes
  <2> QED BY <2>1, <2>3
<1>3. CASE EligeAlta(c) \/ EligeDescarga(c)
  BY <1>2, <1>3 DEF EligeAlta, EligeDescarga, Esperas, Opciones
<1>4. CASE EligeSalir(c) \/ TerminaHebra(c)
  <2>1. TypeOKRed'
    BY <1>4 DEF EligeSalir, TerminaHebra, TypeOKRed, red
  <2>2. TypeOKClientes'
    BY <1>4 DEF EligeSalir, TerminaHebra, TypeOKClientes
  <2> QED BY <2>1, <2>2
<1>5. CASE Join(c) \/ RecibeOtraCosa(c) \/ RecibeAltaSinPuerto(c) \/ ClienteMuere(c)
  BY <1>5, TerminaTipo DEF Join, RecibeOtraCosa, RecibeAltaSinPuerto, ClienteMuere
<1>6. CASE RecibeListado(c) \/ RecibeAck(c)
  <2>1. TypeOKRed'
    BY <1>6, RedTipo DEF RecibeListado, RecibeAck
  <2>2. TypeOKClientes'
    BY <1>6 DEF RecibeListado, RecibeAck, TypeOKClientes
  <2> QED BY <2>1, <2>2
<1>7. CASE RecibeAlta(c)
  <2>1. TypeOKRed'
    BY <1>7, RedTipo DEF RecibeAlta
  <2>2. campos[c] \in Datos
    BY DEF TypeOKClientes
  <2>3. campos[c].nombre \in Nombres \cup {Vacio} /\ campos[c].puerto.num \in Int
    BY <1>7, <2>2, CamposAssumption DEF RecibeAlta, Datos, Stoi
  <2>4. PuertoHebra(campos[c].puerto) \in U16
    <3>1. PICK q \in Int : q = campos[c].puerto.num
      BY <2>3
    <3>2. q % 65536 \in Int /\ 0 <= q % 65536 /\ q % 65536 <= 65535
      BY SMT
    <3> QED BY <3>1, <3>2, EnU16 DEF PuertoHebra, Stoi
  <2>5. sirviendo' \in [Clientes -> SUBSET [nombre : Nombres \cup {Vacio}, puerto : U16]]
    BY <1>7, <2>3, <2>4 DEF RecibeAlta, TypeOKClientes
  <2>6. TypeOKClientes'
    BY <1>7, <2>5 DEF RecibeAlta, TypeOKClientes
  <2> QED BY <2>1, <2>6
<1>8. CASE RecibeDireccion(c)
  <2>1. TypeOKRed'
    BY <1>8, RedTipo DEF RecibeDireccion
  <2>2. respuesta[c] \in Respuestas
    BY <1>8 DEF RecibeDireccion, RecogeRespuesta, TypeOKRed
  <2>3. descargas' \in [Clientes -> SUBSET [fichero : Nombres \cup {Vacio}, resp : Respuestas]]
    BY <1>8, <2>2 DEF RecibeDireccion, TypeOKClientes
  <2>4. TypeOKClientes'
    BY <1>8, <2>3 DEF RecibeDireccion, TypeOKClientes
  <2> QED BY <2>1, <2>4
<1>9. CASE PideDatos(c)
  <2>1. PICK d \in Datos, k \in 0 .. 3 :
          LET leidos == [nombre |-> IF k >= 1 THEN d.nombre ELSE campos[c].nombre,
                         ip     |-> IF k >= 2 THEN d.ip ELSE campos[c].ip,
                         puerto |-> IF k = 3 THEN d.puerto ELSE campos[c].puerto]
          IN /\ campos' = [campos EXCEPT ![c] = leidos]
             /\ entrada' = [entrada EXCEPT ![c] = (k = 3)]
             /\ EnviaPeticion(c, Registro(leidos))
    BY <1>9 DEF PideDatos
  <2> DEFINE leidos == [nombre |-> IF k >= 1 THEN d.nombre ELSE campos[c].nombre,
                        ip     |-> IF k >= 2 THEN d.ip ELSE campos[c].ip,
                        puerto |-> IF k = 3 THEN d.puerto ELSE campos[c].puerto]
  <2>2. leidos \in Datos
    BY DEF TypeOKClientes, Datos
  <2> HIDE DEF leidos
  <2>3. /\ campos' = [campos EXCEPT ![c] = leidos]
        /\ entrada' = [entrada EXCEPT ![c] = (k = 3)]
        /\ EnviaPeticion(c, Registro(leidos))
    BY <2>1 DEF leidos
  <2>4. TypeOKRed'
    BY <2>2, <2>3, RedTipo, EnviosTipo
  <2>5. campos' \in [Clientes -> Datos] /\ entrada' \in [Clientes -> BOOLEAN]
    BY <2>2, <2>3 DEF TypeOKClientes
  <2>6. TypeOKClientes'
    BY <1>9, <2>5 DEF PideDatos, TypeOKClientes, Esperas
  <2> QED BY <2>4, <2>6
<1>10. CASE PideNombre(c)
  <2>1. PICK f \in Nombres \cup {Vacio} :
          /\ pedido' = [pedido EXCEPT ![c] = f]
          /\ entrada' = [entrada EXCEPT ![c] = (f # Vacio)]
          /\ EnviaPeticion(c, Texto(f))
    BY <1>10 DEF PideNombre
  <2>2. TypeOKRed'
    BY <2>1, RedTipo, EnviosTipo
  <2>3. pedido' \in [Clientes -> Nombres \cup {Vacio}] /\ entrada' \in [Clientes -> BOOLEAN]
    BY <2>1 DEF TypeOKClientes
  <2>4. TypeOKClientes'
    BY <1>10, <2>3 DEF PideNombre, TypeOKClientes, Esperas
  <2> QED BY <2>2, <2>4
<1> QED
  BY <1>1, <1>3, <1>4, <1>5, <1>6, <1>7, <1>8, <1>9, <1>10
     DEF NextCliente, Usuario, Recibe

LEMMA TipoPasoServicio ==
  ASSUME TypeOK, [NextServicio]_varsServicio
  PROVE  TypeOK'
<1>1. TypeOKServidor'
  BY TipoPaso, PasoDeServicio DEF TypeOK
<1>2. CASE UNCHANGED varsServicio
  <2>1. TypeOKClientes' /\ TypeOKRed'
    BY <1>2 DEF varsServicio, varsClientes, hebras, red, TypeOK, TypeOKClientes, TypeOKRed
  <2> QED BY <1>1, <2>1 DEF TypeOK
<1>3. ASSUME NEW c \in Clientes, PasoCliente(c) PROVE TypeOK'
  BY <1>1, <1>3, ClienteTipo DEF PasoCliente, TypeOK
<1>4. CASE UNCHANGED varsClientes /\ TypeOKRed'
  <2>1. TypeOKClientes'
    BY <1>4 DEF varsClientes, hebras, TypeOK, TypeOKClientes
  <2> QED BY <1>1, <1>4, <2>1 DEF TypeOK
<1>5. CASE PasoPropio(Interno) \/ PasoPropio(Entorno)
  <2>1. UNCHANGED varsClientes /\ (CaeServidor \/ UNCHANGED red)
    BY <1>5 DEF PasoPropio
  <2>2. TypeOKRed'
    BY <2>1, CaeTipo DEF TypeOK, TypeOKRed, red
  <2> QED BY <1>4, <2>1, <2>2
<1>6. ASSUME NEW c \in Clientes, EntregaPeticion(c) \/ PierdePeticion(c) PROVE TypeOK'
  <2>1. UNCHANGED varsClientes /\ TypeOKRed'
    BY <1>6, RedTipo DEF EntregaPeticion, PierdePeticion, TypeOK
  <2> QED BY <1>4, <2>1
<1>7. ASSUME NEW c \in Clientes, AtiendePeticion(c) PROVE TypeOK'
  <2>1. Respuesta(cola[c]) \in Respuestas
    BY RespuestaTipo DEF TypeOK
  <2>2. UNCHANGED varsClientes /\ (CaeServidor \/ EnviaRespuesta(c, Respuesta(cola[c])))
    BY <1>7 DEF AtiendePeticion
  <2>3. TypeOKRed'
    BY <2>1, <2>2, CaeTipo, RedTipo DEF TypeOK
  <2> QED BY <1>4, <2>2, <2>3
<1> QED BY <1>2, <1>3, <1>5, <1>6, <1>7 DEF NextServicio

\* The types of the whole service, for any number of clients.
THEOREM TipoServicio == SpecServicio => []TypeOK
<1>1. TypeOK /\ [NextServicio]_varsServicio => TypeOK'
  BY TipoPasoServicio
<1> QED BY <1>1, InitTipoServicio, PTL DEF SpecServicio

----------------------------------------------------------------------------
(* The REQ/REP discipline.                                                 *)

\* A server process has ended since the service began.
Caido == arranques > 1 \/ (arranques = 1 /\ spc = "parado")

SinArrancar == arranques = 0 => spc = "parado" /\ crow = "no"

Conexion(c) ==
    /\ c \in conectados <=> cpc[c] # "fin"
    /\ c \notin conectados => /\ salida[c] = Nada /\ respuesta[c] = Nada
                              /\ sirviendo[c] = {} /\ descargas[c] = {}
    /\ c \in conectados =>
          /\ ~(salida[c] # Nada /\ cola[c] # Nada)
          /\ ~(salida[c] # Nada /\ respuesta[c] # Nada)
          /\ ~(cola[c] # Nada /\ respuesta[c] # Nada)
          /\ cpc[c] \notin Esperas =>
                salida[c] = Nada /\ cola[c] = Nada /\ respuesta[c] = Nada
    /\ SinRastro(c) => Caido

\* The inductive strengthening of UnaPeticion.
InvConexion == TypeOK /\ SinArrancar /\ \A c \in Clientes : Conexion(c)

\* Nothing that belongs to the client c changes.
Ajeno(c) ==
    /\ cpc'[c] = cpc[c] /\ campos'[c] = campos[c] /\ pedido'[c] = pedido[c]
    /\ sirviendo'[c] = sirviendo[c] /\ descargas'[c] = descargas[c]
    /\ salida'[c] = salida[c] /\ cola'[c] = cola[c] /\ respuesta'[c] = respuesta[c]
    /\ (c \in conectados' <=> c \in conectados)

LEMMA ClienteAjeno ==
  ASSUME TypeOK, NEW b \in Clientes, NEW c \in Clientes, b # c, NextCliente(b)
  PROVE  Ajeno(c)
<1> USE DEF TypeOK, TypeOKClientes, TypeOKRed, hebras, Va, Ajeno
<1>1. CASE EligeListado(b) \/ EligeAlta(b) \/ EligeDescarga(b)
  BY <1>1 DEF EligeListado, EligeAlta, EligeDescarga, EligeAltaODescarga, EnviaPeticion
<1>2. CASE EligeSalir(b) \/ TerminaHebra(b)
  BY <1>2 DEF EligeSalir, TerminaHebra, red
<1>3. CASE Join(b) \/ RecibeOtraCosa(b) \/ RecibeAltaSinPuerto(b) \/ ClienteMuere(b)
  BY <1>3 DEF Join, RecibeOtraCosa, RecibeAltaSinPuerto, ClienteMuere, Termina, Desconecta
<1>4. CASE RecibeListado(b) \/ RecibeAck(b) \/ RecibeAlta(b) \/ RecibeDireccion(b)
  BY <1>4 DEF RecibeListado, RecibeAck, RecibeAlta, RecibeDireccion, RecogeRespuesta
<1>5. CASE PideDatos(b) \/ PideNombre(b)
  BY <1>5 DEF PideDatos, PideNombre, EnviaPeticion
<1> QED BY <1>1, <1>2, <1>3, <1>4, <1>5 DEF NextCliente, Usuario, Recibe

LEMMA CaidoEstable ==
  ASSUME TypeOKServidor, SinArrancar, [PasoServidor]_varsServidor
  PROVE  /\ SinArrancar'
         /\ Caido => Caido'
         /\ PasoServidor /\ spc' = "parado" => Caido'
<1> USE DEF TypeOKServidor, SinArrancar, Caido, memoria, disco, contadores
<1>1. CASE Arranca
  BY <1>1 DEF Arranca
<1>2. CASE Para /\ arranques # 0
  BY <1>2 DEF Para
<1>3. CASE /\ UNCHANGED arranques /\ arranques # 0
           /\ (spc = "parado" => spc' = "parado") /\ (spc' = "parado" => spc = "parado")
  BY <1>3
<1>4. CASE RecuperarDatos \/ LeeRegistro \/ LeeFin \/ LanzaCrow \/ CrowSirve \/ SalvaLinea
  BY <1>3, <1>4 DEF RecuperarDatos, LeeRegistro, LeeFin, LanzaCrow, CrowSirve, SalvaLinea
<1>5. CASE SalvaFin
  BY <1>2, <1>3, <1>5 DEF SalvaFin
<1>6. CASE SaleDelManejador \/ CrowFalla \/ Muere \/ SigintDefecto
  BY <1>2, <1>6 DEF SaleDelManejador, CrowFalla, Muere, SigintDefecto
<1>7. ASSUME NEW d \in Datos, HttpGuardar(d) \/ HttpAgregarFichero(d)
      PROVE  UNCHANGED <<arranques, spc>> /\ arranques # 0
  BY <1>7 DEF HttpGuardar, HttpAgregarFichero
<1>8. CASE SigintPropio
  BY <1>3, <1>8 DEF SigintPropio, AbreRespaldo, Arranque, Bucle
<1>9. CASE SigintCrow
  BY <1>2, <1>3, <1>9 DEF SigintCrow
<1>10. ASSUME NEW m \in Mensajes, Recv(m)
       PROVE  /\ arranques # 0
              /\ Para \/ (UNCHANGED arranques /\ spc # "parado" /\ spc' # "parado")
  BY <1>10 DEF Recv, RecvListado, RecvAlta, RecvDescarga, RecvNombre, RecvNoValido,
               RecvDatosMal, RecvDatos, varsServidor
<1>11. CASE UNCHANGED varsServidor /\ ~PasoServidor
  BY <1>11 DEF varsServidor
<1> QED
  BY <1>1, <1>2, <1>3, <1>4, <1>5, <1>6, <1>7, <1>8, <1>9, <1>10, <1>11
     DEF PasoServidor, Interno, Entorno, Sigint

LEMMA InitConexion == InitServicio => InvConexion
<1> SUFFICES ASSUME InitServicio PROVE InvConexion
  OBVIOUS
<1>1. SinArrancar
  BY DEF InitServicio, InitServidor, SinArrancar
<1>2. \A c \in Clientes : Conexion(c)
  BY DEF InitServicio, InitClientes, InitRed, Conexion, SinRastro, Esperas, Opciones
<1> QED BY <1>1, <1>2, InitTipoServicio DEF InvConexion

\* A step of the client c itself, which leaves the server alone.
LEMMA ConexionCliente ==
  ASSUME TypeOK, NEW c \in Clientes, Conexion(c), NextCliente(c), UNCHANGED varsServidor
  PROVE  Conexion(c)'
<1> USE DEF TypeOK, TypeOKClientes, TypeOKRed, hebras, Va, Esperas, Opciones
<1>0. Caido' <=> Caido
  BY DEF Caido, varsServidor, contadores
<1>1. CASE EligeListado(c) \/ EligeAlta(c) \/ EligeDescarga(c)
  <2>1. PICK n \in 0 .. 2 : EnviaPeticion(c, Texto(Numeral(n)))
    BY <1>1 DEF EligeListado, EligeAlta, EligeDescarga, EligeAltaODescarga
  <2>2. Texto(Numeral(n)) # Nada
    BY EnviosTipo, Distintos
  <2>3. /\ salida'[c] = Texto(Numeral(n)) /\ UNCHANGED <<cola, respuesta, conectados>>
        /\ cpc'[c] \in Esperas /\ cpc[c] = "menu" /\ UNCHANGED <<sirviendo, descargas>>
    BY <1>1, <2>1 DEF EnviaPeticion, EligeListado, EligeAlta, EligeDescarga, EligeAltaODescarga
  <2> QED BY <1>0, <2>2, <2>3 DEF Conexion, SinRastro
<1>2. CASE EligeSalir(c) \/ TerminaHebra(c)
  BY <1>0, <1>2 DEF EligeSalir, TerminaHebra, red, Conexion, SinRastro
<1>3. CASE Join(c) \/ RecibeOtraCosa(c) \/ RecibeAltaSinPuerto(c) \/ ClienteMuere(c)
  <2>1. Termina(c)
    BY <1>3 DEF Join, RecibeOtraCosa, RecibeAltaSinPuerto, ClienteMuere
  <2> QED BY <2>1 DEF Termina, Desconecta, Conexion, SinRastro
<1>4. CASE RecibeListado(c) \/ RecibeAck(c) \/ RecibeAlta(c) \/ RecibeDireccion(c)
  <2>1. /\ RecogeRespuesta(c) /\ cpc[c] \in Esperas
        /\ cpc'[c] \in {"menu", "pide_datos", "pide_nombre"}
    BY <1>4 DEF RecibeListado, RecibeAck, RecibeAlta, RecibeDireccion
  <2> QED BY <2>1 DEF RecogeRespuesta, Conexion, SinRastro
<1>5. CASE PideDatos(c) \/ PideNombre(c)
  <2>1. cpc[c] \in {"pide_datos", "pide_nombre"} /\ cpc'[c] \in Esperas
        /\ UNCHANGED <<sirviendo, descargas>>
    BY <1>5 DEF PideDatos, PideNombre
  <2>2. \E m : EnviaPeticion(c, m)
    BY <1>5 DEF PideDatos, PideNombre
  <2>3. salida'[c] \in Mensajes
    <3>1. TypeOKRed' /\ TypeOKClientes'
      BY ClienteTipo
    <3>2. CASE PideNombre(c)
      <4>1. PICK f \in Nombres \cup {Vacio} : EnviaPeticion(c, Texto(f))
        BY <3>2 DEF PideNombre
      <4>2. Texto(f) \in Mensajes
        BY EnviosTipo
      <4> QED BY <4>1, <4>2 DEF EnviaPeticion
    <3>3. CASE PideDatos(c)
      <4>1. PICK d : EnviaPeticion(c, Registro(d)) /\ campos'[c] = d
        BY <3>3 DEF PideDatos
      <4>2. Registro(d) \in Mensajes
        BY <3>1, <4>1, EnviosTipo
      <4> QED BY <4>1, <4>2 DEF EnviaPeticion
    <3> QED BY <1>5, <3>2, <3>3
  <2> QED BY <1>0, <2>1, <2>2, <2>3, Distintos DEF EnviaPeticion, Conexion, SinRastro
<1> QED BY <1>1, <1>2, <1>3, <1>4, <1>5 DEF NextCliente, Usuario, Recibe

LEMMA ConexionPaso ==
  ASSUME InvConexion, [NextServicio]_varsServicio
  PROVE  InvConexion'
<1>1. TypeOK' /\ [PasoServidor]_varsServidor
  BY TipoPasoServicio, PasoDeServicio DEF InvConexion
<1>2. /\ SinArrancar'
      /\ Caido => Caido'
      /\ PasoServidor /\ spc' = "parado" => Caido'
  BY <1>1, CaidoEstable DEF InvConexion, TypeOK
<1> SUFFICES ASSUME NEW c \in Clientes PROVE Conexion(c)'
  BY <1>1, <1>2 DEF InvConexion
<1>3. CASE Ajeno(c)
  BY <1>2, <1>3 DEF InvConexion, Conexion, SinRastro, Ajeno
<1>4. ASSUME NEW b \in Clientes, PasoCliente(b) PROVE Conexion(c)'
  <2>1. CASE b = c
    BY <1>4, <2>1, ConexionCliente DEF InvConexion, PasoCliente
  <2>2. CASE b # c
    BY <1>3, <1>4, <2>2, ClienteAjeno DEF InvConexion, PasoCliente
  <2> QED BY <2>1, <2>2
<1>5. CASE UNCHANGED varsClientes /\ UNCHANGED red
  BY <1>3, <1>5 DEF varsClientes, hebras, red, Ajeno
<1>6. CASE UNCHANGED varsClientes /\ CaeServidor /\ Caido'
  BY <1>6 DEF varsClientes, hebras, CaeServidor, InvConexion, Conexion, SinRastro,
              TypeOK, TypeOKRed
<1>7. CASE PasoPropio(Interno) \/ PasoPropio(Entorno)
  BY <1>2, <1>5, <1>6, <1>7 DEF PasoPropio, PasoServidor
<1>8. ASSUME NEW b \in Clientes, EntregaPeticion(b) \/ PierdePeticion(b)
      PROVE  Conexion(c)'
  <2>1. CASE b # c
    <3>1. Ajeno(c)
      BY <1>8, <2>1 DEF EntregaPeticion, PierdePeticion, Transporta, Pierde, Ajeno,
                        varsClientes, hebras, InvConexion, TypeOK, TypeOKRed
    <3> QED BY <1>3, <3>1
  <2>2. CASE b = c /\ EntregaPeticion(c)
    BY <1>2, <2>2 DEF EntregaPeticion, Transporta, varsClientes, hebras, InvConexion,
                      TypeOK, TypeOKRed, Conexion, SinRastro
  <2>3. CASE b = c /\ PierdePeticion(c)
    <3>1. Caido
      BY <2>3 DEF PierdePeticion, Caido, InvConexion, TypeOK, TypeOKServidor
    <3> QED BY <1>2, <2>3, <3>1
            DEF PierdePeticion, Pierde, varsClientes, hebras, InvConexion,
                TypeOK, TypeOKRed, Conexion, SinRastro
  <2> QED BY <1>8, <2>1, <2>2, <2>3
<1>9. ASSUME NEW b \in Clientes, AtiendePeticion(b) PROVE Conexion(c)'
  <2>1. UNCHANGED varsClientes /\ PasoServidor /\ cola[b] # Nada
    BY <1>9 DEF AtiendePeticion, PasoServidor, InvConexion, TypeOK, TypeOKRed
  <2>2. CASE spc' = "parado"
    BY <1>2, <1>6, <1>9, <2>1, <2>2 DEF AtiendePeticion
  <2>3. CASE spc' # "parado"
    <3>1. EnviaRespuesta(b, Respuesta(cola[b]))
      BY <1>9, <2>3 DEF AtiendePeticion
    <3>2. Respuesta(cola[b]) # Nada
      BY RespuestaTipo, Distintos DEF InvConexion, TypeOK
    <3>3. CASE b # c
      <4>1. Ajeno(c)
        BY <2>1, <3>1, <3>3 DEF EnviaRespuesta, Ajeno, varsClientes, hebras,
                                InvConexion, TypeOK, TypeOKRed
      <4> QED BY <1>3, <4>1
    <3>4. CASE b = c
      <4>1. /\ cola'[c] = Nada /\ salida'[c] = salida[c] /\ conectados' = conectados
            /\ respuesta'[c] = IF c \in conectados THEN Respuesta(cola[b]) ELSE Nada
        BY <3>1, <3>4 DEF EnviaRespuesta, InvConexion, TypeOK, TypeOKRed
      <4>2. UNCHANGED <<cpc, sirviendo, descargas>> /\ Conexion(c) /\ cola[c] # Nada
        BY <2>1, <3>4 DEF varsClientes, hebras, InvConexion
      <4>3. CASE c \in conectados
        BY <3>2, <4>1, <4>2, <4>3 DEF Conexion, SinRastro
      <4>4. CASE c \notin conectados
        BY <4>1, <4>2, <4>4 DEF Conexion, SinRastro, Esperas, Opciones
      <4> QED BY <4>3, <4>4
    <3> QED BY <3>3, <3>4
  <2> QED BY <2>2, <2>3
<1>10. CASE UNCHANGED varsServicio
  BY <1>5, <1>10 DEF varsServicio
<1> QED BY <1>4, <1>7, <1>8, <1>9, <1>10 DEF NextServicio

\* For any number of clients: a request or its reply is in at most one place,
\* and a client waits for nothing only after a server process has ended.
THEOREM UnaPeticionSiempre == SpecServicio => []UnaPeticion
<1>1. InvConexion => UnaPeticion
  BY DEF InvConexion, Conexion, UnaPeticion, Caido, TypeOK, TypeOKRed
<1>2. InvConexion /\ [NextServicio]_varsServicio => InvConexion'
  BY ConexionPaso
<1> QED BY <1>1, <1>2, InitConexion, PTL DEF SpecServicio
=============================================================================
