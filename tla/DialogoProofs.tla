--------------------------- MODULE DialogoProofs ---------------------------
(***************************************************************************)
(* What an ACK and an address mean to the client that gets them, although  *)
(* the server may take any request for any other: theorems for any number  *)
(* of clients, requests, crashes and restarts.                             *)
(***************************************************************************)
EXTENDS ServicioProofs, DirectorioProofs

\* d was accepted, or its text can be taken for an option that is ACKed.
Confirmado(d) ==
    Stoi(d.nombre) \in {1, 2} \/ (SepararOk(d) /\ SepararString(d) \in aceptados)

DialogoAlta(c) ==
    /\ cpc[c] = "espera_ack_datos" =>
          /\ salida[c] \in {Nada, Registro(campos[c])}
          /\ cola[c] \in {Nada, Registro(campos[c])}
          /\ respuesta[c] = ACK => Confirmado(campos[c])
    /\ \A h \in sirviendo[c] : Stoi(h.nombre) \in {1, 2} \/ Anunciada(h)

\* The inductive strengthening of AltaConfirmada.
InvAlta == InvConexion /\ \A c \in Clientes : DialogoAlta(c)

\* What has been accepted was typed by somebody.
Tecleado == \A a \in aceptados : \E d \in Datos : SepararOk(d) /\ a = SepararString(d)

Ofrecido(f, r) ==
    \/ \E d \in Datos : /\ SepararOk(d) /\ SepararString(d) \in aceptados
                        /\ d.nombre = f /\ InetAddr[d.ip] = r.ip
                        /\ PuertoHebra(d.puerto) = r.puerto
    \/ \E y \in inventados : y.fichero = f /\ y.ip = r.ip /\ Htons(y.puerto) = r.puerto

DialogoDescarga(c) ==
    /\ cpc[c] = "espera_dir" =>
          /\ salida[c] \in {Nada, Texto(pedido[c])}
          /\ cola[c] \in {Nada, Texto(pedido[c])}
          /\ respuesta[c] \in Direcciones => Ofrecido(pedido[c], respuesta[c])
    /\ \A x \in descargas[c] : x.resp \in Direcciones => Ofrecido(x.fichero, x.resp)

\* What is on offer was accepted, or read from the file.
Origen == Ofertas(tabla) \subseteq aceptados \cup inventados

\* The inductive strengthening of DireccionPedida: when records are made up,
\* what the server hands out, and what reaches the clients.
InvDescarga ==
    /\ InvConexion /\ InvBackup /\ InvOrden /\ Tecleado /\ Origen
    /\ \A c \in Clientes : DialogoDescarga(c)

LEMMA TecleadoPaso ==
  ASSUME [PasoServidor]_varsServidor, Tecleado
  PROVE  aceptados \subseteq aceptados' /\ Tecleado'
BY AceptadosCrece DEF Tecleado, Acepta

LEMMA RegistroCampos == \A d : Registro(d).tipo = "datos" /\ Registro(d).datos = d
BY DEF Registro

LEMMA TextoCampos == \A t : Texto(t).tipo = "texto" /\ Texto(t).texto = t
BY DEF Texto

LEMMA ListadoNoAck ==
  /\ ObtenerFicheros(tabla) # ACK
  /\ ObtenerFicheros(tabla) \notin Direcciones
<1>1. /\ EMPTY.tipo = "EMPTY" /\ ACK.tipo = "ACK"
      /\ [tipo |-> "listado", ficheros |-> Presentes(tabla)].tipo = "listado"
  BY DEF EMPTY, ACK
<1>2. ObtenerFicheros(tabla).tipo \in {"EMPTY", "listado"}
  BY <1>1 DEF ObtenerFicheros
<1>3. \A r \in Direcciones : r.tipo = "dir"
  BY DEF Direcciones
<1> QED BY <1>1, <1>2, <1>3

LEMMA EmptyNoDireccion == EMPTY \notin Direcciones
<1>1. EMPTY.tipo = "EMPTY"
  BY DEF EMPTY
<1>2. \A r \in Direcciones : r.tipo = "dir"
  BY DEF Direcciones
<1> QED BY <1>1, <1>2

\* The server answers ACK to a registration only for one of two reasons.
LEMMA AckMerecido ==
  ASSUME NEW d, Recv(Registro(d)), spc' # "parado", Respuesta(Registro(d)) = ACK
  PROVE  Confirmado(d)'
<1> DEFINE m == Registro(d)
<1>0. m.tipo = "datos" /\ m.datos = d /\ NumeroDe(m) = Stoi(d.nombre)
  BY RegistroCampos DEF NumeroDe
<1> HIDE DEF m
<1>1. CASE RecvListado(m)
  <2>1. Respuesta(m) = ObtenerFicheros(tabla)
    BY <1>1 DEF RecvListado, Respuesta
  <2> QED BY <2>1, ListadoNoAck DEF m
<1>2. CASE RecvAlta(m) \/ RecvDescarga(m)
  BY <1>0, <1>2 DEF RecvAlta, RecvDescarga, Confirmado
<1>3. CASE RecvNoValido(m) \/ RecvDatosMal(m)
  BY <1>3 DEF RecvNoValido, RecvDatosMal, Para
<1>4. CASE RecvDatos(m)
  BY <1>0, <1>4 DEF RecvDatos, Acepta, Confirmado
<1>5. CASE RecvNombre(m)
  <2>1. Respuesta(m) = EMPTY
    BY <1>0, <1>5 DEF RecvNombre, Respuesta
  <2> QED BY <2>1, Distintos DEF m
<1> QED BY <1>1, <1>2, <1>3, <1>4, <1>5 DEF Recv, m

\* An accepted registration announces the port the client will listen on.
LEMMA ConfirmadoAnunciado ==
  ASSUME NEW d \in Datos, Confirmado(d), Stoi(d.puerto) # NoNum,
         NEW h, h = [nombre |-> d.nombre, puerto |-> PuertoHebra(d.puerto)]
  PROVE  Stoi(h.nombre) \in {1, 2} \/ Anunciada(h)
<1>1. CASE Stoi(d.nombre) \in {1, 2}
  BY <1>1
<1>2. CASE SepararOk(d) /\ SepararString(d) \in aceptados
  <2>1. Stoi(d.puerto) \in Int
    BY CamposAssumption DEF Datos, Stoi
  <2>2. Htons(Htons(Stoi(d.puerto))) = PuertoHebra(d.puerto)
    BY <2>1, HtonsInvolutiva DEF PuertoHebra
  <2>3. /\ SepararString(d).fichero = h.nombre
        /\ Htons(SepararString(d).puerto) = h.puerto
    BY <2>2 DEF SepararString
  <2> QED BY <1>2, <2>3 DEF Anunciada
<1> QED BY <1>1, <1>2 DEF Confirmado

----------------------------------------------------------------------------
(* Registrations.                                                          *)

LEMMA AltaAjena ==
  ASSUME NEW c \in Clientes, DialogoAlta(c), Ajeno(c), aceptados \subseteq aceptados'
  PROVE  DialogoAlta(c)'
BY DEF DialogoAlta, Ajeno, Confirmado, Anunciada

\* The server ends, or the network carries or loses a request.
LEMMA AltaRed ==
  ASSUME NEW c \in Clientes, DialogoAlta(c), UNCHANGED varsClientes,
         aceptados \subseteq aceptados',
         salida'[c] \in {Nada, salida[c]},
         cola'[c] \in {Nada, cola[c], salida[c]},
         respuesta'[c] \in {Nada, respuesta[c]}
  PROVE  DialogoAlta(c)'
<1>1. Nada # ACK
  BY Distintos
<1> QED BY <1>1 DEF DialogoAlta, Confirmado, Anunciada, varsClientes, hebras

LEMMA AltaCliente ==
  ASSUME InvConexion, NEW c \in Clientes, DialogoAlta(c), NextCliente(c),
         UNCHANGED varsServidor
  PROVE  DialogoAlta(c)'
<1> USE DEF InvConexion, TypeOK, TypeOKClientes, TypeOKRed, hebras, Va
<1>0. UNCHANGED aceptados
  BY DEF varsServidor, historia
<1>1. CASE cpc'[c] # "espera_ack_datos" /\ sirviendo'[c] \subseteq sirviendo[c]
  BY <1>0, <1>1 DEF DialogoAlta, Anunciada
<1>2. CASE EligeListado(c) \/ EligeAlta(c) \/ EligeDescarga(c) \/ EligeSalir(c)
  BY <1>1, <1>2 DEF EligeListado, EligeAlta, EligeDescarga, EligeAltaODescarga, EligeSalir
<1>3. CASE Join(c) \/ RecibeOtraCosa(c) \/ RecibeAltaSinPuerto(c) \/ ClienteMuere(c)
  BY <1>1, <1>3 DEF Join, RecibeOtraCosa, RecibeAltaSinPuerto, ClienteMuere, Termina
<1>4. CASE RecibeListado(c) \/ RecibeAck(c) \/ RecibeDireccion(c) \/ PideNombre(c)
  BY <1>1, <1>4 DEF RecibeListado, RecibeAck, RecibeDireccion, PideNombre
<1>5. CASE TerminaHebra(c)
  <2>1. sirviendo'[c] \subseteq sirviendo[c] /\ UNCHANGED <<cpc, campos, red>>
    BY <1>5 DEF TerminaHebra
  <2> QED BY <1>0, <2>1 DEF DialogoAlta, Anunciada, Confirmado, red
<1>6. CASE PideDatos(c)
  <2>1. /\ \E d : EnviaPeticion(c, Registro(d)) /\ campos'[c] = d
        /\ cpc[c] = "pide_datos" /\ UNCHANGED sirviendo
    BY <1>6 DEF PideDatos
  <2>2. salida'[c] = Registro(campos'[c]) /\ UNCHANGED <<cola, respuesta>>
    BY <2>1 DEF EnviaPeticion
  <2>3. cola[c] = Nada /\ respuesta[c] = Nada
    BY <2>1 DEF Conexion, Esperas, Opciones
  <2>4. Nada # ACK
    BY Distintos
  <2> QED BY <1>0, <2>1, <2>2, <2>3, <2>4 DEF DialogoAlta, Anunciada
<1>7. CASE RecibeAlta(c)
  <2> DEFINE h == [nombre |-> campos[c].nombre, puerto |-> PuertoHebra(campos[c].puerto)]
  <2>1. /\ cpc[c] = "espera_ack_datos" /\ respuesta[c] = ACK
        /\ Stoi(campos[c].puerto) # NoNum
        /\ sirviendo'[c] = sirviendo[c] \cup {h} /\ cpc'[c] = "menu"
    BY <1>7 DEF RecibeAlta
  <2>2. Confirmado(campos[c]) /\ campos[c] \in Datos
    BY <2>1 DEF DialogoAlta
  <2>3. Stoi(h.nombre) \in {1, 2} \/ Anunciada(h)
    BY <2>1, <2>2, ConfirmadoAnunciado
  <2> HIDE DEF h
  <2> QED BY <1>0, <2>1, <2>3 DEF DialogoAlta, Anunciada
<1> QED BY <1>2, <1>3, <1>4, <1>5, <1>6, <1>7 DEF NextCliente, Usuario, Recibe

LEMMA AltaPaso ==
  ASSUME InvAlta, Tecleado, [NextServicio]_varsServicio
  PROVE  InvAlta'
<1>1. InvConexion' /\ [PasoServidor]_varsServidor
  BY ConexionPaso, PasoDeServicio DEF InvAlta, InvConexion
<1>2. aceptados \subseteq aceptados'
  BY <1>1, TecleadoPaso
<1> SUFFICES ASSUME NEW c \in Clientes PROVE DialogoAlta(c)'
  BY <1>1 DEF InvAlta
<1>3. DialogoAlta(c) /\ InvConexion /\ TypeOK
  BY DEF InvAlta, InvConexion
<1>4. CASE Ajeno(c)
  BY <1>2, <1>3, <1>4, AltaAjena
<1>5. ASSUME NEW b \in Clientes, PasoCliente(b) PROVE DialogoAlta(c)'
  <2>1. CASE b = c
    BY <1>3, <1>5, <2>1, AltaCliente DEF PasoCliente
  <2>2. CASE b # c
    BY <1>3, <1>4, <1>5, <2>2, ClienteAjeno DEF PasoCliente
  <2> QED BY <2>1, <2>2
<1>6. CASE UNCHANGED varsClientes /\ UNCHANGED red
  BY <1>4, <1>6 DEF varsClientes, hebras, red, Ajeno
<1>7. CASE UNCHANGED varsClientes /\ CaeServidor
  <2>1. salida'[c] = salida[c] /\ cola'[c] = Nada /\ respuesta'[c] \in {Nada, respuesta[c]}
    BY <1>7 DEF CaeServidor
  <2> QED BY <1>2, <1>3, <1>7, <2>1, AltaRed
<1>8. CASE PasoPropio(Interno) \/ PasoPropio(Entorno)
  BY <1>6, <1>7, <1>8 DEF PasoPropio
<1>9. ASSUME NEW b \in Clientes, EntregaPeticion(b) \/ PierdePeticion(b)
      PROVE  DialogoAlta(c)'
  <2>1. /\ salida'[c] \in {Nada, salida[c]}
        /\ cola'[c] \in {Nada, cola[c], salida[c]}
        /\ respuesta'[c] \in {Nada, respuesta[c]} /\ UNCHANGED varsClientes
    BY <1>3, <1>9 DEF EntregaPeticion, PierdePeticion, Transporta, Pierde, TypeOK, TypeOKRed
  <2> QED BY <1>2, <1>3, <2>1, AltaRed
<1>10. ASSUME NEW b \in Clientes, AtiendePeticion(b) PROVE DialogoAlta(c)'
  <2>1. UNCHANGED varsClientes /\ Recv(cola[b]) /\ cola[b] # Nada
    BY <1>10 DEF AtiendePeticion
  <2>2. CASE spc' = "parado"
    BY <1>7, <1>10, <2>1, <2>2 DEF AtiendePeticion
  <2>3. CASE spc' # "parado"
    <3>1. EnviaRespuesta(b, Respuesta(cola[b]))
      BY <1>10, <2>3 DEF AtiendePeticion
    <3>2. CASE b # c
      <4>1. Ajeno(c)
        BY <1>3, <2>1, <3>1, <3>2 DEF EnviaRespuesta, Ajeno, varsClientes, hebras,
                                      TypeOK, TypeOKRed
      <4> QED BY <1>4, <4>1
    <3>3. CASE b = c
      <4>1. /\ salida'[c] = salida[c] /\ cola'[c] = Nada
            /\ respuesta'[c] \in {Nada, Respuesta(cola[c])}
        BY <1>3, <3>1, <3>3 DEF EnviaRespuesta, TypeOK, TypeOKRed
      <4>2. ASSUME cpc[c] = "espera_ack_datos", respuesta'[c] = ACK
            PROVE  Confirmado(campos[c])'
        <5>1. cola[c] = Registro(campos[c])
          BY <1>3, <2>1, <3>3, <4>2 DEF DialogoAlta
        <5>2. Respuesta(Registro(campos[c])) = ACK
          BY <4>1, <4>2, <5>1, Distintos
        <5>3. UNCHANGED campos
          BY <2>1 DEF varsClientes
        <5>4. \A d : Recv(Registro(d)) /\ Respuesta(Registro(d)) = ACK => Confirmado(d)'
          BY <2>3, AckMerecido
        <5>5. Recv(Registro(campos[c]))
          BY <2>1, <3>3, <5>1
        <5> QED BY <5>2, <5>3, <5>4, <5>5 DEF Confirmado
      <4> QED BY <1>2, <1>3, <2>1, <4>1, <4>2
              DEF DialogoAlta, Anunciada, varsClientes, hebras
    <3> QED BY <3>2, <3>3
  <2> QED BY <2>2, <2>3
<1>11. CASE UNCHANGED varsServicio
  BY <1>6, <1>11 DEF varsServicio
<1> QED BY <1>5, <1>8, <1>9, <1>10, <1>11 DEF NextServicio

LEMMA InitAlta == InitServicio => InvAlta /\ Tecleado
BY InitConexion DEF InitServicio, InitServidor, InitClientes, InvAlta, DialogoAlta, Tecleado

\* For any number of clients, crashes and restarts: a client that serves a
\* file has it announced by the server with the port it listens on, unless
\* the name begins with the number of an option that is ACKed.
THEOREM AltaConfirmadaSiempre == SpecServicio => []AltaConfirmada
<1>1. InvAlta => AltaConfirmada
  BY DEF InvAlta, DialogoAlta, AltaConfirmada
<1>2. (InvAlta /\ Tecleado) /\ [NextServicio]_varsServicio => (InvAlta /\ Tecleado)'
  <2>1. ASSUME InvAlta, Tecleado, [NextServicio]_varsServicio
        PROVE  InvAlta' /\ Tecleado'
    <3>1. [PasoServidor]_varsServidor
      BY <2>1, PasoDeServicio DEF InvAlta, InvConexion
    <3> QED BY <2>1, <3>1, AltaPaso, TecleadoPaso
  <2> QED BY <2>1
<1> QED BY <1>1, <1>2, InitAlta, PTL DEF SpecServicio
----------------------------------------------------------------------------
(* Downloads.                                                              *)

LEMMA OrigenPaso ==
  ASSUME TypeOKServidor, Origen, [PasoServidor]_varsServidor
  PROVE  Origen' /\ inventados \subseteq inventados'
<1> USE DEF memoria, disco, contadores, historia
<1> DEFINE Hecho == Ofertas(tabla') \subseteq aceptados' \cup inventados' /\ inventados \subseteq inventados'
<1>0. SUFFICES Hecho
  <2>1. Ofertas(tabla)' = Ofertas(tabla')
    OBVIOUS
  <2> QED BY <2>1 DEF Origen
<1>T. tabla \in [Textos -> Seq(Direccion)]
  BY DEF TypeOKServidor
<1>A. ASSUME UNCHANGED historia, tabla' = tabla \/ tabla' = TablaVacia PROVE Hecho
  BY <1>A, OfertasVacia DEF Origen
<1>P. CASE Para
  BY <1>P, <1>A DEF Para
<1>1. CASE LeeRegistro
  <2> DEFINE a == LeidoDe(lector)
  <2>1. a \in Altas
    BY <1>1, LeidoTipo DEF LeeRegistro, TypeOKServidor
  <2>2. /\ tabla' = AgregarCliente(tabla, a) /\ aceptados' = aceptados
        /\ inventados' = inventados \cup ({a} \ aceptados)
    BY <1>1 DEF LeeRegistro
  <2> HIDE DEF a
  <2>3. Ofertas(tabla') = Ofertas(tabla) \cup {a}
    BY <1>T, <2>1, <2>2, OfertasAgrega
  <2> QED BY <2>2, <2>3 DEF Origen
<1>2. CASE Interno
  BY <1>1, <1>2, <1>A, <1>P DEF Interno, Arranca, RecuperarDatos, LeeFin, LanzaCrow,
                    CrowSirve, SalvaLinea, SalvaFin, SaleDelManejador
<1>3. CASE CrowFalla \/ Sigint \/ Muere
  BY <1>3, <1>A, <1>P DEF CrowFalla, Sigint, SigintPropio, SigintCrow, SigintDefecto, Muere
<1>4. ASSUME NEW d \in Datos, Acepta(d) PROVE Hecho
  <2> DEFINE a == SepararString(d)
  <2>1. a \in Altas
    BY <1>4, SepararTipo DEF Acepta
  <2>2. /\ tabla' = AgregarCliente(tabla, a) /\ aceptados' = aceptados \cup {a}
        /\ inventados' = inventados
    BY <1>4 DEF Acepta
  <2> HIDE DEF a
  <2>3. Ofertas(tabla') = Ofertas(tabla) \cup {a}
    BY <1>T, <2>1, <2>2, OfertasAgrega
  <2> QED BY <2>2, <2>3 DEF Origen
<1>5. ASSUME NEW d \in Datos, HttpGuardar(d) \/ HttpAgregarFichero(d) PROVE Hecho
  BY <1>4, <1>5, <1>A DEF HttpGuardar, HttpAgregarFichero
<1>6. ASSUME NEW m \in Mensajes, Recv(m) PROVE Hecho
  <2>1. CASE RecvDatos(m)
    <3>1. m.datos \in Datos /\ Acepta(m.datos)
      BY <2>1 DEF RecvDatos, Mensajes, MensajesTexto, MensajesDatos
    <3> QED BY <1>4, <3>1
  <2>2. CASE RecvListado(m) \/ RecvAlta(m) \/ RecvDescarga(m) \/ RecvNombre(m)
    BY <1>A, <2>2 DEF RecvListado, RecvAlta, RecvDescarga, RecvNombre, varsServidor
  <2>3. CASE RecvNoValido(m) \/ RecvDatosMal(m)
    BY <1>P, <2>3 DEF RecvNoValido, RecvDatosMal
  <2> QED BY <1>6, <2>1, <2>2, <2>3 DEF Recv
<1>7. CASE UNCHANGED varsServidor
  BY <1>7, <1>A DEF varsServidor
<1> QED BY <1>2, <1>3, <1>5, <1>6, <1>7 DEF PasoServidor, Entorno

\* The address at the head of a vector is one that somebody typed for the
\* file, or one that was made up for it.
LEMMA CabezaOfrecida ==
  ASSUME TypeOKServidor, Origen, Tecleado, NEW f \in Presentes(tabla)
  PROVE  Ofrecido(f, ObtenerCliente(tabla, f))
<1> DEFINE e == tabla[f][1]
           r == ObtenerCliente(tabla, f)
<1>1. f \in Textos /\ tabla[f] \in Seq(Direccion) /\ tabla[f] # << >>
  BY DEF Presentes, TypeOKServidor
<1>2. 1 \in 1 .. Len(tabla[f])
  BY <1>1, LenProperties, EmptySeq
<1>3. Alta(f, e) \in aceptados \cup inventados
  BY <1>1, <1>2, OfertasDef DEF Origen
<1>4. r = [tipo |-> "dir", ip |-> e.ip, puerto |-> Htons(e.puerto)]
  BY DEF ObtenerCliente
<1> HIDE DEF r
<1>5. CASE Alta(f, e) \in inventados
  <2>1. Alta(f, e).fichero = f /\ Alta(f, e).ip = r.ip /\ Htons(Alta(f, e).puerto) = r.puerto
    BY <1>4 DEF Alta
  <2> QED BY <1>5, <2>1 DEF Ofrecido, r
<1>6. CASE Alta(f, e) \in aceptados
  <2>1. PICK d \in Datos : SepararOk(d) /\ Alta(f, e) = SepararString(d)
    BY <1>6 DEF Tecleado
  <2>2. d.nombre = f /\ InetAddr[d.ip] = e.ip /\ Htons(Stoi(d.puerto)) = e.puerto
    BY <2>1 DEF Alta, SepararString
  <2>3. Stoi(d.puerto) \in Int
    BY <2>1, CamposAssumption DEF Datos, Stoi, SepararOk
  <2>4. Htons(e.puerto) = PuertoHebra(d.puerto)
    BY <2>2, <2>3, HtonsInvolutiva DEF PuertoHebra
  <2> QED BY <1>4, <1>6, <2>1, <2>2, <2>4 DEF Ofrecido, r
<1> QED BY <1>3, <1>5, <1>6

\* What counts as offered stays so.
LEMMA OfrecidoQueda ==
  ASSUME aceptados \subseteq aceptados', inventados \subseteq inventados'
  PROVE  \A f, r : Ofrecido(f, r) => Ofrecido(f, r)'
BY DEF Ofrecido

\* The server answers an address to a text only when the text is a file
\* somebody offers there, whatever the sender meant by it.
LEMMA DireccionMerecida ==
  ASSUME TypeOKServidor, Origen, Tecleado,
         aceptados \subseteq aceptados', inventados \subseteq inventados', NEW f, NEW r,
         Recv(Texto(f)), spc' # "parado", r = Respuesta(Texto(f)), r \in Direcciones
  PROVE  Ofrecido(f, r)'
<1>1. Texto(f).tipo = "texto" /\ Texto(f).texto = f
  BY TextoCampos
<1>2. EMPTY \notin Direcciones /\ ACK \notin Direcciones
      /\ ObtenerFicheros(tabla) \notin Direcciones
  BY Distintos, ListadoNoAck, EmptyNoDireccion
<1>3. spc = "recv_nombre" /\ r = ObtenerCliente(tabla, f)
  BY <1>1, <1>2 DEF Respuesta
<1>4. f \in Presentes(tabla)
  BY <1>2, <1>3 DEF ObtenerCliente
<1>5. Ofrecido(f, r)
  BY <1>3, <1>4, CabezaOfrecida
<1> QED BY <1>5, OfrecidoQueda

LEMMA DescargaAjena ==
  ASSUME NEW c \in Clientes, DialogoDescarga(c), Ajeno(c),
         aceptados \subseteq aceptados', inventados \subseteq inventados'
  PROVE  DialogoDescarga(c)'
BY OfrecidoQueda DEF DialogoDescarga, Ajeno

LEMMA DescargaRed ==
  ASSUME NEW c \in Clientes, DialogoDescarga(c), UNCHANGED varsClientes,
         aceptados \subseteq aceptados', inventados \subseteq inventados',
         salida'[c] \in {Nada, salida[c]},
         cola'[c] \in {Nada, cola[c], salida[c]},
         respuesta'[c] \in {Nada, respuesta[c]}
  PROVE  DialogoDescarga(c)'
<1>1. Nada \notin Direcciones
  BY Distintos DEF Respuestas
<1> QED BY <1>1, OfrecidoQueda DEF DialogoDescarga, varsClientes, hebras

LEMMA DescargaCliente ==
  ASSUME InvConexion, NEW c \in Clientes, DialogoDescarga(c), NextCliente(c),
         UNCHANGED varsServidor
  PROVE  DialogoDescarga(c)'
<1> USE DEF InvConexion, TypeOK, TypeOKClientes, TypeOKRed, hebras, Va
<1>0. \A f, r : Ofrecido(f, r) => Ofrecido(f, r)'
  BY OfrecidoQueda DEF varsServidor, historia
<1>1. CASE cpc'[c] # "espera_dir" /\ descargas'[c] \subseteq descargas[c]
  BY <1>0, <1>1 DEF DialogoDescarga
<1>2. CASE EligeListado(c) \/ EligeAlta(c) \/ EligeDescarga(c) \/ EligeSalir(c)
  BY <1>1, <1>2 DEF EligeListado, EligeAlta, EligeDescarga, EligeAltaODescarga, EligeSalir
<1>3. CASE Join(c) \/ RecibeOtraCosa(c) \/ RecibeAltaSinPuerto(c) \/ ClienteMuere(c)
  BY <1>1, <1>3 DEF Join, RecibeOtraCosa, RecibeAltaSinPuerto, ClienteMuere, Termina
<1>4. CASE RecibeListado(c) \/ RecibeAck(c) \/ RecibeAlta(c) \/ PideDatos(c)
  BY <1>1, <1>4 DEF RecibeListado, RecibeAck, RecibeAlta, PideDatos
<1>5. CASE TerminaHebra(c)
  <2>1. UNCHANGED <<cpc, pedido, descargas, red>>
    BY <1>5 DEF TerminaHebra
  <2> QED BY <1>0, <2>1 DEF DialogoDescarga, red
<1>6. CASE PideNombre(c)
  <2>1. /\ \E f : EnviaPeticion(c, Texto(f)) /\ pedido'[c] = f
        /\ cpc[c] = "pide_nombre" /\ UNCHANGED descargas
    BY <1>6 DEF PideNombre
  <2>2. salida'[c] = Texto(pedido'[c]) /\ UNCHANGED <<cola, respuesta>>
    BY <2>1 DEF EnviaPeticion
  <2>3. cola[c] = Nada /\ respuesta[c] = Nada
    BY <2>1 DEF Conexion, Esperas, Opciones
  <2>4. Nada \notin Direcciones
    BY Distintos DEF Respuestas
  <2> QED BY <1>0, <2>1, <2>2, <2>3, <2>4 DEF DialogoDescarga
<1>7. CASE RecibeDireccion(c)
  <2> DEFINE x == [fichero |-> pedido[c], resp |-> respuesta[c]]
  <2>1. /\ cpc[c] = "espera_dir" /\ cpc'[c] = "menu"
        /\ descargas'[c] \subseteq descargas[c] \cup {x}
    BY <1>7 DEF RecibeDireccion
  <2>2. x.resp \in Direcciones => Ofrecido(x.fichero, x.resp)
    BY <2>1 DEF DialogoDescarga
  <2> HIDE DEF x
  <2> QED BY <1>0, <2>1, <2>2 DEF DialogoDescarga
<1> QED BY <1>2, <1>3, <1>4, <1>5, <1>6, <1>7 DEF NextCliente, Usuario, Recibe

LEMMA DescargaPaso ==
  ASSUME InvDescarga, [NextServicio]_varsServicio
  PROVE  InvDescarga'
<1>1. InvConexion' /\ [PasoServidor]_varsServidor
  BY ConexionPaso, PasoDeServicio DEF InvDescarga, InvConexion
<1>2. aceptados \subseteq aceptados' /\ Tecleado'
  BY <1>1, TecleadoPaso DEF InvDescarga
<1>3. InvBackup' /\ InvOrden' /\ Origen' /\ inventados \subseteq inventados'
  BY <1>1, BackupPaso, OrdenPaso, OrigenPaso DEF InvDescarga, InvBackup
<1>Q. \A f, r : Ofrecido(f, r) => Ofrecido(f, r)'
  BY <1>2, <1>3, OfrecidoQueda
<1> SUFFICES ASSUME NEW c \in Clientes PROVE DialogoDescarga(c)'
  BY <1>1, <1>2, <1>3 DEF InvDescarga
<1>4. DialogoDescarga(c) /\ InvConexion /\ TypeOK /\ TypeOKServidor /\ Origen /\ Tecleado
  BY DEF InvDescarga, InvConexion, InvBackup
<1>5. CASE Ajeno(c)
  BY <1>2, <1>3, <1>4, <1>5, DescargaAjena
<1>6. ASSUME NEW b \in Clientes, PasoCliente(b) PROVE DialogoDescarga(c)'
  <2>1. CASE b = c
    BY <1>4, <1>6, <2>1, DescargaCliente DEF PasoCliente
  <2>2. CASE b # c
    BY <1>4, <1>5, <1>6, <2>2, ClienteAjeno DEF PasoCliente
  <2> QED BY <2>1, <2>2
<1>7. CASE UNCHANGED varsClientes /\ UNCHANGED red
  BY <1>5, <1>7 DEF varsClientes, hebras, red, Ajeno
<1>8. CASE UNCHANGED varsClientes /\ CaeServidor
  <2>1. salida'[c] = salida[c] /\ cola'[c] = Nada /\ respuesta'[c] \in {Nada, respuesta[c]}
    BY <1>8 DEF CaeServidor
  <2> QED BY <1>2, <1>3, <1>4, <1>8, <2>1, DescargaRed
<1>9. CASE PasoPropio(Interno) \/ PasoPropio(Entorno)
  BY <1>7, <1>8, <1>9 DEF PasoPropio
<1>10. ASSUME NEW b \in Clientes, EntregaPeticion(b) \/ PierdePeticion(b)
       PROVE  DialogoDescarga(c)'
  <2>1. /\ salida'[c] \in {Nada, salida[c]}
        /\ cola'[c] \in {Nada, cola[c], salida[c]}
        /\ respuesta'[c] \in {Nada, respuesta[c]} /\ UNCHANGED varsClientes
    BY <1>4, <1>10 DEF EntregaPeticion, PierdePeticion, Transporta, Pierde, TypeOK, TypeOKRed
  <2> QED BY <1>2, <1>3, <1>4, <2>1, DescargaRed
<1>11. ASSUME NEW b \in Clientes, AtiendePeticion(b) PROVE DialogoDescarga(c)'
  <2>1. UNCHANGED varsClientes /\ Recv(cola[b]) /\ cola[b] # Nada
    BY <1>11 DEF AtiendePeticion
  <2>2. CASE spc' = "parado"
    BY <1>8, <1>11, <2>1, <2>2 DEF AtiendePeticion
  <2>3. CASE spc' # "parado"
    <3>1. EnviaRespuesta(b, Respuesta(cola[b]))
      BY <1>11, <2>3 DEF AtiendePeticion
    <3>2. CASE b # c
      <4>1. Ajeno(c)
        BY <1>4, <2>1, <3>1, <3>2 DEF EnviaRespuesta, Ajeno, varsClientes, hebras,
                                      TypeOK, TypeOKRed
      <4> QED BY <1>5, <4>1
    <3>3. CASE b = c
      <4>1. /\ salida'[c] = salida[c] /\ cola'[c] = Nada
            /\ respuesta'[c] \in {Nada, Respuesta(cola[c])}
        BY <1>4, <3>1, <3>3 DEF EnviaRespuesta, TypeOK, TypeOKRed
      <4>2. ASSUME cpc[c] = "espera_dir", respuesta'[c] \in Direcciones
            PROVE  Ofrecido(pedido[c], respuesta[c])'
        <5>1. cola[c] = Texto(pedido[c])
          BY <1>4, <2>1, <3>3, <4>2 DEF DialogoDescarga
        <5>2. respuesta'[c] = Respuesta(Texto(pedido[c]))
          BY <4>1, <4>2, <5>1, Distintos DEF Respuestas
        <5>3. UNCHANGED pedido
          BY <2>1 DEF varsClientes
        <5>4. \A f, r : Recv(Texto(f)) /\ r = Respuesta(Texto(f)) /\ r \in Direcciones
                        => Ofrecido(f, r)'
          BY <1>2, <1>3, <1>4, <2>3, DireccionMerecida
        <5>5. Recv(Texto(pedido[c]))
          BY <2>1, <3>3, <5>1
        <5> QED BY <4>2, <5>2, <5>3, <5>4, <5>5 DEF Ofrecido
      <4> QED BY <1>Q, <1>4, <2>1, <4>1, <4>2
              DEF DialogoDescarga, varsClientes, hebras
    <3> QED BY <3>2, <3>3
  <2> QED BY <2>2, <2>3
<1>12. CASE UNCHANGED varsServicio
  BY <1>7, <1>12 DEF varsServicio
<1> QED BY <1>6, <1>9, <1>10, <1>11, <1>12 DEF NextServicio

LEMMA InitDescarga == InitServicio => InvDescarga
<1>1. InitServicio => InvConexion /\ InvBackup /\ InvOrden /\ Tecleado
  BY InitConexion, InitBackup, InitOrden, InitAlta DEF InitServicio
<1>2. InitServicio => Origen
  BY OfertasVacia DEF InitServicio, InitServidor, Origen
<1>3. InitServicio => \A c \in Clientes : DialogoDescarga(c)
  BY DEF InitServicio, InitClientes, DialogoDescarga
<1> QED BY <1>1, <1>2, <1>3 DEF InvDescarga

\* For any number of clients, requests and processes, and whatever users type:
\* whatever requests cross and whichever processes crash and restart, the
\* address a client downloads from was offered, IP and port, for the very file
\* it asked for; or it is a record recuperar_datos made up for that file, which
\* takes an accepted name or IP that reads as a 16-bit number and an accepted
\* name that is empty or was registered twice.
THEOREM DireccionPedidaSiempre == SpecServicio => []DireccionPedida
<1>1. InvDescarga => DireccionPedida
  <2> SUFFICES ASSUME InvDescarga PROVE DireccionPedida
    OBVIOUS
  <2>1. inventados # {} => aceptados \cap Confusas # {} /\ Repetidas
    BY DEF InvDescarga, InvBackup, InvOrden, Claras
  <2>2. \A c \in Clientes : \A x \in descargas[c] : x.resp \in Direcciones => Ofrecido(x.fichero, x.resp)
    BY DEF InvDescarga, DialogoDescarga
  <2> QED BY <2>1, <2>2 DEF DireccionPedida, Ofrecido
<1>2. InvDescarga /\ [NextServicio]_varsServicio => InvDescarga'
  BY DescargaPaso
<1> QED BY <1>1, <1>2, InitDescarga, PTL DEF SpecServicio
=============================================================================
