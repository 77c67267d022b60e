----------------------------- MODULE Servidor ------------------------------
(***************************************************************************)
(* The directory server process (servidor.cpp): start-up, the REP dialogue *)
(* of main, the HTTP routes that register files, the SIGINT handler and    *)
(* the backup file.  A run of the process ends by a signal, an uncaught    *)
(* exception, exit(-1) or a crash; the process may then be started again.  *)
(*                                                                         *)
(* One action is what main does between two blocking points, one iteration *)
(* of a loop over the backup file, or one HTTP handler.  Requests reach    *)
(* main through RecvX(m); Servicio connects them to the clients.           *)
(***************************************************************************)
EXTENDS Almacen, FiniteSets

CONSTANTS
    MaxAltas,      \* bound: accepted registrations (HTTP and stand-alone)
    MaxArranques   \* bound: how often the process is started

ASSUME ServidorAssumption == MaxAltas \in Nat /\ MaxArranques \in Nat

VARIABLES
    spc,        \* where the main thread is
    crow,       \* the thread servidor_crow, which decides who handles SIGINT
    tabla,      \* almacen.tabla
    respaldo,   \* tokens of ./storage/datos_almacen.txt
    lector,     \* tokens recuperar_datos has not consumed yet
    cursor,     \* salvar_datos has written the keys Orden[1 .. cursor]
    arranques,  \* number of times the process has been started
    altas,      \* number of registrations accepted so far
    aceptados,  \* ghost: every registration a user made that was ever accepted
    inventados, \* ghost: every record read from the file that was not one of them
    lineas      \* ghost: the lines of the backup file, one record per file

memoria == <<crow, tabla, lector, cursor>>
disco == <<respaldo, lineas>>
contadores == <<arranques, altas>>
historia == <<aceptados, inventados>>
varsServidor == <<spc, memoria, disco, contadores, historia>>

Bucle == {"recv", "recv_datos", "recv_nombre"}
Arranque == {"arranque", "leyendo", "cargado"}
Manejador == {"salvando", "join"}

TypeOKServidor ==
    /\ spc \in {"parado"} \cup Arranque \cup Bucle \cup Manejador
    /\ crow \in {"no", "lanzada", "en_manejador", "sirviendo", "terminada"}
    /\ tabla \in [Textos -> Seq(Direccion)]
    /\ respaldo \in Seq(Textos)
    /\ lector \in Seq(Textos)
    /\ cursor \in 0 .. Len(Orden)
    /\ arranques \in 0 .. MaxArranques
    /\ altas \in Nat
    /\ aceptados \subseteq Altas
    /\ inventados \subseteq Altas
    /\ lineas \in Seq([fichero : Textos, dirs : Seq(Direccion)])

InitServidor ==
    /\ spc = "parado"
    /\ crow = "no"
    /\ tabla = TablaVacia
    /\ respaldo = <<>>
    /\ lector = <<>>
    /\ cursor = 0
    /\ arranques = 0
    /\ altas = 0
    /\ aceptados = {}
    /\ inventados = {}
    /\ lineas = <<>>

\* The process ends: only the backup file outlives it.
Para ==
    /\ spc' = "parado"
    /\ crow' = "no"
    /\ tabla' = TablaVacia
    /\ lector' = <<>>
    /\ cursor' = 0
    /\ UNCHANGED <<disco, contadores, historia>>

----------------------------------------------------------------------------
(* Start-up.                                                               *)

\* The process starts: SIGINT handler installed, REP socket bound.
Arranca ==
    /\ spc = "parado"
    /\ arranques < MaxArranques
    /\ spc' = "arranque"
    /\ arranques' = arranques + 1
    /\ UNCHANGED <<memoria, disco, altas, historia>>

\* recuperar_datos opens the file and clears the table; when it cannot open
\* the file it returns false, which main ignores.
RecuperarDatos ==
    /\ spc = "arranque"
    /\ \/ /\ spc' = "leyendo"
          /\ lector' = respaldo
          /\ tabla' = TablaVacia
       \/ /\ spc' = "cargado"
          /\ UNCHANGED <<lector, tabla>>
    /\ UNCHANGED <<crow, cursor, disco, contadores, historia>>

\* One iteration of its while loop.
LeeRegistro ==
    /\ spc = "leyendo"
    /\ Legible(lector)
    /\ tabla' = AgregarCliente(tabla, LeidoDe(lector))
    /\ lector' = RestoDe(lector)
    /\ inventados' = inventados \cup ({LeidoDe(lector)} \ aceptados)
    /\ UNCHANGED <<spc, crow, cursor, disco, contadores, aceptados>>

MutLeeFin ==
    /\ spc = "leyendo"
    /\ ~Legible(lector)
    /\ spc' = "cargado"
    /\ lector' = <<>>
    /\ tabla' = IF lector = <<>> THEN tabla ELSE TablaVacia
    /\ UNCHANGED <<crow, cursor, disco, contadores, historia>>

\* The first extraction that fails ends the loop, whatever is left.
LeeFin ==
    /\ spc = "leyendo"
    /\ ~Legible(lector)
    /\ spc' = "cargado"
    /\ lector' = <<>>
    /\ UNCHANGED <<crow, tabla, cursor, disco, contadores, historia>>

\* The HTTP thread is created and main enters its loop.
LanzaCrow ==
    /\ spc = "cargado"
    /\ spc' = "recv"
    /\ crow' = "lanzada"
    /\ UNCHANGED <<tabla, lector, cursor, disco, contadores, historia>>

\* app.run(): the server object is built; it takes SIGINT and SIGTERM over
\* (asio replaces the handler main installed) and starts its workers.
CrowSirve ==
    /\ crow = "lanzada"
    /\ crow' = "sirviendo"
    /\ UNCHANGED <<spc, tabla, lector, cursor, disco, contadores, historia>>

\* The port is taken: the exception leaves the thread function.
CrowFalla == crow = "lanzada" /\ Para

----------------------------------------------------------------------------
(* The loop of main: m is what socket.recv returns.                        *)

RecvListado(m) ==
    /\ spc = "recv"
    /\ NumeroDe(m) = 0
    /\ UNCHANGED varsServidor

RecvAlta(m) ==
    /\ spc = "recv"
    /\ NumeroDe(m) = 1
    /\ spc' = "recv_datos"
    /\ UNCHANGED <<memoria, disco, contadores, historia>>

RecvDescarga(m) ==
    /\ spc = "recv"
    /\ NumeroDe(m) = 2
    /\ spc' = "recv_nombre"
    /\ UNCHANGED <<memoria, disco, contadores, historia>>

\* Not a number: std::stoi throws out of main.  Another number: nothing is
\* sent, and the next socket.recv throws because a REP socket owes a reply.
RecvNoValido(m) ==
    /\ spc = "recv"
    /\ NumeroDe(m) \notin {0, 1, 2}
    /\ Para

\* A text without separators: separar_string indexes an empty vector and the
\* process crashes.  A port that is no number: agregar_cliente returns false,
\* exit(-1).
EsRegistro(m) == m.tipo = "datos" /\ SepararOk(m.datos)

RecvDatosMal(m) ==
    /\ spc = "recv_datos"
    /\ ~EsRegistro(m)
    /\ Para

\* agregar_cliente accepts the registration.
Acepta(d) ==
    /\ SepararOk(d)
    /\ tabla' = AgregarCliente(tabla, SepararString(d))
    /\ aceptados' = aceptados \cup {SepararString(d)}
    /\ altas' = altas + 1
    /\ UNCHANGED inventados

RecvDatos(m) ==
    /\ spc = "recv_datos"
    /\ m.tipo = "datos"
    /\ Acepta(m.datos)
    /\ spc' = "recv"
    /\ UNCHANGED <<crow, lector, cursor, disco, arranques>>

RecvNombre(m) ==
    /\ spc = "recv_nombre"
    /\ spc' = "recv"
    /\ UNCHANGED <<memoria, disco, contadores, historia>>

Recv(m) ==
    \/ RecvListado(m)
    \/ RecvAlta(m)
    \/ RecvDescarga(m)
    \/ RecvNoValido(m)
    \/ RecvDatosMal(m)
    \/ RecvDatos(m)
    \/ RecvNombre(m)

\* The reply that goes with Recv(m) when the process survives it.
Respuesta(m) ==
    IF spc = "recv_nombre"
    THEN IF m.tipo = "texto" THEN ObtenerCliente(tabla, m.texto) ELSE EMPTY
    ELSE IF spc = "recv" /\ NumeroDe(m) = 0 THEN ObtenerFicheros(tabla) ELSE ACK

----------------------------------------------------------------------------
(* The HTTP routes that change the table.                                  *)

\* POST /guardar: a field missing from the form is the empty string; a
\* registration agregar_cliente rejects is echoed back.
HttpGuardar(d) ==
    /\ crow = "sirviendo"
    /\ altas < MaxAltas
    /\ \/ Acepta(d)
       \/ ~SepararOk(d) /\ UNCHANGED <<tabla, altas, historia>>
    /\ UNCHANGED <<spc, crow, lector, cursor, disco, arranques>>

\* GET /agregar_fichero/<nombre>/<ip>/<puerto>: no segment is empty.
HttpAgregarFichero(d) ==
    /\ crow = "sirviendo"
    /\ d.nombre # Vacio /\ d.ip # IpVacia /\ d.puerto # Vacio
    /\ altas < MaxAltas
    /\ \/ Acepta(d)
       \/ ~SepararOk(d) /\ UNCHANGED <<tabla, altas, historia>>
    /\ UNCHANGED <<spc, crow, lector, cursor, disco, arranques>>

----------------------------------------------------------------------------
(* Signals.  The kernel hands SIGINT to the main thread unless that thread *)
(* is inside the handler, where the signal is masked.                      *)

\* sigint_handler starts salvar_datos: opening the file empties it; when it
\* cannot be opened nothing is written and the handler goes on to join.
AbreRespaldo ==
    /\ spc' = "salvando"
    /\ \/ cursor' = 0 /\ respaldo' = <<>> /\ lineas' = <<>>
       \/ cursor' = Len(Orden) /\ UNCHANGED disco

\* Before the HTTP server takes the signal over: main's handler runs, in the
\* HTTP thread when main is already inside it.
SigintPropio ==
    /\ crow \in {"no", "lanzada"}
    /\ \/ spc \in Arranque \cup Bucle /\ crow' = crow
       \/ spc = "join" /\ crow = "lanzada" /\ crow' = "en_manejador"
    /\ AbreRespaldo
    /\ UNCHANGED <<tabla, lector, contadores, historia>>

\* Afterwards asio's handler runs (run() adds SIGINT and SIGTERM to its set,
\* crow_all.h:13642) and the HTTP server stops (crow_all.h:10473), which
\* restores the default action.  A main thread blocked in recv gets EINTR,
\* which zmq.hpp:2036 throws and nobody catches.
SigintCrow ==
    /\ crow = "sirviendo"
    /\ \/ spc \in Bucle /\ Para
       \/ /\ crow' = "terminada"
          /\ UNCHANGED <<spc, tabla, lector, cursor, disco, contadores, historia>>

SigintDefecto == crow = "terminada" /\ Para

Sigint == SigintPropio \/ SigintCrow \/ SigintDefecto

\* salvar_datos writes one key of the table after the other.
SalvaLinea ==
    /\ spc = "salvando"
    /\ \E i \in cursor + 1 .. Len(Orden) :
          /\ tabla[Orden[i]] # <<>>
          /\ \A j \in cursor + 1 .. i - 1 : tabla[Orden[j]] = <<>>
          /\ cursor' = i
          /\ respaldo' = respaldo \o Linea(Orden[i], tabla[Orden[i]])
          /\ lineas' = Append(lineas, [fichero |-> Orden[i], dirs |-> tabla[Orden[i]]])
    /\ UNCHANGED <<spc, crow, tabla, lector, contadores, historia>>

\* Then servidor_crow.join(): it throws out of the handler when there is no
\* thread, or when the thread would join itself.
SalvaFin ==
    /\ spc = "salvando"
    /\ \A j \in cursor + 1 .. Len(Orden) : tabla[Orden[j]] = <<>>
    /\ IF crow \in {"no", "en_manejador"}
       THEN Para
       ELSE /\ spc' = "join"
            /\ UNCHANGED <<memoria, disco, contadores, historia>>

\* join returns once the HTTP thread has ended; exit(signal).
SaleDelManejador == spc = "join" /\ crow = "terminada" /\ Para

\* SIGKILL, power loss, the OOM killer.
Muere == spc # "parado" /\ Para

----------------------------------------------------------------------------
Interno ==
    \/ Arranca \/ RecuperarDatos \/ LeeRegistro \/ LeeFin \/ LanzaCrow
    \/ CrowSirve \/ SalvaLinea \/ SalvaFin \/ SaleDelManejador

Entorno ==
    \/ CrowFalla
    \/ \E d \in Datos : HttpGuardar(d) \/ HttpAgregarFichero(d)
    \/ Sigint
    \/ Muere

\* Stand-alone: any client may send anything it can type.
Peticiones ==
    { Texto(t) : t \in Nombres \cup {Numeral(n) : n \in 0 .. 3} }
      \cup MensajesDatos

NextServidor ==
    \/ Interno
    \/ Entorno
    \/ \E m \in Peticiones :
          (m.tipo = "datos" => altas < MaxAltas) /\ Recv(m)

SpecServidor == InitServidor /\ [][NextServidor]_varsServidor

\* The process runs its own code; nothing forces a signal, a request, a
\* failure or a restart.
FairSpecServidor ==
    /\ SpecServidor
    /\ WF_varsServidor(RecuperarDatos \/ LeeRegistro \/ LeeFin \/ LanzaCrow
                       \/ SalvaLinea \/ SalvaFin \/ SaleDelManejador)
    /\ WF_varsServidor(CrowSirve)

----------------------------------------------------------------------------
(* Properties.                                                             *)

Alta(f, d) == [fichero |-> f, ip |-> d.ip, puerto |-> d.puerto]

\* A table as a set of registrations.
Ofertas(t) == UNION { { Alta(f, t[f][i]) : i \in 1 .. Len(t[f]) } : f \in Textos }

\* Registrations recuperar_datos can mistake: the name begins with a 16-bit
\* number, or the IP, read as a number, has no more than 16 bits (0.0.0.0).
Confusas == { x \in Altas : Stoi(x.fichero) \in U16 \/ x.ip \in U16 }

D == INSTANCE Directorio
     WITH activo <- spc # "parado", ofertas <- Ofertas(tabla), historial <- aceptados

\* The server implements a directory: through every dialogue, HTTP request,
\* signal, interrupted save, crash and recovery an accepted registration is
\* on offer at once, offers go only when the process ends, and what a restart
\* brings back was accepted for that file before, as long as nothing has been
\* accepted that recuperar_datos can mistake.
ImplementaDirectorio == D!Spec

\* Somebody registered the empty name, or a name for the second time: only
\* then does the file get a line that is not three tokens.
Repetidas ==
    \/ \E x \in aceptados : x.fichero = Vacio
    \/ altas > Cardinality({ x.fichero : x \in aceptados })

\* What it takes for recuperar_datos to make up an address out of tokens that
\* meant something else, through any sequence of saves, interrupted saves,
\* crashes and recoveries: somebody registered a name that begins with a
\* 16-bit number, or an IP that is one, and somebody registered the empty
\* name, or a name for the second time.  Short of both, every address the
\* table holds for a file was accepted for that very file.
NadaInventado ==
    aceptados \cap Confusas = {} \/ ~Repetidas =>
       Ofertas(tabla) \cup inventados \subseteq aceptados

\* The lines of the file that recuperar_datos begins to read where they begin:
\* the ones up to the first line that is not a name and one address, that one
\* included unless its name is empty.
Recuperables ==
    { i \in 1 .. Len(lineas) :
        /\ lineas[i].fichero # Vacio
        /\ \A j \in 1 .. i - 1 : lineas[j].fichero # Vacio /\ Len(lineas[j].dirs) = 1 }

\* The table that has the first address of each of those lines.
Prefijo ==
    [f \in Textos |->
       IF \E i \in Recuperables : lineas[i].fichero = f
       THEN LET i == CHOOSE i \in Recuperables : lineas[i].fichero = f
            IN <<lineas[i].dirs[1]>>
       ELSE <<>>]

\* The addresses of a line before which the reader expects a name, and what
\* stands first in a line.
Restan(l) == IF l.fichero = Vacio THEN l.dirs ELSE Tail(l.dirs)
Primero(l) == IF l.fichero = Vacio THEN Numeral(l.dirs[1].ip) ELSE l.fichero

\* The reader loses its place and does not notice.  It is in the first line
\* with addresses left over and takes the first of those for a name and an
\* IP; what follows, the next IP of the line or the beginning of the next
\* line, reads as a port.
Desliza ==
    \E i \in 1 .. Len(lineas) :
       /\ Restan(lineas[i]) # <<>>
       /\ \A j \in 1 .. i - 1 : Restan(lineas[j]) = <<>>
       /\ IF Len(Restan(lineas[i])) > 1
          THEN Restan(lineas[i])[2].ip \in U16
          ELSE i < Len(lineas) /\ Stoi(Primero(lineas[i + 1])) \in U16

\* What survives a restart.  When the reading loop of recuperar_datos ends,
\* every line it began to read in the right place has its first address at
\* the head of its vector; and that is all the table holds exactly when the
\* reader has not gone on in the wrong place.
RecuperaPrefijo ==
    [][ LeeFin =>
          /\ \A i \in Recuperables :
                LET v == tabla[lineas[i].fichero]
                IN v # <<>> /\ v[1] = lineas[i].dirs[1]
          /\ tabla = Prefijo <=> ~Desliza ]_varsServidor

\* While the process runs, the vector of a file only grows at its end, so
\* the address obtener_cliente hands out for a file never changes: a client
\* that died keeps being handed out.
TablaSoloCrece ==
    [][ spc # "parado" /\ spc' # "parado" =>
          \A f \in Textos :
             /\ Len(tabla[f]) <= Len(tabla'[f])
             /\ SubSeq(tabla'[f], 1, Len(tabla[f])) = tabla[f] ]_varsServidor

----------------------------------------------------------------------------
(* What the repository says of the backup, and the code does not keep.     *)

\* The lines of the file and the table hold the address d for the file f.
Guardada(f, d) ==
    \E i \in 1 .. Len(lineas) : \E j \in 1 .. Len(lineas[i].dirs) :
       lineas[i].fichero = f /\ lineas[i].dirs[j] = d
EnTabla(f, d) == \E j \in 1 .. Len(tabla[f]) : tabla[f][j] = d

\* "Metodo para recuperar los datos desde un archivo": what recuperar_datos
\* leaves in the table is what salvar_datos had put into the file, at least
\* when every name in it is a name.  The weakest reading of it: either all
\* that was saved comes back, or nothing else does.
RecuperaFiel ==
    [][ LeeFin /\ (\A i \in 1 .. Len(lineas) : lineas[i].fichero # Vacio) =>
          \/ \A f \in Textos, d \in Direccion : Guardada(f, d) => EnTabla(f, d)
          \/ \A f \in Textos, d \in Direccion : EnTabla(f, d) => Guardada(f, d) ]_varsServidor

\* "Se recibio una senal SIGINT (Ctrl+C) Guardando datos...": a process that
\* ends on SIGINT leaves every file of its table in the backup.
CtrlCGuarda ==
    [][ Sigint /\ spc' = "parado" =>
          \A f \in Presentes(tabla) : \E i \in 1 .. Len(lineas') :
             lineas'[i] = [fichero |-> f, dirs |-> tabla[f]] ]_varsServidor

\* "recuperamos los datos de la ultima sesion si los hubiera": a SIGINT that
\* arrives before they are recovered leaves them in the file for the next run.
CtrlCNoBorra ==
    [][ SigintPropio /\ spc \in {"arranque", "leyendo"} =>
          lineas' = lineas ]_varsServidor

\* "Sale del programa con el codigo de senal recibido": once the handler of
\* SIGINT has begun, the process ends.
CtrlCTermina == (spc = "salvando") ~> (spc = "parado")
=============================================================================
