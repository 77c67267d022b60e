------------------------------ MODULE Almacen ------------------------------
(***************************************************************************)
(* The pure part of AlmacenDirecciones (includes/almacen.cpp): the table   *)
(* of addresses per file, the conversions of the fields of a registration, *)
(* and the tokens of the backup file as salvar_datos writes them and       *)
(* recuperar_datos reads them back.                                        *)
(*                                                                         *)
(* A text is abstracted to what the code tells apart: the decimal numeral  *)
(* it begins with (num, or NoNum when std::stoi would throw) and whatever  *)
(* follows that numeral (resto).  "7z.zip" is [num |-> 7, resto |->        *)
(* "z.zip"], "5050" is [num |-> 5050, resto |-> ""].  Texts contain        *)
(* neither blanks nor the separator "</>".                                 *)
(***************************************************************************)
EXTENDS Integers, Sequences

CONSTANTS
    NoNum,         \* marks a text std::stoi cannot convert
    Orden,         \* every text that can be a key of the table, in the order
                   \* in which std::map iterates over them
    Nombres,       \* the file names users type
    TextosIp,      \* the IP texts users type
    InetAddr,      \* inet_addr: IP text -> uint32_t
    TextosPuerto,  \* the port texts users type
    MaxU32         \* largest uint32_t (TLC's integers are narrower: see README)

MaxU16 == 65535
U16 == 0 .. MaxU16
U32 == 0 .. MaxU32

Palabra(w) == [num |-> NoNum, resto |-> w]
Numeral(n) == [num |-> n, resto |-> ""]
Vacio == Palabra("")
IpVacia == ""

Textos == { Orden[i] : i \in DOMAIN Orden }
Tokens == [num : Nat \cup {NoNum}, resto : STRING]

\* The numbers of U whose numeral is one of the texts.
Escritos(U) == { t.num : t \in { x \in Textos : x.num \in U /\ x.resto = "" } }
Direccion == [ip : Escritos(U32), puerto : Escritos(U16)]

\* What a registration carries, and a registration once it is in the table.
Datos == [nombre : Nombres \cup {Vacio}, ip : TextosIp, puerto : TextosPuerto]
Altas == [fichero : Textos, ip : Escritos(U32), puerto : Escritos(U16)]

ASSUME NumAssumption == /\ NoNum \notin Int
                        /\ MaxU32 \in Nat
                        /\ MaxU16 <= MaxU32

ASSUME OrdenAssumption ==
    /\ Orden \in Seq(Tokens)
    /\ \A i, j \in DOMAIN Orden : Orden[i] = Orden[j] => i = j

ASSUME CamposAssumption ==
    /\ Nombres \subseteq Textos
    /\ Vacio \in Textos
    /\ IpVacia \in TextosIp
    /\ InetAddr \in [TextosIp -> U32]
    /\ TextosPuerto \subseteq [num : Int \cup {NoNum}, resto : STRING]
    /\ Vacio \in TextosPuerto

----------------------------------------------------------------------------
(* Conversions.                                                            *)

\* std::stoi: the leading numeral; the text NoNum marks makes it throw.
Stoi(t) == t.num

MutHtons(n) == n * 256 + (n \div 256)

\* htons and ntohs on a little-endian host: the low 16 bits, bytes swapped.
Htons(n) == LET p == n % 65536 IN (p % 256) * 256 + (p \div 256)

----------------------------------------------------------------------------
(* The messages of the dialogue between client and server.                 *)

\* A request: a text (an option or a file name) or the fields of a
\* registration, in a text that begins with the file name.
MensajesTexto == [tipo : {"texto"}, texto : Tokens]
MensajesDatos == [tipo : {"datos"}, datos : Datos]
Mensajes == MensajesTexto \cup MensajesDatos
Texto(t) == [tipo |-> "texto", texto |-> t]
Registro(d) == [tipo |-> "datos", datos |-> d]

\* std::stoi on a whole request.
NumeroDe(m) == IF m.tipo = "texto" THEN Stoi(m.texto) ELSE Stoi(m.datos.nombre)

ACK == [tipo |-> "ACK"]
EMPTY == [tipo |-> "EMPTY"]
Direcciones == [tipo : {"dir"}, ip : U32, puerto : U16]
Listados == [tipo : {"listado"}, ficheros : SUBSET Textos]
Respuestas == {ACK, EMPTY} \cup Direcciones \cup Listados

----------------------------------------------------------------------------
(* The table: absent keys hold the empty vector, which the code never      *)
(* stores under a present key.                                             *)

TablaVacia == [f \in Textos |-> <<>>]
Presentes(t) == { f \in Textos : t[f] # <<>> }

\* separar_string: every text typed into a field is one token; it throws
\* when the port is not a number.
SepararOk(d) == Stoi(d.puerto) # NoNum
SepararString(d) == [fichero |-> d.nombre,
                     ip      |-> InetAddr[d.ip],
                     puerto  |-> Htons(Stoi(d.puerto))]

MutReemplazar(t, a) ==
    [t EXCEPT ![a.fichero] = <<[ip |-> a.ip, puerto |-> a.puerto]>>]

\* tabla.find and push_back / emplace of agregar_cliente.
AgregarCliente(t, a) ==
    [t EXCEPT ![a.fichero] = Append(@, [ip |-> a.ip, puerto |-> a.puerto])]

MutObtenerCliente(t, f) ==
    IF f \in Presentes(t)
    THEN [tipo |-> "dir", ip |-> t[f][1].ip, puerto |-> t[f][1].puerto]
    ELSE EMPTY

\* obtener_cliente: always the first address of the vector, port in host order.
ObtenerCliente(t, f) ==
    IF f \in Presentes(t)
    THEN [tipo |-> "dir", ip |-> t[f][1].ip, puerto |-> Htons(t[f][1].puerto)]
    ELSE EMPTY

\* obtener_ficheros, and the "EMPTY" main puts in the place of an empty list.
ObtenerFicheros(t) ==
    IF Presentes(t) = {} THEN EMPTY
    ELSE [tipo |-> "listado", ficheros |-> Presentes(t)]

----------------------------------------------------------------------------
(* The backup file as the sequence of its blank-separated tokens.          *)

MutLinea(f, ds) ==
    (IF f = Vacio THEN <<>> ELSE <<f>>)
      \o [i \in 1 .. 2 * Len(ds) |->
            Numeral(IF i % 2 = 0 THEN ds[i \div 2].ip
                                 ELSE ds[(i + 1) \div 2].puerto)]

\* One line of salvar_datos: the name (an empty name leaves no token), then
\* IP and port of every address.
Linea(f, ds) ==
    (IF f = Vacio THEN <<>> ELSE <<f>>)
      \o [i \in 1 .. 2 * Len(ds) |->
            Numeral(IF i % 2 = 1 THEN ds[(i + 1) \div 2].ip
                                 ELSE ds[i \div 2].puerto)]

\* archivo >> fichero >> ip >> puerto succeeds on the tokens s.  A token read
\* as a number must begin with one that fits; text after the ip's digits is
\* what the extraction of puerto meets, and fails on.
Legible(s) ==
    /\ Len(s) >= 3
    /\ s[2].num \in U32
    /\ s[2].resto = ""
    /\ s[3].num \in U16

LeidoDe(s) == [fichero |-> s[1], ip |-> s[2].num, puerto |-> s[3].num]

MutRestoDe(s) == SubSeq(s, 3, Len(s))

\* What is left in the stream: text after the port's digits stays there.
RestoDe(s) ==
    (IF s[3].resto = "" THEN <<>> ELSE <<Palabra(s[3].resto)>>)
      \o SubSeq(s, 4, Len(s))

\* The texts are closed under what writing and reading the file back can
\* turn into a key.
ASSUME CierreAssumption ==
    /\ \A t \in Textos : t.resto # "" => Palabra(t.resto) \in Textos
    /\ \A t \in Textos : t.num # NoNum => Numeral(t.num) \in Textos
    /\ \A x \in TextosIp : Numeral(InetAddr[x]) \in Textos
    /\ \A p \in TextosPuerto :
          Stoi(p) # NoNum => Numeral(Htons(Stoi(p))) \in Textos
=============================================================================
