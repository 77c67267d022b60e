-------------------------- MODULE ServidorProofs ---------------------------
(***************************************************************************)
(* Theorems about the server process, for any number of registrations, of  *)
(* restarts, of names and of addresses.                                    *)
(***************************************************************************)
EXTENDS Servidor, AlmacenProofs

\* A step of the server, whoever sends the request.
PasoServidor == Interno \/ Entorno \/ \E m \in Mensajes : Recv(m)

LEMMA PasoDeNext == NextServidor => PasoServidor
<1>1. Peticiones \subseteq Mensajes
  <2>1. Nombres \cup {Numeral(n) : n \in 0 .. 3} \subseteq Tokens
    <3>1. Nombres \subseteq Tokens
      BY CamposAssumption, TextosTipo
    <3>2. \A n \in 0 .. 3 : Numeral(n) \in Tokens
      <4>1. \A n \in 0 .. 3 : n \in Nat \cup {NoNum}
        OBVIOUS
      <4>2. "" \in STRING
        BY TextosTipo, CamposAssumption DEF Vacio, Palabra
      <4> QED BY <4>1, <4>2 DEF Numeral, Tokens
    <3> QED BY <3>1, <3>2
  <2> QED BY <2>1 DEF Peticiones, Mensajes, MensajesTexto, Texto
<1> QED BY <1>1 DEF NextServidor, PasoServidor

----------------------------------------------------------------------------
LEMMA VaciaTipo == TablaVacia \in [Textos -> Seq(Direccion)]
BY EmptySeq DEF TablaVacia

LEMMA InitTipo == InitServidor => TypeOKServidor
<1>1. /\ << >> \in Seq(Textos)
      /\ << >> \in Seq([fichero : Textos, dirs : Seq(Direccion)])
      /\ Len(Orden) \in Nat
  BY EmptySeq, LenProperties, OrdenAssumption
<1> QED BY <1>1, VaciaTipo, ServidorAssumption DEF InitServidor, TypeOKServidor

\* Ending the process, and accepting a registration, keep the types.
LEMMA ParaTipo == TypeOKServidor /\ Para => TypeOKServidor'
<1>1. << >> \in Seq(Textos) /\ Len(Orden) \in Nat
  BY EmptySeq, LenProperties, OrdenAssumption
<1> QED BY <1>1, VaciaTipo DEF TypeOKServidor, Para, disco, contadores, historia

LEMMA AceptaTipo ==
  ASSUME TypeOKServidor, NEW d \in Datos, Acepta(d)
  PROVE  /\ tabla' \in [Textos -> Seq(Direccion)]
         /\ aceptados' \subseteq Altas
         /\ inventados' \subseteq Altas
         /\ altas' \in Nat
<1>1. SepararString(d) \in Altas
  BY SepararTipo DEF Acepta
<1>2. tabla' \in [Textos -> Seq(Direccion)]
  BY <1>1, AgregarTipo DEF TypeOKServidor, Acepta
<1>3. aceptados' \subseteq Altas /\ inventados' \subseteq Altas /\ altas' \in Nat
  BY <1>1 DEF TypeOKServidor, Acepta
<1> QED BY <1>2, <1>3

LEMMA TipoPaso == TypeOKServidor /\ [PasoServidor]_varsServidor => TypeOKServidor'
<1> SUFFICES ASSUME TypeOKServidor, [PasoServidor]_varsServidor
             PROVE  TypeOKServidor'
  OBVIOUS
<1> USE DEF memoria, disco, contadores, historia
<1>L. Len(Orden) \in Nat /\ << >> \in Seq(Textos)
  BY EmptySeq, LenProperties, OrdenAssumption
<1>1. CASE Arranca
  BY <1>1, ServidorAssumption DEF Arranca, TypeOKServidor, Arranque
<1>2. CASE RecuperarDatos
  BY <1>2, VaciaTipo DEF RecuperarDatos, TypeOKServidor, Arranque
<1>3. CASE LeeRegistro
  <2>1. LeidoDe(lector) \in Altas /\ RestoDe(lector) \in Seq(Textos)
    BY <1>3, LeidoTipo DEF LeeRegistro, TypeOKServidor
  <2>2. tabla' \in [Textos -> Seq(Direccion)]
    BY <1>3, <2>1, AgregarTipo DEF LeeRegistro, TypeOKServidor
  <2> QED BY <1>3, <2>1, <2>2 DEF LeeRegistro, TypeOKServidor
<1>4. CASE LeeFin
  BY <1>4, <1>L DEF LeeFin, TypeOKServidor, Arranque
<1>5. CASE LanzaCrow
  BY <1>5 DEF LanzaCrow, TypeOKServidor, Bucle
<1>6. CASE CrowSirve
  BY <1>6 DEF CrowSirve, TypeOKServidor
<1>7. CASE SalvaLinea
  <2>1. PICK i \in cursor + 1 .. Len(Orden) :
          /\ cursor' = i
          /\ respaldo' = respaldo \o Linea(Orden[i], tabla[Orden[i]])
          /\ lineas' = Append(lineas, [fichero |-> Orden[i], dirs |-> tabla[Orden[i]]])
    BY <1>7 DEF SalvaLinea
  <2>2. i \in 1 .. Len(Orden) /\ Orden[i] \in Textos
    <3>1. i \in 1 .. Len(Orden)
      BY <1>L, <2>1 DEF TypeOKServidor
    <3>2. DOMAIN Orden = 1 .. Len(Orden)
      BY LenProperties, OrdenAssumption
    <3> QED BY <3>1, <3>2 DEF Textos
  <2>3. tabla[Orden[i]] \in Seq(Direccion)
    BY <2>2 DEF TypeOKServidor
  <2>4. respaldo' \in Seq(Textos)
    <3>1. PICK k \in Nat : k = IF Orden[i] = Vacio THEN 0 ELSE 1
      OBVIOUS
    <3>2. Linea(Orden[i], tabla[Orden[i]]) \in Seq(Textos)
      BY <2>2, <2>3, <3>1, LineaForma
    <3> QED BY <2>1, <3>2, ConcatProperties DEF TypeOKServidor
  <2>5. lineas' \in Seq([fichero : Textos, dirs : Seq(Direccion)])
    BY <2>1, <2>2, <2>3, AppendProperties DEF TypeOKServidor
  <2>6. cursor' \in 0 .. Len(Orden)
    BY <1>L, <2>1, <2>2
  <2> QED BY <1>7, <2>4, <2>5, <2>6 DEF SalvaLinea, TypeOKServidor
<1>8. CASE SalvaFin
  <2>1. CASE Para
    BY <2>1, ParaTipo
  <2>2. CASE ~Para
    BY <1>8, <2>2 DEF SalvaFin, TypeOKServidor, Manejador
  <2> QED BY <2>1, <2>2
<1>9. CASE SaleDelManejador \/ CrowFalla \/ Muere \/ SigintDefecto
  BY <1>9, ParaTipo DEF SaleDelManejador, CrowFalla, Muere, SigintDefecto
<1>10. ASSUME NEW d \in Datos, HttpGuardar(d) \/ HttpAgregarFichero(d)
       PROVE  TypeOKServidor'
  <2>1. CASE Acepta(d)
    BY <1>10, <2>1, AceptaTipo DEF HttpGuardar, HttpAgregarFichero, TypeOKServidor
  <2>2. CASE ~Acepta(d)
    BY <1>10, <2>2 DEF HttpGuardar, HttpAgregarFichero, TypeOKServidor
  <2> QED BY <2>1, <2>2
<1>11. CASE SigintPropio
  <2>1. lineas' \in Seq([fichero : Textos, dirs : Seq(Direccion)]) /\ respaldo' \in Seq(Textos)
    BY <1>11, EmptySeq DEF SigintPropio, AbreRespaldo, TypeOKServidor
  <2>2. spc' \in Manejador /\ crow' \in {"no", "lanzada", "en_manejador"}
    BY <1>11 DEF SigintPropio, AbreRespaldo, Manejador
  <2>3. cursor' \in 0 .. Len(Orden)
    BY <1>11, <1>L DEF SigintPropio, AbreRespaldo
  <2> QED BY <1>11, <2>1, <2>2, <2>3 DEF SigintPropio, TypeOKServidor
<1>12. CASE SigintCrow
  <2>1. CASE Para
    BY <2>1, ParaTipo
  <2>2. CASE ~Para
    BY <1>12, <2>2 DEF SigintCrow, TypeOKServidor
  <2> QED BY <2>1, <2>2
<1>13. ASSUME NEW m \in Mensajes, Recv(m)
       PROVE  TypeOKServidor'
  <2>1. CASE RecvListado(m)
    BY <2>1 DEF RecvListado, TypeOKServidor, varsServidor
  <2>2. CASE RecvAlta(m) \/ RecvDescarga(m) \/ RecvNombre(m)
    BY <2>2 DEF RecvAlta, RecvDescarga, RecvNombre, TypeOKServidor, Bucle
  <2>3. CASE RecvNoValido(m) \/ RecvDatosMal(m)
    BY <2>3, ParaTipo DEF RecvNoValido, RecvDatosMal
  <2>4. CASE RecvDatos(m)
    <3>1. m.datos \in Datos /\ Acepta(m.datos)
      BY <2>4 DEF RecvDatos, Mensajes, MensajesTexto, MensajesDatos
    <3>2. /\ tabla' \in [Textos -> Seq(Direccion)]
          /\ aceptados' \subseteq Altas
          /\ inventados' \subseteq Altas
          /\ altas' \in Nat
      BY <3>1, AceptaTipo
    <3> QED BY <2>4, <3>2 DEF RecvDatos, TypeOKServidor, Bucle
  <2> QED BY <1>13, <2>1, <2>2, <2>3, <2>4 DEF Recv
<1>14. CASE UNCHANGED varsServidor
  BY <1>14 DEF TypeOKServidor, varsServidor
<1> QED
  BY <1>1, <1>2, <1>3, <1>4, <1>5, <1>6, <1>7, <1>8, <1>9, <1>10, <1>11, <1>12,
     <1>13, <1>14 DEF PasoServidor, Interno, Entorno, Sigint

\* The types of the server's state, through every save, crash and restart:
\* in particular every token that can become a key of the table is a text.
THEOREM TipoServidor == SpecServidor => []TypeOKServidor
<1>1. TypeOKServidor /\ [NextServidor]_varsServidor => TypeOKServidor'
  BY TipoPaso, PasoDeNext
<1> QED BY <1>1, InitTipo, PTL DEF SpecServidor

----------------------------------------------------------------------------
(* When nothing is made up, first half: nobody has registered a name that  *)
(* begins with a 16-bit number, or an IP that is one.  Then a token of the *)
(* file that reads as a 16-bit number is always a port and always follows  *)
(* its IP; so the only three tokens the reader can take for a record are a *)
(* name and the address that really follows it.                            *)

Claras == aceptados \cap Confusas = {}

EsNombre(t) == t.num \notin U16
EsIp(t) == t.num \in Int /\ t.num > MaxU16 /\ t.resto = ""
EsPuerto(t) == t.num \in U16 /\ t.resto = ""

\* Every name is followed by an address that was accepted for it, every IP
\* by a port, every port preceded by an IP.
Gramatica(s, acc) ==
    \A i \in 1 .. Len(s) :
       \/ /\ EsNombre(s[i]) /\ i + 2 <= Len(s)
          /\ EsIp(s[i + 1]) /\ EsPuerto(s[i + 2])
          /\ [fichero |-> s[i], ip |-> s[i + 1].num, puerto |-> s[i + 2].num] \in acc
       \/ EsIp(s[i]) /\ i + 1 <= Len(s) /\ EsPuerto(s[i + 1])
       \/ EsPuerto(s[i]) /\ i > 1 /\ EsIp(s[i - 1])

TablaAceptada(t, acc) ==
    \A f \in Textos : \A i \in 1 .. Len(t[f]) :
       EsNombre(f) /\ t[f][i].ip > MaxU16 /\ Alta(f, t[f][i]) \in acc

\* That half of NadaInventado, as an inductive invariant.
InvBackup ==
    /\ TypeOKServidor
    /\ Claras => /\ TablaAceptada(tabla, aceptados)
                 /\ Gramatica(respaldo, aceptados)
                 /\ Gramatica(lector, aceptados)
                 /\ inventados = {}

LEMMA Clases ==
  /\ \A t : EsNombre(t) => ~EsPuerto(t)
  /\ \A t : EsIp(t) => ~EsPuerto(t)
<1>1. \A n \in U16 : n \in Int /\ ~(n > MaxU16)
  BY MaxU16Tipo, SMT DEF U16
<1> QED BY <1>1, Zenon DEF EsNombre, EsIp, EsPuerto

LEMMA GramaticaMonotona ==
  ASSUME NEW s, NEW A, NEW B, A \subseteq B, Gramatica(s, A)
  PROVE  Gramatica(s, B)
BY Zenon DEF Gramatica

LEMMA GramaticaVacia == \A A : Gramatica(<< >>, A)
BY DEF Gramatica

\* Whole lines can be put one after the other.
LEMMA GramaticaConcat ==
  ASSUME NEW A, NEW s \in Seq(Textos), NEW l \in Seq(Textos),
         Gramatica(s, A), Gramatica(l, A)
  PROVE  Gramatica(s \o l, A)
<1> DEFINE r == s \o l
           m == Len(s)
           n == Len(l)
<1>1. /\ m \in Nat /\ n \in Nat /\ Len(r) = m + n
      /\ \A i \in 1 .. m + n : r[i] = IF i <= m THEN s[i] ELSE l[i - m]
  BY ConcatProperties, LenProperties
<1>2. \A i \in 1 .. m : i \in 1 .. m + n /\ r[i] = s[i]
  BY <1>1
<1>3. \A i \in 1 .. n : m + i \in 1 .. m + n /\ r[m + i] = l[i]
  BY <1>1
<1> HIDE DEF r
<1> SUFFICES ASSUME NEW i \in 1 .. m + n
             PROVE  \/ /\ EsNombre(r[i]) /\ i + 2 <= m + n
                       /\ EsIp(r[i + 1]) /\ EsPuerto(r[i + 2])
                       /\ [fichero |-> r[i], ip |-> r[i + 1].num, puerto |-> r[i + 2].num] \in A
                    \/ EsIp(r[i]) /\ i + 1 <= m + n /\ EsPuerto(r[i + 1])
                    \/ EsPuerto(r[i]) /\ i > 1 /\ EsIp(r[i - 1])
  BY <1>1 DEF Gramatica, r
<1>4. CASE i <= m
  <2> i \in 1 .. m
    BY <1>4, <1>1
  <2>1. r[i] = s[i]
    BY <1>2
  <2>2. CASE /\ EsNombre(s[i]) /\ i + 2 <= m
             /\ EsIp(s[i + 1]) /\ EsPuerto(s[i + 2])
             /\ [fichero |-> s[i], ip |-> s[i + 1].num, puerto |-> s[i + 2].num] \in A
    <3>1. r[i + 1] = s[i + 1] /\ r[i + 2] = s[i + 2] /\ i + 2 <= m + n
      BY <1>1, <1>2, <2>2
    <3> QED BY <2>1, <2>2, <3>1
  <2>3. CASE EsIp(s[i]) /\ i + 1 <= m /\ EsPuerto(s[i + 1])
    <3>1. r[i + 1] = s[i + 1] /\ i + 1 <= m + n
      BY <1>1, <1>2, <2>3
    <3> QED BY <2>1, <2>3, <3>1
  <2>4. CASE EsPuerto(s[i]) /\ i > 1 /\ EsIp(s[i - 1])
    <3>1. r[i - 1] = s[i - 1]
      BY <1>1, <1>2, <2>4
    <3> QED BY <2>1, <2>4, <3>1
  <2> QED BY <2>2, <2>3, <2>4 DEF Gramatica
<1>5. CASE ~(i <= m)
  <2>1. PICK j \in 1 .. n : i = m + j
    BY <1>1, <1>5
  <2>2. r[i] = l[j]
    BY <1>3, <2>1
  <2>3. CASE /\ EsNombre(l[j]) /\ j + 2 <= n
             /\ EsIp(l[j + 1]) /\ EsPuerto(l[j + 2])
             /\ [fichero |-> l[j], ip |-> l[j + 1].num, puerto |-> l[j + 2].num] \in A
    <3>1. j + 1 \in 1 .. n /\ j + 2 \in 1 .. n /\ i + 1 = m + (j + 1) /\ i + 2 = m + (j + 2)
      BY <1>1, <2>1, <2>3
    <3>2. r[i + 1] = l[j + 1] /\ r[i + 2] = l[j + 2] /\ i + 2 <= m + n
      <4>1. r[m + (j + 1)] = l[j + 1] /\ r[m + (j + 2)] = l[j + 2]
        BY <1>3, <3>1
      <4>2. i + 2 <= m + n
        BY <1>1, <3>1
      <4> QED BY <3>1, <4>1, <4>2
    <3> QED BY <2>2, <2>3, <3>2
  <2>4. CASE EsIp(l[j]) /\ j + 1 <= n /\ EsPuerto(l[j + 1])
    <3>1. j + 1 \in 1 .. n /\ i + 1 = m + (j + 1)
      BY <1>1, <2>1, <2>4
    <3>2. r[i + 1] = l[j + 1] /\ i + 1 <= m + n
      BY <1>1, <1>3, <3>1
    <3> QED BY <2>2, <2>4, <3>2
  <2>5. CASE EsPuerto(l[j]) /\ j > 1 /\ EsIp(l[j - 1])
    <3>1. j - 1 \in 1 .. n /\ i - 1 = m + (j - 1) /\ i > 1
      BY <1>1, <2>1, <2>5
    <3>2. r[i - 1] = l[j - 1]
      BY <1>3, <3>1
    <3> QED BY <2>2, <2>5, <3>1, <3>2
  <2> QED BY <2>3, <2>4, <2>5 DEF Gramatica
<1> QED BY <1>4, <1>5

\* What salvar_datos writes for one key.
LEMMA GramaticaLinea ==
  ASSUME NEW A, NEW f \in Textos, NEW ds \in Seq(Direccion), ds # << >>, EsNombre(f),
         \A i \in 1 .. Len(ds) : ds[i].ip > MaxU16 /\ Alta(f, ds[i]) \in A
  PROVE  Gramatica(Linea(f, ds), A)
<1>1. PICK k \in Nat : k = IF f = Vacio THEN 0 ELSE 1
  OBVIOUS
<1> DEFINE l == Linea(f, ds)
           n == Len(ds)
<1>2. /\ Len(l) = k + 2 * n
      /\ f # Vacio => l[1] = f
      /\ \A i \in 1 .. n : /\ l[k + (2 * i - 1)] = Numeral(ds[i].ip)
                           /\ l[k + 2 * i] = Numeral(ds[i].puerto)
  BY <1>1, LineaForma
<1>3. n \in Nat /\ n >= 1 /\ k \in {0, 1} /\ (k = 1 <=> f # Vacio)
  BY <1>1, EmptySeq, LenProperties
<1>4. \A i \in 1 .. n : EsIp(l[k + (2 * i - 1)]) /\ EsPuerto(l[k + 2 * i])
  <2> TAKE i \in 1 .. n
  <2>1. ds[i] \in Direccion
    BY ElementOfSeq
  <2>2. ds[i].ip \in U32 /\ ds[i].puerto \in U16 /\ ds[i].ip > MaxU16
    BY <2>1, EscritosDef DEF Direccion
  <2>3. ds[i].ip \in Int
    BY <2>2, MaxU16Tipo DEF U32
  <2>4. EsIp(Numeral(ds[i].ip)) /\ EsPuerto(Numeral(ds[i].puerto))
    BY <2>2, <2>3 DEF EsIp, EsPuerto, Numeral
  <2> QED BY <1>2, <2>4, Zenon
<1> HIDE DEF l
<1> SUFFICES ASSUME NEW j \in 1 .. k + 2 * n
             PROVE  \/ /\ EsNombre(l[j]) /\ j + 2 <= k + 2 * n
                       /\ EsIp(l[j + 1]) /\ EsPuerto(l[j + 2])
                       /\ [fichero |-> l[j], ip |-> l[j + 1].num, puerto |-> l[j + 2].num] \in A
                    \/ EsIp(l[j]) /\ j + 1 <= k + 2 * n /\ EsPuerto(l[j + 1])
                    \/ EsPuerto(l[j]) /\ j > 1 /\ EsIp(l[j - 1])
  BY <1>2 DEF Gramatica, l
<1>5. CASE j <= k
  <2>1. j = 1 /\ k = 1 /\ f # Vacio /\ l[j] = f
    BY <1>2, <1>3, <1>5
  <2>2. 1 \in 1 .. n /\ k + (2 * 1 - 1) = j + 1 /\ k + 2 * 1 = j + 2 /\ j + 2 <= k + 2 * n
    BY <1>3, <2>1
  <2>3. EsIp(l[j + 1]) /\ EsPuerto(l[j + 2])
    BY <1>4, <2>2
  <2>4. l[j + 1] = Numeral(ds[1].ip) /\ l[j + 2] = Numeral(ds[1].puerto)
    BY <1>2, <2>2
  <2>5. [fichero |-> l[j], ip |-> l[j + 1].num, puerto |-> l[j + 2].num] \in A
    <3>1. l[j + 1].num = ds[1].ip /\ l[j + 2].num = ds[1].puerto
      <4>1. \A x : Numeral(x).num = x
        BY DEF Numeral
      <4> QED BY <2>4, <4>1, Zenon
    <3>2. Alta(f, ds[1]) \in A
      BY <2>2
    <3> QED BY <2>1, <3>1, <3>2, Zenon DEF Alta
  <2> QED BY <2>1, <2>2, <2>3, <2>5
<1>6. CASE ~(j <= k)
  <2>1. j - k \in 1 .. 2 * n
    BY <1>3, <1>6
  <2>2. PICK i \in 1 .. n : j - k = 2 * i - 1 \/ j - k = 2 * i
    BY <1>3, <2>1, ParImpar
  <2>3. CASE j - k = 2 * i - 1
    <3>1. j = k + (2 * i - 1) /\ j + 1 = k + 2 * i /\ j + 1 <= k + 2 * n
      BY <1>3, <2>3
    <3> QED BY <1>4, <3>1
  <2>4. CASE j - k = 2 * i
    <3>1. j = k + 2 * i /\ j - 1 = k + (2 * i - 1) /\ j > 1
      BY <1>3, <2>4
    <3> QED BY <1>4, <3>1
  <2> QED BY <2>2, <2>3, <2>4
<1> QED BY <1>5, <1>6

\* What recuperar_datos takes for a record is one.
LEMMA GramaticaLee ==
  ASSUME NEW A, NEW s \in Seq(Textos), Gramatica(s, A), Legible(s)
  PROVE  /\ LeidoDe(s) \in A
         /\ EsNombre(LeidoDe(s).fichero) /\ LeidoDe(s).ip > MaxU16
         /\ Gramatica(RestoDe(s), A)
<1> DEFINE n == Len(s)
<1>1. n \in Nat /\ 3 <= n /\ s[3].num \in U16
  BY LenProperties DEF Legible
<1>2. 1 \in 1 .. n /\ 2 \in 1 .. n /\ 3 \in 1 .. n
  BY <1>1
<1>3. ~EsIp(s[3]) /\ ~EsNombre(s[3])
  <2>1. \A m \in U16 : m \in Int /\ ~(m > MaxU16)
    BY MaxU16Tipo, SMT DEF U16
  <2> QED BY <1>1, <2>1, Zenon DEF EsIp, EsNombre
<1>4. EsPuerto(s[3]) /\ EsIp(s[2])
  <2>1. EsPuerto(s[3]) /\ 3 > 1 /\ EsIp(s[3 - 1])
    BY <1>2, <1>3 DEF Gramatica
  <2>2. 3 - 1 = 2
    OBVIOUS
  <2> QED BY <2>1, <2>2
<1>5. ~EsPuerto(s[2])
  BY <1>4, Clases
<1>6. /\ EsNombre(s[1])
      /\ [fichero |-> s[1], ip |-> s[2].num, puerto |-> s[3].num] \in A
  <2>1. ~(EsIp(s[1]) /\ 1 + 1 <= n /\ EsPuerto(s[1 + 1]))
    BY <1>5
  <2>2. ~(1 > 1)
    OBVIOUS
  <2>3. EsNombre(s[1]) /\ [fichero |-> s[1], ip |-> s[1 + 1].num, puerto |-> s[1 + 2].num] \in A
    BY <1>2, <2>1, <2>2 DEF Gramatica
  <2>4. 1 + 1 = 2 /\ 1 + 2 = 3
    OBVIOUS
  <2> QED BY <2>3, <2>4
<1>7. RestoDe(s) = SubSeq(s, 4, n)
  <2>1. \A i \in 4 .. n : s[i] \in Textos
    BY <1>1, ElementOfSeq
  <2>2. SubSeq(s, 4, n) \in Seq(Textos)
    BY <1>1, <2>1, SubSeqProperties
  <2>3. RestoDe(s) = << >> \o SubSeq(s, 4, n)
    BY <1>4 DEF RestoDe, EsPuerto
  <2> QED BY <2>2, <2>3, ConcatEmptySeq
<1>8. Gramatica(SubSeq(s, 4, n), A)
  <2> DEFINE r == SubSeq(s, 4, n)
  <2>1. \A i \in 4 .. n : s[i] \in Textos
    BY <1>1, ElementOfSeq
  <2>2. /\ Len(r) = IF 4 <= n THEN n - 4 + 1 ELSE 0
        /\ \A i \in 1 .. n - 4 + 1 : r[i] = s[4 + i - 1]
    BY <1>1, <2>1, SubSeqProperties
  <2>3. Len(r) = n - 3 /\ \A i \in 1 .. n - 3 : r[i] = s[i + 3]
    <3>1. n - 4 + 1 = n - 3 /\ (~(4 <= n) => n - 3 = 0)
      <4> HIDE DEF n
      <4>1. n \in Nat /\ 3 <= n
        BY <1>1
      <4> QED BY <4>1, SMT
    <3>2. \A i \in 1 .. n - 3 : 4 + i - 1 = i + 3
      BY <1>1
    <3>3. Len(r) = n - 3
      BY <2>2, <3>1, Zenon
    <3>4. \A i \in 1 .. n - 3 : r[i] = s[i + 3]
      BY <2>2, <3>1, <3>2, Zenon
    <3> QED BY <3>3, <3>4
  <2> HIDE DEF r
  <2> SUFFICES ASSUME NEW i \in 1 .. n - 3
               PROVE  \/ /\ EsNombre(r[i]) /\ i + 2 <= n - 3
                         /\ EsIp(r[i + 1]) /\ EsPuerto(r[i + 2])
                         /\ [fichero |-> r[i], ip |-> r[i + 1].num, puerto |-> r[i + 2].num] \in A
                      \/ EsIp(r[i]) /\ i + 1 <= n - 3 /\ EsPuerto(r[i + 1])
                      \/ EsPuerto(r[i]) /\ i > 1 /\ EsIp(r[i - 1])
    BY <2>3 DEF Gramatica, r
  <2>4. PICK j \in 1 .. n : j = i + 3
    BY <1>1
  <2>5. r[i] = s[j]
    BY <2>3, <2>4
  <2>6. CASE /\ EsNombre(s[j]) /\ j + 2 <= n
             /\ EsIp(s[j + 1]) /\ EsPuerto(s[j + 2])
             /\ [fichero |-> s[j], ip |-> s[j + 1].num, puerto |-> s[j + 2].num] \in A
    <3>1. /\ i + 1 \in 1 .. n - 3 /\ i + 2 \in 1 .. n - 3 /\ i + 2 <= n - 3
          /\ (i + 1) + 3 = j + 1 /\ (i + 2) + 3 = j + 2
      BY <1>1, <2>4, <2>6
    <3>2. r[i + 1] = s[j + 1] /\ r[i + 2] = s[j + 2]
      <4>1. r[i + 1] = s[(i + 1) + 3] /\ r[i + 2] = s[(i + 2) + 3]
        BY <2>3, <3>1, Zenon
      <4> QED BY <3>1, <4>1, Zenon
    <3> QED BY <2>5, <2>6, <3>1, <3>2
  <2>7. CASE EsIp(s[j]) /\ j + 1 <= n /\ EsPuerto(s[j + 1])
    <3>1. i + 1 \in 1 .. n - 3 /\ i + 1 <= n - 3 /\ (i + 1) + 3 = j + 1
      BY <1>1, <2>4, <2>7
    <3>2. r[i + 1] = s[j + 1]
      BY <2>3, <3>1
    <3> QED BY <2>5, <2>7, <3>1, <3>2
  <2>8. CASE EsPuerto(s[j]) /\ j > 1 /\ EsIp(s[j - 1])
    <3>1. i # 1
      <4>1. i = 1 => j - 1 = 3
        BY <2>4
      <4> QED BY <1>3, <2>8, <4>1
    <3>2. i - 1 \in 1 .. n - 3 /\ i > 1 /\ (i - 1) + 3 = j - 1
      BY <1>1, <2>4, <3>1
    <3>3. r[i - 1] = s[j - 1]
      BY <2>3, <3>2
    <3> QED BY <2>5, <2>8, <3>2, <3>3
  <2> QED BY <2>6, <2>7, <2>8 DEF Gramatica
<1> QED BY <1>4, <1>6, <1>7, <1>8 DEF LeidoDe, EsIp

LEMMA TablaAceptadaMonotona ==
  ASSUME NEW t, NEW A, NEW B, A \subseteq B, TablaAceptada(t, A)
  PROVE  TablaAceptada(t, B)
BY Zenon DEF TablaAceptada

LEMMA TablaAceptadaVacia == \A A : TablaAceptada(TablaVacia, A)
BY DEF TablaAceptada, TablaVacia

LEMMA TablaAceptadaAgrega ==
  ASSUME NEW A, NEW t \in [Textos -> Seq(Direccion)], NEW a \in Altas,
         TablaAceptada(t, A), a \in A, EsNombre(a.fichero), a.ip > MaxU16
  PROVE  TablaAceptada(AgregarCliente(t, a), A)
<1> DEFINE u == AgregarCliente(t, a)
           e == [ip |-> a.ip, puerto |-> a.puerto]
<1>1. /\ \A f \in Textos \ {a.fichero} : u[f] = t[f]
      /\ u[a.fichero] = Append(t[a.fichero], e)
  BY AgregarTipo
<1>2. a.fichero \in Textos /\ e \in Direccion /\ t[a.fichero] \in Seq(Direccion)
  BY DEF Altas, Direccion
<1>3. Alta(a.fichero, e) = a
  BY DEF Alta, Altas
<1>4. /\ Len(u[a.fichero]) = Len(t[a.fichero]) + 1
      /\ \A i \in 1 .. Len(t[a.fichero]) : u[a.fichero][i] = t[a.fichero][i]
      /\ u[a.fichero][Len(t[a.fichero]) + 1] = e
  BY <1>1, <1>2, AppendProperties
<1>5. Len(t[a.fichero]) \in Nat
  BY <1>2, LenProperties
<1> HIDE DEF u
<1> SUFFICES ASSUME NEW f \in Textos, NEW i \in 1 .. Len(u[f])
             PROVE  EsNombre(f) /\ u[f][i].ip > MaxU16 /\ Alta(f, u[f][i]) \in A
  BY DEF TablaAceptada, u
<1>6. CASE f # a.fichero
  <2>1. u[f] = t[f]
    BY <1>1, <1>6
  <2> QED BY <2>1 DEF TablaAceptada
<1>7. CASE f = a.fichero
  <2>1. CASE i = Len(t[f]) + 1
    <3>1. u[f][i] = e
      BY <1>4, <1>7, <2>1
    <3>2. e.ip > MaxU16
      OBVIOUS
    <3> QED BY <1>3, <1>7, <3>1, <3>2
  <2>2. CASE i # Len(t[f]) + 1
    <3>1. i \in 1 .. Len(t[f])
      BY <1>4, <1>5, <1>7, <2>2
    <3>2. u[f][i] = t[f][i]
      BY <1>4, <1>7, <3>1
    <3> QED BY <3>1, <3>2 DEF TablaAceptada
  <2> QED BY <2>1, <2>2
<1> QED BY <1>6, <1>7

\* A registration that cannot be mistaken.
LEMMA ClaraDef ==
  ASSUME NEW x \in Altas, x \notin Confusas
  PROVE  EsNombre(x.fichero) /\ x.ip > MaxU16
<1>1. x.fichero.num \notin U16 /\ x.ip \notin U16
  BY DEF Confusas, Stoi
<1>2. x.ip \in U32
  BY EscritosDef DEF Altas
<1>3. x.ip > MaxU16
  <2>1. \A n \in U32 : n \notin U16 => n > MaxU16
    BY MaxU16Tipo, SMT DEF U32, U16
  <2> QED BY <1>1, <1>2, <2>1, Zenon
<1> QED BY <1>1, <1>3 DEF EsNombre

\* agregar_cliente, when the new registration cannot be mistaken either.
LEMMA AceptaBackup ==
  ASSUME TypeOKServidor, TablaAceptada(tabla, aceptados), Claras', NEW d \in Datos, Acepta(d)
  PROVE  TablaAceptada(tabla', aceptados')
<1> DEFINE a == SepararString(d)
<1>1. a \in Altas
  BY SepararTipo DEF Acepta
<1> HIDE DEF a
<1>2. aceptados' = aceptados \cup {a} /\ tabla' = AgregarCliente(tabla, a)
  BY DEF Acepta, a
<1>3. EsNombre(a.fichero) /\ a.ip > MaxU16
  BY <1>1, <1>2, ClaraDef DEF Claras
<1>4. TablaAceptada(tabla, aceptados')
  BY <1>2, TablaAceptadaMonotona
<1>5. tabla \in [Textos -> Seq(Direccion)]
  BY DEF TypeOKServidor
<1> QED BY <1>1, <1>2, <1>3, <1>4, <1>5, TablaAceptadaAgrega

\* What has been accepted stays accepted.
LEMMA AceptadosCrece ==
  ASSUME [PasoServidor]_varsServidor
  PROVE  \/ UNCHANGED <<aceptados, altas>>
         \/ \E d \in Datos : Acepta(d)
<1> USE DEF memoria, disco, contadores, historia
<1>3. CASE Interno
  BY <1>3 DEF Interno, Arranca, RecuperarDatos, LeeRegistro, LeeFin, LanzaCrow,
              CrowSirve, SalvaLinea, SalvaFin, SaleDelManejador, Para
<1>4. CASE CrowFalla \/ Sigint \/ Muere
  BY <1>4 DEF CrowFalla, Sigint, SigintPropio, SigintCrow, SigintDefecto, Muere, Para
<1>5. ASSUME NEW d \in Datos, HttpGuardar(d) \/ HttpAgregarFichero(d)
      PROVE  Acepta(d) \/ UNCHANGED <<aceptados, altas>>
  BY <1>5 DEF HttpGuardar, HttpAgregarFichero
<1>6. ASSUME NEW m \in Mensajes, Recv(m)
      PROVE  (m.datos \in Datos /\ Acepta(m.datos)) \/ UNCHANGED <<aceptados, altas>>
  <2>1. CASE RecvDatos(m)
    BY <2>1 DEF RecvDatos, Mensajes, MensajesTexto, MensajesDatos
  <2>2. CASE ~RecvDatos(m)
    BY <1>6, <2>2 DEF Recv, RecvListado, RecvAlta, RecvDescarga, RecvNoValido,
                      RecvDatosMal, RecvNombre, Para, varsServidor
  <2> QED BY <2>1, <2>2
<1>7. CASE UNCHANGED varsServidor
  BY <1>7 DEF varsServidor
<1> QED BY <1>3, <1>4, <1>5, <1>6, <1>7 DEF PasoServidor, Entorno

LEMMA InitBackup == InitServidor => InvBackup
BY InitTipo, TablaAceptadaVacia, GramaticaVacia DEF InitServidor, InvBackup

LEMMA BackupPaso ==
  ASSUME InvBackup, [PasoServidor]_varsServidor
  PROVE  InvBackup'
<1> USE DEF memoria, disco, contadores, historia
<1> DEFINE Queda == /\ TablaAceptada(tabla', aceptados')
                    /\ Gramatica(respaldo', aceptados')
                    /\ Gramatica(lector', aceptados')
                    /\ inventados' = {}
<1>0. SUFFICES ASSUME Claras' PROVE Queda
  BY TipoPaso DEF InvBackup
<1>C. aceptados \subseteq aceptados' /\ Claras
  BY <1>0, AceptadosCrece DEF Acepta, Claras
<1>H. /\ TypeOKServidor /\ TablaAceptada(tabla, aceptados)
      /\ Gramatica(respaldo, aceptados) /\ Gramatica(lector, aceptados)
      /\ inventados = {}
  BY <1>C DEF InvBackup
<1>P. CASE Para
  BY <1>H, <1>P, TablaAceptadaVacia, GramaticaVacia DEF Para
<1>1. CASE Arranca \/ LanzaCrow \/ CrowSirve \/ LeeFin \/ RecuperarDatos
  BY <1>H, <1>1, TablaAceptadaVacia, GramaticaVacia
     DEF Arranca, LanzaCrow, CrowSirve, LeeFin, RecuperarDatos
<1>2. CASE LeeRegistro
  <2>1. lector \in Seq(Textos) /\ tabla \in [Textos -> Seq(Direccion)] /\ Legible(lector)
    BY <1>H, <1>2 DEF LeeRegistro, TypeOKServidor
  <2>2. /\ LeidoDe(lector) \in aceptados
        /\ EsNombre(LeidoDe(lector).fichero) /\ LeidoDe(lector).ip > MaxU16
        /\ Gramatica(RestoDe(lector), aceptados)
    BY <1>H, <2>1, GramaticaLee
  <2>3. LeidoDe(lector) \in Altas
    BY <2>1, LeidoTipo
  <2>4. TablaAceptada(AgregarCliente(tabla, LeidoDe(lector)), aceptados)
    BY <1>H, <2>1, <2>2, <2>3, TablaAceptadaAgrega
  <2> QED BY <1>H, <1>2, <2>2, <2>4 DEF LeeRegistro
<1>3. CASE SalvaLinea
  <2>1. PICK i \in cursor + 1 .. Len(Orden) :
          /\ tabla[Orden[i]] # << >>
          /\ respaldo' = respaldo \o Linea(Orden[i], tabla[Orden[i]])
    BY <1>3 DEF SalvaLinea
  <2> DEFINE f == Orden[i]
  <2>2. f \in Textos
    <3>1. i \in 1 .. Len(Orden)
      BY <1>H, <2>1, LenProperties, OrdenAssumption DEF TypeOKServidor
    <3>2. DOMAIN Orden = 1 .. Len(Orden)
      BY LenProperties, OrdenAssumption
    <3> QED BY <3>1, <3>2 DEF Textos
  <2> HIDE DEF f
  <2>3. tabla[f] \in Seq(Direccion) /\ tabla[f] # << >> /\ respaldo \in Seq(Textos)
    BY <1>H, <2>1, <2>2 DEF TypeOKServidor, f
  <2>4. 1 \in 1 .. Len(tabla[f])
    BY <2>3, EmptySeq
  <2>5. EsNombre(f) /\ \A j \in 1 .. Len(tabla[f]) :
          tabla[f][j].ip > MaxU16 /\ Alta(f, tabla[f][j]) \in aceptados
    BY <1>H, <2>2, <2>4 DEF TablaAceptada
  <2>6. Gramatica(Linea(f, tabla[f]), aceptados)
    BY <2>2, <2>3, <2>5, GramaticaLinea
  <2>7. Linea(f, tabla[f]) \in Seq(Textos)
    <3>1. PICK k \in Nat : k = IF f = Vacio THEN 0 ELSE 1
      OBVIOUS
    <3> QED BY <2>2, <2>3, <3>1, LineaForma
  <2>8. Gramatica(respaldo \o Linea(f, tabla[f]), aceptados)
    BY <1>H, <2>3, <2>6, <2>7, GramaticaConcat
  <2> QED BY <1>H, <1>3, <2>1, <2>8 DEF SalvaLinea, f
<1>4. CASE SalvaFin
  BY <1>H, <1>4, <1>P DEF SalvaFin
<1>5. CASE SaleDelManejador \/ CrowFalla \/ Muere \/ SigintDefecto
  BY <1>5, <1>P DEF SaleDelManejador, CrowFalla, Muere, SigintDefecto
<1>6. ASSUME NEW d \in Datos, Acepta(d), UNCHANGED <<respaldo, lector>>
      PROVE  Queda
  <2>1. TablaAceptada(tabla', aceptados') /\ aceptados \subseteq aceptados'
    BY <1>0, <1>6, <1>C, <1>H, AceptaBackup
  <2>2. Gramatica(respaldo, aceptados') /\ Gramatica(lector, aceptados')
    BY <1>H, <2>1, GramaticaMonotona
  <2> QED BY <1>6, <1>H, <2>1, <2>2 DEF Acepta
<1>7. ASSUME NEW d \in Datos, HttpGuardar(d) \/ HttpAgregarFichero(d)
      PROVE  Queda
  <2>1. CASE Acepta(d)
    BY <1>6, <1>7, <2>1 DEF HttpGuardar, HttpAgregarFichero
  <2>2. CASE ~Acepta(d)
    BY <1>H, <1>7, <2>2 DEF HttpGuardar, HttpAgregarFichero
  <2> QED BY <2>1, <2>2
<1>8. CASE SigintPropio
  BY <1>H, <1>8, GramaticaVacia DEF SigintPropio, AbreRespaldo
<1>9. CASE SigintCrow
  BY <1>H, <1>9, <1>P DEF SigintCrow
<1>10. ASSUME NEW m \in Mensajes, Recv(m)
       PROVE  Queda
  <2>1. CASE RecvListado(m) \/ RecvAlta(m) \/ RecvDescarga(m) \/ RecvNombre(m)
    BY <1>H, <2>1 DEF RecvListado, RecvAlta, RecvDescarga, RecvNombre, varsServidor
  <2>2. CASE RecvNoValido(m) \/ RecvDatosMal(m)
    BY <1>P, <2>2 DEF RecvNoValido, RecvDatosMal
  <2>3. CASE RecvDatos(m)
    <3>1. m.datos \in Datos /\ Acepta(m.datos) /\ UNCHANGED <<respaldo, lector>>
      BY <2>3 DEF RecvDatos, Mensajes, MensajesTexto, MensajesDatos
    <3> QED BY <1>6, <3>1
  <2> QED BY <1>10, <2>1, <2>2, <2>3 DEF Recv
<1>11. CASE UNCHANGED varsServidor
  BY <1>H, <1>11 DEF varsServidor
<1> QED
  BY <1>1, <1>2, <1>3, <1>4, <1>5, <1>7, <1>8, <1>9, <1>10, <1>11
     DEF PasoServidor, Interno, Entorno, Sigint
=============================================================================
