-------------------------- MODULE DirectorioProofs -------------------------
(***************************************************************************)
(* The server process as a directory of offers.  It implements the         *)
(* abstract one: every step starts or stops it, publishes a registration,  *)
(* brings one back, or changes nothing a client could see.  While a        *)
(* process lives its table only grows; what the next process finds is the  *)
(* lines of the backup file up to the first one recuperar_datos cannot get *)
(* through, and more exactly when the reader loses its place unnoticed.    *)
(***************************************************************************)
EXTENDS ServidorProofs, FiniteSetTheorems

LEMMA OfertasVacia == Ofertas(TablaVacia) = {}
<1>1. \A f \in Textos : TablaVacia[f] = << >> /\ 1 .. Len(TablaVacia[f]) = {}
  <2> TAKE f \in Textos
  <2>1. TablaVacia[f] = << >> /\ Len(TablaVacia[f]) = 0
    BY DEF TablaVacia
  <2> QED BY <2>1
<1> QED BY <1>1 DEF Ofertas

LEMMA OfertasDef ==
  ASSUME NEW t, NEW x
  PROVE  x \in Ofertas(t) <=> \E f \in Textos : \E i \in 1 .. Len(t[f]) : x = Alta(f, t[f][i])
BY DEF Ofertas

\* agregar_cliente puts one registration more on offer, and takes none away.
LEMMA OfertasAgrega ==
  ASSUME NEW t \in [Textos -> Seq(Direccion)], NEW a \in Altas
  PROVE  Ofertas(AgregarCliente(t, a)) = Ofertas(t) \cup {a}
<1> DEFINE u == AgregarCliente(t, a)
           e == [ip |-> a.ip, puerto |-> a.puerto]
           g == a.fichero
<1>1. (\A f \in Textos \ {g} : u[f] = t[f]) /\ u[g] = Append(t[g], e)
  BY AgregarTipo
<1>2. g \in Textos /\ e \in Direccion /\ t[g] \in Seq(Direccion)
  BY DEF Altas, Direccion
<1>3. Alta(g, e) = a
  BY DEF Alta, Altas
<1>4. /\ Len(u[g]) = Len(t[g]) + 1
      /\ \A i \in 1 .. Len(t[g]) : u[g][i] = t[g][i]
      /\ u[g][Len(t[g]) + 1] = e
  BY <1>1, <1>2, AppendProperties
<1>5. Len(t[g]) \in Nat
  BY <1>2, LenProperties
<1>6. /\ Len(t[g]) + 1 \in 1 .. Len(u[g])
      /\ \A i \in 1 .. Len(t[g]) : i \in 1 .. Len(u[g])
      /\ \A i \in 1 .. Len(u[g]) : i \in 1 .. Len(t[g]) \/ i = Len(t[g]) + 1
  BY <1>4, <1>5
<1> HIDE DEF u, e, g
<1>7. ASSUME NEW x \in Ofertas(u) PROVE x \in Ofertas(t) \cup {a}
  <2>1. PICK f \in Textos : \E i \in 1 .. Len(u[f]) : x = Alta(f, u[f][i])
    BY <1>7, OfertasDef
  <2>2. PICK i \in 1 .. Len(u[f]) : x = Alta(f, u[f][i])
    BY <2>1
  <2>3. CASE f # g
    <3>1. u[f] = t[f]
      BY <1>1, <2>3
    <3> QED BY <2>2, <3>1, OfertasDef
  <2>4. CASE f = g /\ i \in 1 .. Len(t[g])
    <3>1. u[f][i] = t[f][i]
      BY <1>4, <2>4
    <3> QED BY <2>2, <2>4, <3>1, OfertasDef
  <2>5. CASE f = g /\ i = Len(t[g]) + 1
    BY <1>3, <1>4, <2>2, <2>5
  <2> QED BY <1>6, <2>3, <2>4, <2>5
<1>8. ASSUME NEW x \in Ofertas(t) PROVE x \in Ofertas(u)
  <2>1. PICK f \in Textos : \E i \in 1 .. Len(t[f]) : x = Alta(f, t[f][i])
    BY <1>8, OfertasDef
  <2>2. PICK i \in 1 .. Len(t[f]) : x = Alta(f, t[f][i])
    BY <2>1
  <2>3. i \in 1 .. Len(u[f]) /\ u[f][i] = t[f][i]
    <3>1. CASE f = g
      BY <1>4, <1>6, <3>1
    <3>2. CASE f # g
      BY <1>1, <3>2
    <3> QED BY <3>1, <3>2
  <2> QED BY <2>2, <2>3, OfertasDef
<1>9. a \in Ofertas(u)
  BY <1>2, <1>3, <1>4, <1>6, OfertasDef
<1> QED BY <1>7, <1>8, <1>9 DEF u

----------------------------------------------------------------------------
(* Before a process registers files.  The only assignment that empties the *)
(* table is tabla.clear() at the start of recuperar_datos; it empties      *)
(* nothing, because no thread that registers files exists yet.             *)

InvPrevio ==
    /\ TypeOKServidor
    /\ spc \in {"parado", "arranque"} => tabla = TablaVacia
    /\ spc \in {"parado"} \cup Arranque => crow = "no"

LEMMA InitPrevio == InitServidor => InvPrevio
BY InitTipo DEF InitServidor, InvPrevio

LEMMA PrevioPaso == InvPrevio /\ [PasoServidor]_varsServidor => InvPrevio'
<1> DEFINE Previo == /\ spc' \in {"parado", "arranque"} => tabla' = TablaVacia
                     /\ spc' \in {"parado"} \cup Arranque => crow' = "no"
<1> SUFFICES ASSUME InvPrevio, [PasoServidor]_varsServidor
             PROVE  Previo
  BY TipoPaso DEF InvPrevio
<1> USE DEF memoria, disco, contadores, historia, Arranque, Bucle
<1>P. CASE Para
  BY <1>P DEF Para
<1>1. CASE Arranca \/ RecuperarDatos \/ LeeRegistro \/ LeeFin \/ LanzaCrow
  BY <1>1 DEF Arranca, RecuperarDatos, LeeRegistro, LeeFin, LanzaCrow, InvPrevio
<1>2. CASE CrowSirve \/ SalvaLinea
  BY <1>2 DEF CrowSirve, SalvaLinea, InvPrevio
<1>3. CASE SalvaFin \/ SaleDelManejador \/ CrowFalla \/ Muere \/ SigintDefecto
  BY <1>3, <1>P DEF SalvaFin, SaleDelManejador, CrowFalla, Muere, SigintDefecto
<1>4. CASE SigintPropio
  BY <1>4 DEF SigintPropio, AbreRespaldo
<1>5. CASE SigintCrow
  BY <1>5, <1>P DEF SigintCrow, InvPrevio
<1>6. ASSUME NEW d \in Datos, HttpGuardar(d) \/ HttpAgregarFichero(d)
      PROVE  Previo
  BY <1>6 DEF HttpGuardar, HttpAgregarFichero, InvPrevio
<1>7. ASSUME NEW m \in Mensajes, Recv(m)
      PROVE  Previo
  <2>1. CASE RecvListado(m) \/ RecvAlta(m) \/ RecvDescarga(m) \/ RecvNombre(m) \/ RecvDatos(m)
    BY <2>1 DEF RecvListado, RecvAlta, RecvDescarga, RecvNombre, RecvDatos, InvPrevio, varsServidor
  <2>2. CASE RecvNoValido(m) \/ RecvDatosMal(m)
    BY <1>P, <2>2 DEF RecvNoValido, RecvDatosMal
  <2> QED BY <1>7, <2>1, <2>2 DEF Recv
<1>8. CASE UNCHANGED varsServidor
  BY <1>8 DEF InvPrevio, varsServidor
<1> QED
  BY <1>1, <1>2, <1>3, <1>4, <1>5, <1>6, <1>7, <1>8
     DEF PasoServidor, Interno, Entorno, Sigint

----------------------------------------------------------------------------
(* The refinement.                                                         *)

LEMMA DirectorioPaso ==
  ASSUME InvBackup, InvPrevio, [PasoServidor]_varsServidor
  PROVE  [D!Next]_(D!varsDirectorio)
<1> USE DEF memoria, disco, contadores, historia
<1> DEFINE Igual == UNCHANGED <<tabla, aceptados, spc # "parado">>
           Suma(x) == x \in Ofertas(tabla)' /\ (D!Publica(x) \/ D!Recuerda(x))
           Sigue == D!Empieza \/ D!Olvida \/ (\E x : Suma(x)) \/ Igual
<1>0. SUFFICES Sigue
  BY DEF D!Next, D!varsDirectorio
<1>T. tabla \in [Textos -> Seq(Direccion)]
  BY DEF InvBackup, TypeOKServidor
<1>C. crow # "no" => spc # "parado"
  BY DEF InvPrevio
<1>P. ASSUME Para, spc # "parado" PROVE Sigue
  BY <1>P, OfertasVacia DEF Para, D!Olvida
<1>1. CASE Arranca
  BY <1>1 DEF Arranca, D!Empieza
<1>2. CASE LanzaCrow \/ CrowSirve \/ LeeFin \/ SalvaLinea \/ SigintPropio
  <2>1. UNCHANGED <<tabla, aceptados>>
    BY <1>2 DEF LanzaCrow, CrowSirve, LeeFin, SalvaLinea, SigintPropio
  <2>2. spc' = spc \/ (spc # "parado" /\ spc' # "parado")
    BY <1>2 DEF LanzaCrow, CrowSirve, LeeFin, SalvaLinea, SigintPropio, AbreRespaldo,
                Arranque, Bucle
  <2> QED BY <2>1, <2>2
<1>3. CASE RecuperarDatos
  BY <1>3 DEF RecuperarDatos, InvPrevio
<1>4. CASE LeeRegistro
  <2> DEFINE x == LeidoDe(lector)
  <2>1. lector \in Seq(Textos) /\ Legible(lector)
    BY <1>4 DEF LeeRegistro, InvBackup, TypeOKServidor
  <2>2. Claras => x \in aceptados
    BY <2>1, GramaticaLee DEF InvBackup
  <2>3. x \in Altas
    BY <2>1, LeidoTipo
  <2> HIDE DEF x
  <2>4. Ofertas(tabla)' = Ofertas(tabla) \cup {x}
    <3>1. tabla' = AgregarCliente(tabla, x)
      BY <1>4 DEF LeeRegistro, x
    <3>2. Ofertas(tabla') = Ofertas(tabla) \cup {x}
      BY <1>T, <2>3, <3>1, OfertasAgrega
    <3> QED BY <3>2
  <2>5. UNCHANGED <<spc, aceptados>> /\ spc # "parado"
    BY <1>4 DEF LeeRegistro
  <2>6. D!Recuerda(x)
    BY <2>2, <2>4, <2>5 DEF D!Recuerda, Claras
  <2> QED BY <2>4, <2>6
<1>5. CASE SalvaFin \/ SaleDelManejador \/ CrowFalla \/ Muere \/ SigintDefecto \/ SigintCrow
  <2>1. spc # "parado"
    BY <1>5, <1>C DEF SalvaFin, SaleDelManejador, CrowFalla, Muere, SigintDefecto, SigintCrow
  <2>2. Para \/ Igual
    BY <1>5, <2>1 DEF SalvaFin, SaleDelManejador, CrowFalla, Muere, SigintDefecto, SigintCrow
  <2> QED BY <1>P, <2>1, <2>2
<1>6. ASSUME NEW d \in Datos, Acepta(d), spc # "parado", spc' # "parado"
      PROVE  Sigue
  <2> DEFINE x == SepararString(d)
  <2>1. x \in Altas
    BY <1>6, SepararTipo DEF Acepta
  <2>2. tabla' = AgregarCliente(tabla, x) /\ aceptados' = aceptados \cup {x}
    BY <1>6 DEF Acepta
  <2> HIDE DEF x
  <2>3. Ofertas(tabla)' = Ofertas(tabla) \cup {x}
    <3>1. Ofertas(tabla') = Ofertas(tabla) \cup {x}
      BY <1>T, <2>1, <2>2, OfertasAgrega
    <3> QED BY <3>1
  <2>4. D!Publica(x)
    BY <1>6, <2>2, <2>3 DEF D!Publica
  <2> QED BY <2>3, <2>4
<1>7. ASSUME NEW d \in Datos, HttpGuardar(d) \/ HttpAgregarFichero(d)
      PROVE  Sigue
  <2>1. spc # "parado" /\ spc' = spc
    BY <1>7, <1>C DEF HttpGuardar, HttpAgregarFichero
  <2>2. Acepta(d) \/ UNCHANGED <<tabla, aceptados>>
    BY <1>7 DEF HttpGuardar, HttpAgregarFichero
  <2> QED BY <1>6, <2>1, <2>2
<1>8. ASSUME NEW m \in Mensajes, Recv(m)
      PROVE  Sigue
  <2>1. CASE RecvListado(m) \/ RecvAlta(m) \/ RecvDescarga(m) \/ RecvNombre(m)
    BY <2>1 DEF RecvListado, RecvAlta, RecvDescarga, RecvNombre, varsServidor
  <2>2. CASE RecvNoValido(m) \/ RecvDatosMal(m)
    BY <1>P, <2>2 DEF RecvNoValido, RecvDatosMal
  <2>3. CASE RecvDatos(m)
    <3>1. m.datos \in Datos /\ Acepta(m.datos) /\ spc # "parado" /\ spc' # "parado"
      BY <2>3 DEF RecvDatos, Mensajes, MensajesTexto, MensajesDatos
    <3> QED BY <1>6, <3>1
  <2> QED BY <1>8, <2>1, <2>2, <2>3 DEF Recv
<1>9. CASE UNCHANGED varsServidor
  BY <1>9 DEF varsServidor
<1> QED
  BY <1>1, <1>2, <1>3, <1>4, <1>5, <1>7, <1>8, <1>9
     DEF PasoServidor, Interno, Entorno, Sigint

\* The server process, its backup file and its restarts implement the abstract
\* directory, for any texts and any number of registrations and processes: what
\* has been accepted stays on offer until the process ends, and what comes back
\* was accepted once, as long as nothing has been accepted whose written form
\* recuperar_datos can mistake.
THEOREM DirectorioRefinado == SpecServidor => ImplementaDirectorio
<1>1. InitServidor => D!Init
  BY OfertasVacia DEF InitServidor, D!Init
<1>2. InvBackup /\ [NextServidor]_varsServidor => InvBackup'
  BY BackupPaso, PasoDeNext
<1>3. InvPrevio /\ [NextServidor]_varsServidor => InvPrevio'
  BY PrevioPaso, PasoDeNext
<1>4. InvBackup /\ InvPrevio /\ [NextServidor]_varsServidor => [D!Next]_(D!varsDirectorio)
  BY DirectorioPaso, PasoDeNext
<1> QED
  BY <1>1, <1>2, <1>3, <1>4, InitBackup, InitPrevio, PTL
     DEF SpecServidor, ImplementaDirectorio, D!Spec

----------------------------------------------------------------------------
(* The first address of a file never changes while the process runs.       *)

\* A table whose vectors are those of t, each perhaps with more at its end.
Crece(t, u) == \A f \in Textos : /\ Len(t[f]) <= Len(u[f])
                                 /\ SubSeq(u[f], 1, Len(t[f])) = t[f]

LEMMA PrefijoDe ==
  ASSUME NEW S, NEW s \in Seq(S), NEW u \in Seq(S), Len(s) <= Len(u),
         \A i \in 1 .. Len(s) : u[i] = s[i]
  PROVE  SubSeq(u, 1, Len(s)) = s
<1>1. Len(s) \in Nat /\ Len(u) \in Nat
  BY LenProperties
<1>2. \A i \in 1 .. Len(s) : u[i] \in S
  BY ElementOfSeq
<1>3. /\ SubSeq(u, 1, Len(s)) \in Seq(S)
      /\ Len(SubSeq(u, 1, Len(s))) = IF 1 <= Len(s) THEN Len(s) - 1 + 1 ELSE 0
      /\ \A i \in 1 .. Len(s) - 1 + 1 : SubSeq(u, 1, Len(s))[i] = u[1 + i - 1]
  BY <1>1, <1>2, SubSeqProperties
<1>4. Len(s) - 1 + 1 = Len(s) /\ \A i \in 1 .. Len(s) : 1 + i - 1 = i
  BY <1>1
<1>5. Len(SubSeq(u, 1, Len(s))) = Len(s)
  BY <1>1, <1>3
<1>6. \A i \in 1 .. Len(s) : SubSeq(u, 1, Len(s))[i] = s[i]
  BY <1>3, <1>4
<1> QED BY <1>3, <1>5, <1>6, SeqEqual

LEMMA CreceIgual ==
  ASSUME NEW t \in [Textos -> Seq(Direccion)]
  PROVE  Crece(t, t)
<1> SUFFICES ASSUME NEW f \in Textos
             PROVE  Len(t[f]) <= Len(t[f]) /\ SubSeq(t[f], 1, Len(t[f])) = t[f]
  BY DEF Crece
<1>1. t[f] \in Seq(Direccion) /\ Len(t[f]) \in Nat
  BY LenProperties
<1>2. Len(t[f]) <= Len(t[f])
  BY <1>1
<1> QED BY <1>1, <1>2, PrefijoDe

LEMMA CreceAgrega ==
  ASSUME NEW t \in [Textos -> Seq(Direccion)], NEW a \in Altas
  PROVE  Crece(t, AgregarCliente(t, a))
<1> DEFINE u == AgregarCliente(t, a)
           e == [ip |-> a.ip, puerto |-> a.puerto]
<1>1. /\ u \in [Textos -> Seq(Direccion)]
      /\ \A f \in Textos \ {a.fichero} : u[f] = t[f]
      /\ u[a.fichero] = Append(t[a.fichero], e)
  BY AgregarTipo
<1>2. a.fichero \in Textos /\ e \in Direccion
  BY DEF Altas, Direccion
<1> HIDE DEF u, e
<1> SUFFICES ASSUME NEW f \in Textos
             PROVE  Len(t[f]) <= Len(u[f]) /\ SubSeq(u[f], 1, Len(t[f])) = t[f]
  BY DEF Crece, u
<1>3. t[f] \in Seq(Direccion) /\ u[f] \in Seq(Direccion)
      /\ Len(t[f]) \in Nat /\ Len(u[f]) \in Nat
  BY <1>1, LenProperties
<1>4. Len(t[f]) <= Len(u[f]) /\ \A i \in 1 .. Len(t[f]) : u[f][i] = t[f][i]
  <2>1. CASE f = a.fichero
    BY <1>1, <1>2, <1>3, <2>1, AppendProperties
  <2>2. CASE f # a.fichero
    BY <1>1, <1>3, <2>2
  <2> QED BY <2>1, <2>2
<1> QED BY <1>3, <1>4, PrefijoDe

LEMMA CrecePaso ==
  ASSUME InvPrevio, [PasoServidor]_varsServidor, spc # "parado", spc' # "parado"
  PROVE  Crece(tabla, tabla')
<1> USE DEF memoria, disco, contadores, historia
<1>T. tabla \in [Textos -> Seq(Direccion)]
  BY DEF InvPrevio, TypeOKServidor
<1>I. CASE UNCHANGED tabla
  BY <1>I, <1>T, CreceIgual
<1>1. CASE Arranca \/ LeeFin \/ LanzaCrow \/ CrowSirve \/ SalvaLinea \/ SalvaFin
  BY <1>1, <1>I DEF Arranca, LeeFin, LanzaCrow, CrowSirve, SalvaLinea, SalvaFin, Para
<1>2. CASE RecuperarDatos
  BY <1>2, <1>I DEF RecuperarDatos, InvPrevio
<1>3. CASE LeeRegistro
  <2>1. LeidoDe(lector) \in Altas
    BY <1>3, LeidoTipo DEF LeeRegistro, InvPrevio, TypeOKServidor
  <2> QED BY <1>3, <1>T, <2>1, CreceAgrega DEF LeeRegistro
<1>4. CASE SaleDelManejador \/ CrowFalla \/ Muere \/ SigintDefecto
  BY <1>4 DEF SaleDelManejador, CrowFalla, Muere, SigintDefecto, Para
<1>5. CASE SigintPropio \/ SigintCrow
  BY <1>5, <1>I DEF SigintPropio, SigintCrow, Para
<1>6. ASSUME NEW d \in Datos, Acepta(d) PROVE Crece(tabla, tabla')
  <2>1. SepararString(d) \in Altas
    BY <1>6, SepararTipo DEF Acepta
  <2> QED BY <1>6, <1>T, <2>1, CreceAgrega DEF Acepta
<1>7. ASSUME NEW d \in Datos, HttpGuardar(d) \/ HttpAgregarFichero(d)
      PROVE  Crece(tabla, tabla')
  BY <1>6, <1>7, <1>I DEF HttpGuardar, HttpAgregarFichero
<1>8. ASSUME NEW m \in Mensajes, Recv(m) PROVE Crece(tabla, tabla')
  <2>1. CASE RecvListado(m) \/ RecvAlta(m) \/ RecvDescarga(m) \/ RecvNombre(m)
    BY <2>1, <1>I DEF RecvListado, RecvAlta, RecvDescarga, RecvNombre, varsServidor
  <2>2. CASE RecvNoValido(m) \/ RecvDatosMal(m)
    BY <2>2 DEF RecvNoValido, RecvDatosMal, Para
  <2>3. CASE RecvDatos(m)
    <3>1. m.datos \in Datos /\ Acepta(m.datos)
      BY <2>3 DEF RecvDatos, Mensajes, MensajesTexto, MensajesDatos
    <3> QED BY <1>6, <3>1
  <2> QED BY <1>8, <2>1, <2>2, <2>3 DEF Recv
<1>9. CASE UNCHANGED varsServidor
  BY <1>9, <1>I DEF varsServidor
<1> QED
  BY <1>1, <1>2, <1>3, <1>4, <1>5, <1>7, <1>8, <1>9
     DEF PasoServidor, Interno, Entorno, Sigint

\* For any texts, registrations and restarts, and whatever users type: as long
\* as a process lives, the vector of a file only grows at its end, so the
\* address obtener_cliente hands out for it never changes.
THEOREM TablaSoloCreceSiempre == SpecServidor => TablaSoloCrece
<1>1. InvPrevio /\ [NextServidor]_varsServidor => InvPrevio'
  BY PrevioPaso, PasoDeNext
<1>2. InvPrevio /\ [NextServidor]_varsServidor =>
        [ spc # "parado" /\ spc' # "parado" =>
            \A f \in Textos :
               /\ Len(tabla[f]) <= Len(tabla'[f])
               /\ SubSeq(tabla'[f], 1, Len(tabla[f])) = tabla[f] ]_varsServidor
  BY CrecePaso, PasoDeNext DEF Crece
<1> QED BY <1>1, <1>2, InitPrevio, PTL DEF SpecServidor, TablaSoloCrece
----------------------------------------------------------------------------
(* What survives a restart.  Up to the first line that is not a name with  *)
(* one address, every line of the backup file has three tokens, so line k  *)
(* begins after token 3 * (k - 1), and that is where the reader looks for  *)
(* it.  At the first other line it gets lost: the next three tokens begin  *)
(* with an IP and a port, and the third one decides whether it notices.    *)

\* The tokens of a line, and a line recuperar_datos reads back whole.
Tok(l) == Linea(l.fichero, l.dirs)
Sencilla(l) == l.fichero # Vacio /\ Len(l.dirs) = 1

\* The tokens s come after the first n of the file r.
Trozo(r, n, s) == n + Len(s) <= Len(r) /\ \A j \in 1 .. Len(s) : r[n + j] = s[j]

\* The tokens r hold the lines L, as far as the reader can get through them
\* and two lines further.
Escrito(r, L) ==
    /\ L = << >> => r = << >>
    /\ \A k \in 1 .. Len(L) :
          (\A j \in 1 .. k - 1 : Sencilla(L[j])) =>
             /\ Trozo(r, 3 * (k - 1), Tok(L[k]))
             /\ k < Len(L) => Trozo(r, 3 * (k - 1) + Len(Tok(L[k])), Tok(L[k + 1]))
             /\ k = Len(L) => Len(r) = 3 * (k - 1) + Len(Tok(L[k]))

\* salvar_datos writes each key once, and no key without an address.
Claves(L) ==
    /\ \A i \in 1 .. Len(L) : L[i].dirs # << >>
    /\ \A i, j \in 1 .. Len(L) : L[i].fichero = L[j].fichero => i = j

\* recuperar_datos has read the lines 1 .. k and nothing else.
Leidas(k) ==
    /\ k = 0 \/ k \in Recuperables
    /\ Len(lector) = Len(respaldo) - 3 * k
    /\ \A i \in 1 .. Len(lector) : lector[i] = respaldo[3 * k + i]
    /\ \A i \in 1 .. k : tabla[lineas[i].fichero] = << lineas[i].dirs[1] >>
    /\ \A f \in Textos : (\A i \in 1 .. k : lineas[i].fichero # f) => tabla[f] = << >>

\* It has gone on in the wrong place: the table has more than it should.
Perdido ==
    /\ Desliza
    /\ Crece(Prefijo, tabla)
    /\ \E f \in Textos : Len(Prefijo[f]) < Len(tabla[f])

\* The inductive strengthening of RecuperaPrefijo.
InvLectura ==
    /\ InvPrevio
    /\ Claves(lineas)
    /\ spc = "salvando" =>
          \A i \in 1 .. Len(lineas) : \E c \in 1 .. cursor : lineas[i].fichero = Orden[c]
    /\ Escrito(respaldo, lineas)
    /\ spc = "leyendo" => (\E k \in 0 .. Len(lineas) : Leidas(k)) \/ Perdido

\* The tokens of a line: the record it begins with, unless its name is empty,
\* and then the addresses before which the reader expects a name.
LEMMA TokForma ==
  ASSUME NEW l \in [fichero : Textos, dirs : Seq(Direccion)], l.dirs # << >>,
         NEW b \in Nat, b = IF l.fichero = Vacio THEN 0 ELSE 3
  PROVE  /\ Tok(l) \in Seq(Textos)
         /\ Restan(l) \in Seq(Direccion)
         /\ Len(Tok(l)) = b + 2 * Len(Restan(l))
         /\ Len(Tok(l)) >= 1 /\ Tok(l)[1] = Primero(l)
         /\ l.fichero # Vacio => /\ Len(Tok(l)) >= 3
                                 /\ Tok(l)[1] = l.fichero
                                 /\ Tok(l)[2] = Numeral(l.dirs[1].ip)
                                 /\ Tok(l)[3] = Numeral(l.dirs[1].puerto)
         /\ Len(Restan(l)) >= 1 => /\ Tok(l)[b + 1] = Numeral(Restan(l)[1].ip)
                                   /\ Tok(l)[b + 2] = Numeral(Restan(l)[1].puerto)
         /\ Len(Restan(l)) > 1 => Tok(l)[b + 3] = Numeral(Restan(l)[2].ip)
         /\ Sencilla(l) <=> Restan(l) = << >>
<1> DEFINE f == l.fichero
           ds == l.dirs
           t == Tok(l)
           n == Len(ds)
           R == Restan(l)
<1>1. PICK k \in Nat : k = IF f = Vacio THEN 0 ELSE 1
  OBVIOUS
<1>2. f \in Textos /\ ds \in Seq(Direccion) /\ ds # << >> /\ n \in Nat /\ n >= 1
  BY EmptySeq, LenProperties
<1>3. /\ t \in Seq(Textos) /\ Len(t) = k + 2 * n
      /\ f # Vacio => t[1] = f
      /\ \A i \in 1 .. n : /\ t[k + (2 * i - 1)] = Numeral(ds[i].ip)
                           /\ t[k + 2 * i] = Numeral(ds[i].puerto)
  BY <1>1, <1>2, LineaForma DEF Tok
<1> HIDE DEF t
<1>4. CASE f = Vacio
  <2>1. R = ds /\ Primero(l) = Numeral(ds[1].ip) /\ k = 0 /\ b = 0
    BY <1>1, <1>4 DEF Restan, Primero
  <2>2. /\ 1 \in 1 .. n /\ k + (2 * 1 - 1) = 1 /\ k + 2 * 1 = 2 /\ b + 1 = 1 /\ b + 2 = 2 /\ b + 3 = 3
        /\ k + 2 * n = b + 2 * n /\ k + 2 * n >= 1
        /\ n > 1 => 2 \in 1 .. n /\ k + (2 * 2 - 1) = 3
    BY <1>2, <2>1
  <2>3. t[1] = Numeral(ds[1].ip) /\ t[2] = Numeral(ds[1].puerto)
    BY <1>3, <2>2
  <2>4. n > 1 => t[3] = Numeral(ds[2].ip)
    BY <1>3, <2>2
  <2>5. ~Sencilla(l) /\ R # << >>
    BY <1>2, <1>4, <2>1 DEF Sencilla
  <2> QED BY <1>2, <1>3, <1>4, <2>1, <2>2, <2>3, <2>4, <2>5 DEF t
<1>5. CASE f # Vacio
  <2>1. R = Tail(ds) /\ Primero(l) = f /\ k = 1 /\ b = 3
    BY <1>1, <1>5 DEF Restan, Primero
  <2> HIDE DEF R
  <2>2. /\ R \in Seq(Direccion) /\ Len(R) = n - 1
        /\ \A i \in 1 .. Len(R) : R[i] = ds[i + 1]
    BY <1>2, <2>1, HeadTailProperties
  <2>3. /\ 1 \in 1 .. n /\ k + (2 * 1 - 1) = 2 /\ k + 2 * 1 = 3 /\ b + 1 = 4 /\ b + 2 = 5 /\ b + 3 = 6
        /\ k + 2 * n = b + 2 * (n - 1) /\ k + 2 * n >= 3 /\ k + 2 * n >= 1
        /\ n - 1 >= 1 => /\ 2 \in 1 .. n /\ k + (2 * 2 - 1) = 4 /\ k + 2 * 2 = 5
                         /\ 1 \in 1 .. n - 1 /\ 1 + 1 = 2
        /\ n - 1 > 1 => /\ 3 \in 1 .. n /\ k + (2 * 3 - 1) = 6
                        /\ 2 \in 1 .. n - 1 /\ 2 + 1 = 3
        /\ n = 1 <=> n - 1 = 0
    BY <1>2, <2>1
  <2>4. t[1] = f /\ t[2] = Numeral(ds[1].ip) /\ t[3] = Numeral(ds[1].puerto)
    BY <1>3, <1>5, <2>3
  <2>5. Len(R) >= 1 => t[4] = Numeral(R[1].ip) /\ t[5] = Numeral(R[1].puerto)
    <3>1. Len(R) >= 1 => R[1] = ds[2]
      BY <2>2, <2>3
    <3> QED BY <1>3, <2>2, <2>3, <3>1
  <2>6. Len(R) > 1 => t[6] = Numeral(R[2].ip)
    <3>1. Len(R) > 1 => R[2] = ds[3]
      BY <2>2, <2>3
    <3> QED BY <1>3, <2>2, <2>3, <3>1
  <2>7. Sencilla(l) <=> R = << >>
    <3>1. R = << >> <=> Len(R) = 0
      BY <2>2, EmptySeq
    <3> QED BY <1>5, <2>2, <2>3, <3>1 DEF Sencilla
  <2> QED BY <1>3, <1>5, <2>1, <2>2, <2>3, <2>4, <2>5, <2>6, <2>7 DEF t, R
<1> QED BY <1>4, <1>5

LEMMA TokTipo ==
  ASSUME NEW l \in [fichero : Textos, dirs : Seq(Direccion)], l.dirs # << >>
  PROVE  /\ Tok(l) \in Seq(Textos) /\ Len(Tok(l)) \in Nat
         /\ Sencilla(l) => Len(Tok(l)) = 3
<1>1. PICK b \in Nat : b = IF l.fichero = Vacio THEN 0 ELSE 3
  OBVIOUS
<1>2. /\ Tok(l) \in Seq(Textos) /\ Len(Tok(l)) = b + 2 * Len(Restan(l))
      /\ Sencilla(l) <=> Restan(l) = << >>
  BY <1>1, TokForma
<1>3. Sencilla(l) => b = 3 /\ Len(Restan(l)) = 0
  BY <1>1, <1>2 DEF Sencilla
<1> QED BY <1>2, <1>3, LenProperties

\* Appending to the file leaves the lines in it where they are, and puts the
\* new one at its end.
LEMMA TrozoMas ==
  ASSUME NEW r \in Seq(Textos), NEW s \in Seq(Textos)
  PROVE  /\ \A n \in Nat : \A u \in Seq(Textos) : Trozo(r, n, u) => Trozo(r \o s, n, u)
         /\ Trozo(r \o s, Len(r), s)
         /\ Len(r \o s) = Len(r) + Len(s)
<1> DEFINE q == r \o s
<1>1. /\ Len(r) \in Nat /\ Len(s) \in Nat /\ Len(q) = Len(r) + Len(s)
      /\ \A i \in 1 .. Len(r) + Len(s) : q[i] = IF i <= Len(r) THEN r[i] ELSE s[i - Len(r)]
  BY ConcatProperties, LenProperties
<1> HIDE DEF q
<1>2. ASSUME NEW n \in Nat, NEW u \in Seq(Textos), Trozo(r, n, u)
      PROVE  Trozo(q, n, u)
  <2>1. Len(u) \in Nat /\ n + Len(u) <= Len(r)
    BY <1>2, LenProperties DEF Trozo
  <2>2. n + Len(u) <= Len(q)
    BY <1>1, <2>1
  <2>3. ASSUME NEW j \in 1 .. Len(u) PROVE q[n + j] = u[j]
    <3>1. n + j \in 1 .. Len(r) + Len(s) /\ n + j <= Len(r)
      BY <1>1, <2>1
    <3>2. q[n + j] = r[n + j]
      BY <1>1, <3>1
    <3> QED BY <1>2, <3>2 DEF Trozo
  <2> QED BY <2>2, <2>3 DEF Trozo
<1>3. Trozo(q, Len(r), s)
  <2>1. ASSUME NEW j \in 1 .. Len(s) PROVE q[Len(r) + j] = s[j]
    <3>1. /\ Len(r) + j \in 1 .. Len(r) + Len(s) /\ ~(Len(r) + j <= Len(r))
          /\ (Len(r) + j) - Len(r) = j
      BY <1>1
    <3> QED BY <1>1, <3>1
  <2>2. Len(r) + Len(s) <= Len(q)
    BY <1>1
  <2> QED BY <2>1, <2>2 DEF Trozo
<1> QED BY <1>1, <1>2, <1>3 DEF q

\* Writing one line more.
LEMMA EscritoMas ==
  ASSUME NEW r \in Seq(Textos), NEW L \in Seq([fichero : Textos, dirs : Seq(Direccion)]),
         NEW e \in [fichero : Textos, dirs : Seq(Direccion)], e.dirs # << >>,
         \A i \in 1 .. Len(L) : L[i].dirs # << >>, Escrito(r, L)
  PROVE  Escrito(r \o Tok(e), Append(L, e))
<1> DEFINE q == r \o Tok(e)
           M == Append(L, e)
           n == Len(L)
<1>1. /\ n \in Nat /\ Len(M) = n + 1 /\ M # << >>
      /\ \A i \in 1 .. n : M[i] = L[i]
      /\ M[n + 1] = e
  <2>1. n \in Nat /\ M \in Seq([fichero : Textos, dirs : Seq(Direccion)]) /\ Len(M) = n + 1
        /\ (\A i \in 1 .. n : M[i] = L[i]) /\ M[n + 1] = e
    BY AppendProperties, LenProperties
  <2>2. Len(M) # 0
    BY <2>1
  <2> QED BY <2>1, <2>2, EmptySeq
<1>2. \A i \in 1 .. n : /\ Tok(L[i]) \in Seq(Textos) /\ Len(Tok(L[i])) \in Nat
                        /\ Sencilla(L[i]) => Len(Tok(L[i])) = 3
  <2> TAKE i \in 1 .. n
  <2>1. L[i] \in [fichero : Textos, dirs : Seq(Direccion)]
    BY ElementOfSeq
  <2> QED BY <2>1, TokTipo
<1>3. Tok(e) \in Seq(Textos) /\ Len(Tok(e)) \in Nat
  BY TokTipo
<1>4. /\ \A m \in Nat : \A u \in Seq(Textos) : Trozo(r, m, u) => Trozo(q, m, u)
      /\ Trozo(q, Len(r), Tok(e))
      /\ Len(q) = Len(r) + Len(Tok(e)) /\ Len(r) \in Nat
  BY <1>3, TrozoMas, LenProperties
<1>5. ASSUME NEW k \in 1 .. n, \A j \in 1 .. k - 1 : Sencilla(L[j])
      PROVE  /\ Trozo(r, 3 * (k - 1), Tok(L[k]))
             /\ k < n => Trozo(r, 3 * (k - 1) + Len(Tok(L[k])), Tok(L[k + 1]))
             /\ k = n => Len(r) = 3 * (k - 1) + Len(Tok(L[k]))
  BY <1>5 DEF Escrito
<1>6. n = 0 => Len(r) = 0
  <2>1. n = 0 => L = << >>
    BY EmptySeq
  <2> QED BY <2>1 DEF Escrito
<1> HIDE DEF M, n, q
<1>7. ASSUME NEW k \in 1 .. n + 1, \A j \in 1 .. k - 1 : Sencilla(M[j])
      PROVE  /\ Trozo(q, 3 * (k - 1), Tok(M[k]))
             /\ k < n + 1 => Trozo(q, 3 * (k - 1) + Len(Tok(M[k])), Tok(M[k + 1]))
             /\ k = n + 1 => Len(q) = 3 * (k - 1) + Len(Tok(M[k]))
  <2>1. \A j \in 1 .. k - 1 : j \in 1 .. n
    BY <1>1
  <2>2. \A j \in 1 .. k - 1 : Sencilla(L[j])
    BY <1>1, <1>7, <2>1
  <2>3. CASE k \in 1 .. n
    <3>1. /\ M[k] = L[k] /\ 3 * (k - 1) \in Nat /\ 3 * (k - 1) + Len(Tok(L[k])) \in Nat
          /\ k # n + 1 /\ (k < n => k + 1 \in 1 .. n) /\ (k < n \/ k = n)
      BY <1>1, <1>2, <2>3
    <3>2. /\ Trozo(r, 3 * (k - 1), Tok(L[k]))
          /\ k < n => Trozo(r, 3 * (k - 1) + Len(Tok(L[k])), Tok(L[k + 1]))
          /\ k = n => Len(r) = 3 * (k - 1) + Len(Tok(L[k]))
      BY <1>5, <2>2, <2>3
    <3>3. Trozo(q, 3 * (k - 1), Tok(M[k]))
      BY <1>2, <1>4, <2>3, <3>1, <3>2
    <3>4. CASE k < n
      <4>1. M[k + 1] = L[k + 1] /\ Tok(L[k + 1]) \in Seq(Textos)
        BY <1>1, <1>2, <3>1, <3>4
      <4>2. Trozo(q, 3 * (k - 1) + Len(Tok(L[k])), Tok(L[k + 1]))
        BY <1>4, <3>1, <3>2, <3>4, <4>1
      <4> QED BY <3>1, <3>3, <4>1, <4>2
    <3>5. CASE k = n
      <4>1. M[k + 1] = e
        BY <1>1, <3>5
      <4>2. Trozo(q, 3 * (k - 1) + Len(Tok(L[k])), Tok(e))
        BY <1>4, <3>2, <3>5
      <4> QED BY <3>1, <3>3, <4>1, <4>2
    <3> QED BY <3>1, <3>4, <3>5
  <2>4. CASE k = n + 1
    <3>1. k - 1 = n /\ ~(k < n + 1) /\ M[k] = e
      BY <1>1, <2>4
    <3>2. Len(r) = 3 * (k - 1)
      <4>1. CASE n = 0
        BY <1>6, <3>1, <4>1
      <4>2. CASE n # 0
        <5>1. n \in 1 .. n /\ \A j \in 1 .. n - 1 : j \in 1 .. k - 1
          BY <1>1, <3>1, <4>2
        <5>2. Len(r) = 3 * (n - 1) + Len(Tok(L[n]))
          BY <1>5, <2>2, <5>1
        <5>3. Len(Tok(L[n])) = 3
          BY <1>2, <2>2, <3>1, <5>1
        <5> QED BY <1>1, <3>1, <5>2, <5>3
      <4> QED BY <4>1, <4>2
    <3> QED BY <1>4, <3>1, <3>2
  <2> QED BY <1>1, <2>3, <2>4
<1>8. Escrito(q, M)
  BY <1>1, <1>7 DEF Escrito
<1> QED BY <1>8 DEF M, q

LEMMA RecuperablesDef ==
  ASSUME NEW i
  PROVE  i \in Recuperables <=> /\ i \in 1 .. Len(lineas)
                                /\ lineas[i].fichero # Vacio
                                /\ \A j \in 1 .. i - 1 : Sencilla(lineas[j])
BY DEF Recuperables, Sencilla

LEMMA LecturaTipos ==
  ASSUME InvLectura
  PROVE  /\ lector \in Seq(Textos) /\ respaldo \in Seq(Textos)
         /\ lineas \in Seq([fichero : Textos, dirs : Seq(Direccion)])
         /\ tabla \in [Textos -> Seq(Direccion)]
         /\ Len(lector) \in Nat /\ Len(respaldo) \in Nat /\ Len(lineas) \in Nat
         /\ \A i \in 1 .. Len(lineas) : /\ lineas[i] \in [fichero : Textos, dirs : Seq(Direccion)]
                                        /\ lineas[i].dirs # << >>
<1>1. /\ lector \in Seq(Textos) /\ respaldo \in Seq(Textos)
      /\ lineas \in Seq([fichero : Textos, dirs : Seq(Direccion)])
      /\ tabla \in [Textos -> Seq(Direccion)]
  BY DEF InvLectura, InvPrevio, TypeOKServidor
<1>2. \A i \in 1 .. Len(lineas) : lineas[i] \in [fichero : Textos, dirs : Seq(Direccion)]
  BY <1>1, ElementOfSeq
<1> QED BY <1>1, <1>2, LenProperties DEF InvLectura, Claves

\* What comes after the lines that have been read is what is left to read.
LEMMA TrozoLector ==
  ASSUME InvLectura, NEW k \in 0 .. Len(lineas), Leidas(k), NEW m \in Nat, NEW n, n = 3 * k + m,
         NEW u \in Seq(Textos), Trozo(respaldo, n, u)
  PROVE  Trozo(lector, m, u)
<1>1. Len(lector) \in Nat /\ Len(respaldo) \in Nat /\ Len(lineas) \in Nat /\ k \in Nat /\ Len(u) \in Nat
  BY LecturaTipos, LenProperties
<1>2. Len(lector) = Len(respaldo) - 3 * k /\ \A i \in 1 .. Len(lector) : lector[i] = respaldo[3 * k + i]
  BY DEF Leidas
<1>3. n + Len(u) <= Len(respaldo) /\ \A j \in 1 .. Len(u) : respaldo[n + j] = u[j]
  BY DEF Trozo
<1>4. m + Len(u) <= Len(lector)
  BY <1>1, <1>2, <1>3
<1>5. ASSUME NEW j \in 1 .. Len(u) PROVE lector[m + j] = u[j]
  <2>1. m + j \in 1 .. Len(lector) /\ 3 * k + (m + j) = n + j
    BY <1>1, <1>4
  <2> QED BY <1>2, <1>3, <2>1
<1> QED BY <1>4, <1>5 DEF Trozo

\* The numerals of an address, and what reading them takes.
LEMMA NumeralLee ==
  /\ \A x : Numeral(x).num = x /\ Numeral(x).resto = ""
  /\ \A d \in Direccion : d.ip \in U32 /\ d.puerto \in U16
  /\ \A n \in U16 : n \in U32
<1>1. \A x : Numeral(x).num = x /\ Numeral(x).resto = ""
  BY DEF Numeral
<1>2. \A d \in Direccion : d.ip \in U32 /\ d.puerto \in U16
  BY EscritosDef DEF Direccion
<1>3. \A n \in U16 : n \in U32
  BY MaxU16Tipo, SMT DEF U16, U32
<1> QED BY <1>1, <1>2, <1>3

\* The next line has a name and begins where the reader is: it reads the name
\* and the first address.
LEMMA EnPaso ==
  ASSUME InvLectura, NEW k \in 0 .. Len(lineas), Leidas(k), k + 1 \in Recuperables
  PROVE  /\ Legible(lector)
         /\ LeidoDe(lector) = [fichero |-> lineas[k + 1].fichero,
                               ip      |-> lineas[k + 1].dirs[1].ip,
                               puerto  |-> lineas[k + 1].dirs[1].puerto]
         /\ RestoDe(lector) = SubSeq(lector, 4, Len(lector))
<1> DEFINE l == lineas[k + 1]
           t == Tok(l)
<1>1. /\ lector \in Seq(Textos) /\ Len(lector) \in Nat /\ Len(lineas) \in Nat /\ k \in Nat
  BY LecturaTipos
<1>2. /\ k + 1 \in 1 .. Len(lineas) /\ l.fichero # Vacio
      /\ \A j \in 1 .. (k + 1) - 1 : Sencilla(lineas[j])
  BY RecuperablesDef
<1>3. l \in [fichero : Textos, dirs : Seq(Direccion)] /\ l.dirs # << >>
  BY <1>2, LecturaTipos
<1>4. Trozo(respaldo, 3 * ((k + 1) - 1), t)
  BY <1>2 DEF InvLectura, Escrito
<1> HIDE DEF l
<1>5. PICK b \in Nat : b = IF l.fichero = Vacio THEN 0 ELSE 3
  OBVIOUS
<1>6. /\ t \in Seq(Textos) /\ Len(t) >= 3
      /\ t[1] = l.fichero /\ t[2] = Numeral(l.dirs[1].ip) /\ t[3] = Numeral(l.dirs[1].puerto)
  BY <1>2, <1>3, <1>5, TokForma
<1>7. l.dirs[1] \in Direccion
  <2>1. l.dirs \in Seq(Direccion) /\ 1 \in 1 .. Len(l.dirs)
    BY <1>3, EmptySeq, LenProperties
  <2> QED BY <2>1, ElementOfSeq
<1> HIDE DEF t
<1>8. Trozo(lector, 0, t)
  <2>1. 3 * ((k + 1) - 1) = 3 * k + 0 /\ 0 \in Nat
    BY <1>1
  <2> QED BY <1>4, <1>6, <2>1, TrozoLector
<1>9. /\ 3 <= Len(lector)
      /\ lector[1] = l.fichero
      /\ lector[2] = Numeral(l.dirs[1].ip) /\ lector[3] = Numeral(l.dirs[1].puerto)
  <2>1. Len(t) \in Nat
    BY <1>6, LenProperties
  <2>2. /\ 0 + Len(t) <= Len(lector) /\ 1 \in 1 .. Len(t) /\ 2 \in 1 .. Len(t) /\ 3 \in 1 .. Len(t)
        /\ 0 + 1 = 1 /\ 0 + 2 = 2 /\ 0 + 3 = 3
    BY <1>6, <1>8, <2>1 DEF Trozo
  <2>3. lector[1] = t[1] /\ lector[2] = t[2] /\ lector[3] = t[3]
    BY <1>8, <2>2 DEF Trozo
  <2> QED BY <1>1, <1>6, <2>1, <2>2, <2>3
<1>10. /\ lector[2].num = l.dirs[1].ip /\ lector[2].resto = ""
       /\ lector[3].num = l.dirs[1].puerto /\ lector[3].resto = ""
  BY <1>9, NumeralLee, Zenon
<1>11. lector[2].num \in U32 /\ lector[3].num \in U16
  BY <1>7, <1>10, NumeralLee, Zenon
<1>12. Legible(lector)
  BY <1>1, <1>9, <1>10, <1>11 DEF Legible
<1>13. RestoDe(lector) = SubSeq(lector, 4, Len(lector))
  <2>1. \A i \in 4 .. Len(lector) : lector[i] \in Textos
    BY <1>1, ElementOfSeq
  <2>2. SubSeq(lector, 4, Len(lector)) \in Seq(Textos)
    BY <1>1, <2>1, SubSeqProperties
  <2>3. RestoDe(lector) = << >> \o SubSeq(lector, 4, Len(lector))
    BY <1>10 DEF RestoDe
  <2> QED BY <2>2, <2>3, ConcatEmptySeq
<1>14. LeidoDe(lector) = [fichero |-> l.fichero, ip |-> l.dirs[1].ip, puerto |-> l.dirs[1].puerto]
  BY <1>9, <1>10, Zenon DEF LeidoDe
<1> QED BY <1>12, <1>13, <1>14 DEF l

\* Whether the reader notices, said of the line in which it gets lost.
SigueEn(i) ==
    IF Len(Restan(lineas[i])) > 1
    THEN Restan(lineas[i])[2].ip \in U16
    ELSE i < Len(lineas) /\ Stoi(Primero(lineas[i + 1])) \in U16

LEMMA DeslizaEn ==
  ASSUME InvLectura
  PROVE  /\ \A i \in 1 .. Len(lineas) : Sencilla(lineas[i]) <=> Restan(lineas[i]) = << >>
         /\ \A i \in 1 .. Len(lineas) :
               ~Sencilla(lineas[i]) /\ (\A j \in 1 .. i - 1 : Sencilla(lineas[j])) =>
                  (Desliza <=> SigueEn(i))
         /\ (\A i \in 1 .. Len(lineas) : Sencilla(lineas[i])) => ~Desliza
<1>1. \A i \in 1 .. Len(lineas) : Sencilla(lineas[i]) <=> Restan(lineas[i]) = << >>
  <2> TAKE i \in 1 .. Len(lineas)
  <2>1. PICK b \in Nat : b = IF lineas[i].fichero = Vacio THEN 0 ELSE 3
    OBVIOUS
  <2>2. lineas[i] \in [fichero : Textos, dirs : Seq(Direccion)] /\ lineas[i].dirs # << >>
    BY LecturaTipos
  <2> QED BY <2>1, <2>2, TokForma
<1>2. Len(lineas) \in Nat
  BY LecturaTipos
<1>3. Desliza <=> \E i \in 1 .. Len(lineas) : /\ Restan(lineas[i]) # << >>
                                              /\ \A j \in 1 .. i - 1 : Restan(lineas[j]) = << >>
                                              /\ SigueEn(i)
  BY Zenon DEF Desliza, SigueEn
<1>4. ASSUME NEW i \in 1 .. Len(lineas), ~Sencilla(lineas[i]),
             \A j \in 1 .. i - 1 : Sencilla(lineas[j])
      PROVE  Desliza <=> SigueEn(i)
  <2>1. \A j \in 1 .. i - 1 : j \in 1 .. Len(lineas)
    BY <1>2
  <2>2. Restan(lineas[i]) # << >> /\ \A j \in 1 .. i - 1 : Restan(lineas[j]) = << >>
    BY <1>1, <1>4, <2>1
  <2>3. ASSUME NEW h \in 1 .. Len(lineas), Restan(lineas[h]) # << >>,
               \A j \in 1 .. h - 1 : Restan(lineas[j]) = << >>
        PROVE  h = i
    <3>1. h \in 1 .. i - 1 \/ i \in 1 .. h - 1 \/ h = i
      BY <1>2
    <3> QED BY <2>2, <2>3, <3>1
  <2> QED BY <1>3, <2>2, <2>3
<1> QED BY <1>1, <1>3, <1>4

\* The reader is in a line, behind its name and first address or before all
\* its addresses, and takes an IP for a name: it reads on exactly when the
\* third token is a 16-bit number.
LEMMA PerdidaEn ==
  ASSUME InvLectura, NEW k \in 0 .. Len(lineas), Leidas(k),
         NEW i \in 1 .. Len(lineas), ~Sencilla(lineas[i]), \A j \in 1 .. i - 1 : Sencilla(lineas[j]),
         NEW b \in Nat, b = IF lineas[i].fichero = Vacio THEN 0 ELSE 3,
         3 * k = 3 * (i - 1) + b
  PROVE  Legible(lector) <=> SigueEn(i)
<1> DEFINE l == lineas[i]
           t == Tok(l)
           R == Restan(l)
           c == 3 * (i - 1)
<1>1. /\ lector \in Seq(Textos) /\ Len(lector) \in Nat /\ Len(respaldo) \in Nat
      /\ Len(lineas) \in Nat /\ k \in Nat /\ c \in Nat /\ 3 * k = c + b
  BY LecturaTipos
<1>2. l \in [fichero : Textos, dirs : Seq(Direccion)] /\ l.dirs # << >>
  BY LecturaTipos
<1>3. /\ t \in Seq(Textos) /\ R \in Seq(Direccion) /\ Len(t) = b + 2 * Len(R)
      /\ Len(R) >= 1 => t[b + 1] = Numeral(R[1].ip) /\ t[b + 2] = Numeral(R[1].puerto)
      /\ Len(R) > 1 => t[b + 3] = Numeral(R[2].ip)
      /\ R # << >>
  BY <1>2, TokForma
<1>4. Len(R) \in Nat /\ Len(R) >= 1 /\ Len(t) \in Nat
  BY <1>3, EmptySeq, LenProperties
<1>5. /\ Trozo(respaldo, c, t)
      /\ i < Len(lineas) => Trozo(respaldo, c + Len(t), Tok(lineas[i + 1]))
      /\ i = Len(lineas) => Len(respaldo) = c + Len(t)
  BY DEF InvLectura, Escrito
<1>6. Len(lector) = Len(respaldo) - (c + b) /\ \A j \in 1 .. Len(lector) : lector[j] = respaldo[(c + b) + j]
  BY <1>1 DEF Leidas
<1> HIDE DEF t, R, c
<1>7. c + Len(t) <= Len(respaldo) /\ \A j \in 1 .. Len(t) : respaldo[c + j] = t[j]
  BY <1>5 DEF Trozo
<1>8. ASSUME NEW j \in Nat, j >= 1, b + j <= Len(t)
      PROVE  j <= Len(lector) /\ lector[j] = t[b + j]
  <2>1. j \in 1 .. Len(lector) /\ b + j \in 1 .. Len(t) /\ (c + b) + j = c + (b + j)
    BY <1>1, <1>4, <1>6, <1>7, <1>8
  <2> QED BY <1>6, <1>7, <2>1
<1>9. lector[1] = Numeral(R[1].ip) /\ lector[2] = Numeral(R[1].puerto) /\ 2 <= Len(lector)
  <2>1. 1 \in Nat /\ 2 \in Nat /\ b + 1 <= Len(t) /\ b + 2 <= Len(t)
    BY <1>3, <1>4
  <2> QED BY <1>3, <1>4, <1>8, <2>1
<1>10. lector[2].num \in U32 /\ lector[2].resto = ""
  <2>1. R[1] \in Direccion
    <3>1. 1 \in 1 .. Len(R)
      BY <1>4
    <3> QED BY <1>3, <3>1, ElementOfSeq
  <2> QED BY <1>9, <2>1, NumeralLee, Zenon
<1>11. CASE Len(R) > 1
  <2>1. b + 3 <= Len(t)
    BY <1>3, <1>4, <1>11
  <2>2. 3 <= Len(lector) /\ lector[3] = Numeral(R[2].ip)
    BY <1>3, <1>8, <1>11, <2>1
  <2>3. lector[3].num = R[2].ip
    BY <2>2, NumeralLee, Zenon
  <2>4. Legible(lector) <=> R[2].ip \in U16
    BY <1>1, <1>10, <2>2, <2>3 DEF Legible
  <2> QED BY <1>11, <2>4 DEF SigueEn, R
<1>12. CASE ~(Len(R) > 1)
  <2>1. Len(t) = b + 2
    BY <1>3, <1>4, <1>12
  <2>2. CASE i < Len(lineas)
    <3> DEFINE s == lineas[i + 1]
    <3>1. s \in [fichero : Textos, dirs : Seq(Direccion)] /\ s.dirs # << >>
      <4>1. i + 1 \in 1 .. Len(lineas)
        BY <1>1, <2>2
      <4> QED BY <4>1, LecturaTipos
    <3>2. Trozo(respaldo, c + Len(t), Tok(s))
      BY <1>5, <2>2
    <3> HIDE DEF s
    <3>3. Tok(s) \in Seq(Textos) /\ Len(Tok(s)) >= 1 /\ Tok(s)[1] = Primero(s)
      <4>1. PICK d \in Nat : d = IF s.fichero = Vacio THEN 0 ELSE 3
        OBVIOUS
      <4> QED BY <3>1, <4>1, TokForma
    <3>4. Trozo(lector, 2, Tok(s))
      <4>1. c + Len(t) = 3 * k + 2 /\ 2 \in Nat
        BY <1>1, <2>1
      <4> QED BY <3>2, <3>3, <4>1, TrozoLector
    <3>5. 3 <= Len(lector) /\ lector[3] = Primero(s)
      <4>1. Len(Tok(s)) \in Nat
        BY <3>3, LenProperties
      <4>2. 2 + Len(Tok(s)) <= Len(lector) /\ 1 \in 1 .. Len(Tok(s)) /\ 2 + 1 = 3
        BY <3>3, <3>4, <4>1 DEF Trozo
      <4>3. lector[3] = Tok(s)[1]
        BY <3>4, <4>2 DEF Trozo
      <4> QED BY <1>1, <3>3, <4>1, <4>2, <4>3
    <3>6. Legible(lector) <=> Stoi(Primero(s)) \in U16
      BY <1>1, <1>10, <3>5 DEF Legible, Stoi
    <3> QED BY <1>12, <2>2, <3>6 DEF SigueEn, R, s
  <2>3. CASE ~(i < Len(lineas))
    <3>1. Len(respaldo) = c + Len(t)
      BY <1>1, <1>5, <2>3
    <3>2. Len(lector) = 2
      BY <1>1, <1>6, <2>1, <3>1
    <3>3. ~Legible(lector)
      BY <3>2 DEF Legible
    <3> QED BY <1>12, <2>3, <3>3 DEF SigueEn, R
  <2> QED BY <2>2, <2>3
<1> QED BY <1>11, <1>12

\* There is no next line, or it has no name, or the last line that was read
\* has more addresses: the reader is through, or it is lost.
LEMMA Perdida ==
  ASSUME InvLectura, NEW k \in 0 .. Len(lineas), Leidas(k), k + 1 \notin Recuperables
  PROVE  /\ Recuperables = 1 .. k
         /\ Legible(lector) <=> Desliza
<1>1. Len(lector) \in Nat /\ Len(respaldo) \in Nat /\ Len(lineas) \in Nat /\ k \in Nat
  BY LecturaTipos
<1>2. k # 0 => /\ k \in 1 .. Len(lineas) /\ lineas[k].fichero # Vacio
               /\ \A j \in 1 .. k - 1 : Sencilla(lineas[j])
  BY RecuperablesDef DEF Leidas
<1>3. ASSUME NEW i \in Recuperables PROVE i \in 1 .. k
  <2>1. i \in 1 .. Len(lineas) /\ lineas[i].fichero # Vacio /\ \A j \in 1 .. i - 1 : Sencilla(lineas[j])
    BY RecuperablesDef
  <2> SUFFICES ASSUME i > k PROVE FALSE
    BY <1>1, <2>1
  <2>2. k + 1 \in 1 .. Len(lineas) /\ \A j \in 1 .. (k + 1) - 1 : j \in 1 .. i - 1
    BY <1>1, <2>1
  <2>3. lineas[k + 1].fichero # Vacio
    <3>1. k + 1 = i \/ k + 1 \in 1 .. i - 1
      BY <1>1, <2>1
    <3> QED BY <2>1, <3>1 DEF Sencilla
  <2> QED BY <2>1, <2>2, <2>3, RecuperablesDef
<1>4. ASSUME NEW i \in 1 .. k PROVE i \in Recuperables
  <2>1. k # 0
    BY <1>1
  <2>2. i \in 1 .. Len(lineas) /\ (i = k \/ i \in 1 .. k - 1) /\ \A j \in 1 .. i - 1 : j \in 1 .. k - 1
    BY <1>1, <1>2, <2>1
  <2>3. lineas[i].fichero # Vacio /\ \A j \in 1 .. i - 1 : Sencilla(lineas[j])
    BY <1>2, <2>1, <2>2 DEF Sencilla
  <2> QED BY <2>2, <2>3, RecuperablesDef
<1>5. CASE k # 0 /\ ~Sencilla(lineas[k])
  <2>1. 3 \in Nat /\ 3 = (IF lineas[k].fichero = Vacio THEN 0 ELSE 3) /\ 3 * k = 3 * (k - 1) + 3
    BY <1>1, <1>2, <1>5
  <2>2. Legible(lector) <=> SigueEn(k)
    BY <1>2, <1>5, <2>1, PerdidaEn
  <2>3. Desliza <=> SigueEn(k)
    BY <1>2, <1>5, DeslizaEn
  <2> QED BY <1>3, <1>4, <2>2, <2>3
<1>6. ASSUME k = 0 \/ Sencilla(lineas[k])
      PROVE  \A j \in 1 .. (k + 1) - 1 : Sencilla(lineas[j])
  <2> TAKE j \in 1 .. (k + 1) - 1
  <2>1. k # 0 /\ (j = k \/ j \in 1 .. k - 1)
    BY <1>1
  <2> QED BY <1>2, <1>6, <2>1
<1>7. CASE (k = 0 \/ Sencilla(lineas[k])) /\ k # Len(lineas)
  <2>1. k + 1 \in 1 .. Len(lineas) /\ 3 * k = 3 * ((k + 1) - 1) + 0 /\ 0 \in Nat
    BY <1>1, <1>7
  <2>2. lineas[k + 1].fichero = Vacio /\ ~Sencilla(lineas[k + 1])
    BY <1>6, <1>7, <2>1, RecuperablesDef DEF Sencilla
  <2>3. 0 = IF lineas[k + 1].fichero = Vacio THEN 0 ELSE 3
    BY <2>2
  <2>4. Legible(lector) <=> SigueEn(k + 1)
    BY <1>6, <1>7, <2>1, <2>2, <2>3, PerdidaEn
  <2>5. Desliza <=> SigueEn(k + 1)
    BY <1>6, <1>7, <2>1, <2>2, DeslizaEn
  <2> QED BY <1>3, <1>4, <2>4, <2>5
<1>8. CASE (k = 0 \/ Sencilla(lineas[k])) /\ k = Len(lineas)
  <2>1. \A j \in 1 .. Len(lineas) : Sencilla(lineas[j])
    BY <1>1, <1>6, <1>8
  <2>2. Len(respaldo) = 3 * k
    <3>1. CASE k = 0
      <4>1. lineas = << >>
        BY <1>8, <3>1, LecturaTipos, EmptySeq
      <4> QED BY <3>1, <4>1 DEF InvLectura, Escrito
    <3>2. CASE k # 0
      <4>1. k \in 1 .. Len(lineas) /\ \A j \in 1 .. k - 1 : Sencilla(lineas[j])
        BY <1>2, <3>2
      <4>2. Len(respaldo) = 3 * (k - 1) + Len(Tok(lineas[k]))
        BY <1>8, <4>1 DEF InvLectura, Escrito
      <4>3. Len(Tok(lineas[k])) = 3
        BY <2>1, <4>1, LecturaTipos, TokTipo
      <4> QED BY <1>1, <4>2, <4>3
    <3> QED BY <3>1, <3>2
  <2>3. Len(lector) = 0
    BY <1>1, <2>2 DEF Leidas
  <2>4. ~Legible(lector)
    BY <2>3 DEF Legible
  <2>5. ~Desliza
    BY <2>1, DeslizaEn
  <2> QED BY <1>3, <1>4, <2>4, <2>5
<1> QED BY <1>5, <1>7, <1>8

\* Dropping the three tokens of a record.
LEMMA Salta3 ==
  ASSUME NEW s \in Seq(Textos), 3 <= Len(s)
  PROVE  /\ Len(SubSeq(s, 4, Len(s))) = Len(s) - 3
         /\ \A i \in 1 .. Len(s) - 3 : SubSeq(s, 4, Len(s))[i] = s[i + 3]
<1> DEFINE n == Len(s)
           r == SubSeq(s, 4, n)
<1>1. n \in Nat /\ 3 <= n
  BY LenProperties
<1>2. \A i \in 4 .. n : s[i] \in Textos
  BY <1>1, ElementOfSeq
<1>3. /\ Len(r) = IF 4 <= n THEN n - 4 + 1 ELSE 0
      /\ \A i \in 1 .. n - 4 + 1 : r[i] = s[4 + i - 1]
  BY <1>1, <1>2, SubSeqProperties
<1> HIDE DEF n, r
<1>4. n - 4 + 1 = n - 3 /\ (~(4 <= n) => n - 3 = 0)
  BY <1>1
<1>5. \A i \in 1 .. n - 3 : 4 + i - 1 = i + 3
  BY <1>1
<1>6. Len(r) = n - 3
  BY <1>3, <1>4, Zenon
<1>7. \A i \in 1 .. n - 3 : r[i] = s[i + 3]
  BY <1>3, <1>4, <1>5, Zenon
<1> QED BY <1>6, <1>7 DEF n, r

LEMMA LecturaAvanza ==
  ASSUME InvLectura, NEW k \in 0 .. Len(lineas), Leidas(k), k + 1 \in Recuperables, LeeRegistro
  PROVE  k + 1 \in 0 .. Len(lineas') /\ Leidas(k + 1)'
<1> DEFINE l == lineas[k + 1]
<1>1. /\ Legible(lector) /\ tabla' = AgregarCliente(tabla, LeidoDe(lector))
      /\ lector' = RestoDe(lector) /\ respaldo' = respaldo /\ lineas' = lineas
  BY DEF LeeRegistro, disco
<1>2. /\ lector \in Seq(Textos) /\ respaldo \in Seq(Textos)
      /\ lineas \in Seq([fichero : Textos, dirs : Seq(Direccion)])
      /\ tabla \in [Textos -> Seq(Direccion)]
  BY LecturaTipos
<1>3. /\ Len(lector) \in Nat /\ 3 <= Len(lector) /\ Len(respaldo) \in Nat
      /\ Len(lineas) \in Nat /\ k \in Nat
  <2>1. Len(lector) \in Nat /\ Len(respaldo) \in Nat /\ Len(lineas) \in Nat
    BY <1>2, LenProperties
  <2>2. Len(lector) >= 3
    BY <1>1, Zenon DEF Legible
  <2> QED BY <2>1, <2>2
<1>4. /\ k + 1 \in Recuperables
      /\ LeidoDe(lector) = [fichero |-> l.fichero, ip |-> l.dirs[1].ip, puerto |-> l.dirs[1].puerto]
      /\ RestoDe(lector) = SubSeq(lector, 4, Len(lector))
  BY EnPaso
<1>5. k + 1 \in 1 .. Len(lineas) /\ l.fichero # Vacio
  BY <1>4, RecuperablesDef
<1>6. l.fichero \in Textos /\ l.dirs \in Seq(Direccion) /\ l.dirs # << >>
  <2>1. l \in [fichero : Textos, dirs : Seq(Direccion)]
    BY <1>2, <1>5, ElementOfSeq
  <2> QED BY <1>5, <2>1 DEF InvLectura, Claves
<1>7. l.dirs[1] \in Direccion
  <2>1. 1 \in 1 .. Len(l.dirs)
    BY <1>6, EmptySeq, LenProperties
  <2> QED BY <1>6, <2>1, ElementOfSeq
<1>8. \A i \in 1 .. k : i \in 1 .. Len(lineas) /\ lineas[i].fichero # l.fichero
  <2> TAKE i \in 1 .. k
  <2>1. i \in 1 .. Len(lineas) /\ i # k + 1
    BY <1>3
  <2> QED BY <1>5, <2>1 DEF InvLectura, Claves
<1>9. /\ \A f \in Textos \ {l.fichero} : tabla'[f] = tabla[f]
      /\ tabla'[l.fichero] = << l.dirs[1] >>
  <2> DEFINE a == LeidoDe(lector)
  <2>1. a \in Altas
    BY <1>1, <1>2, LeidoTipo
  <2>2. a.fichero = l.fichero /\ [ip |-> a.ip, puerto |-> a.puerto] = l.dirs[1]
    BY <1>4, <1>7 DEF Direccion
  <2> HIDE DEF a, l
  <2>3. /\ \A f \in Textos \ {a.fichero} : tabla'[f] = tabla[f]
        /\ tabla'[a.fichero] = Append(tabla[a.fichero], [ip |-> a.ip, puerto |-> a.puerto])
    BY <1>1, <1>2, <2>1, AgregarTipo DEF a
  <2>4. tabla[l.fichero] = << >>
    BY <1>6, <1>8 DEF Leidas
  <2>5. tabla'[l.fichero] = Append(<< >>, l.dirs[1])
    BY <2>2, <2>3, <2>4
  <2>6. Append(<< >>, l.dirs[1]) = << l.dirs[1] >>
    OBVIOUS
  <2> QED BY <2>2, <2>3, <2>5, <2>6
<1> HIDE DEF l
<1>10. /\ Len(lector') = Len(lector) - 3
       /\ \A i \in 1 .. Len(lector) - 3 : lector'[i] = lector[i + 3]
  BY <1>1, <1>2, <1>3, <1>4, Salta3
<1>11. Len(lector) = Len(respaldo) - 3 * k /\ \A i \in 1 .. Len(lector) : lector[i] = respaldo[3 * k + i]
  BY DEF Leidas
<1>12. Len(lector') = Len(respaldo) - 3 * (k + 1)
  BY <1>3, <1>10, <1>11
<1>13. \A i \in 1 .. Len(lector') : lector'[i] = respaldo[3 * (k + 1) + i]
  <2> TAKE i \in 1 .. Len(lector')
  <2>1. i \in 1 .. Len(lector) - 3 /\ i + 3 \in 1 .. Len(lector) /\ 3 * k + (i + 3) = 3 * (k + 1) + i
    BY <1>3, <1>10
  <2> QED BY <1>10, <1>11, <2>1
<1>14. \A i \in 1 .. k + 1 : tabla'[lineas[i].fichero] = << lineas[i].dirs[1] >>
  <2> TAKE i \in 1 .. k + 1
  <2>1. CASE i = k + 1
    BY <1>9, <2>1 DEF l
  <2>2. CASE i # k + 1
    <3>1. i \in 1 .. k
      BY <1>3, <2>2
    <3>2. lineas[i] \in [fichero : Textos, dirs : Seq(Direccion)]
      BY <1>2, <1>8, <3>1, ElementOfSeq
    <3> QED BY <1>8, <1>9, <3>1, <3>2 DEF Leidas
  <2> QED BY <2>1, <2>2
<1>15. ASSUME NEW f \in Textos, \A i \in 1 .. k + 1 : lineas[i].fichero # f
       PROVE  tabla'[f] = << >>
  <2>1. k + 1 \in 1 .. k + 1 /\ \A i \in 1 .. k : i \in 1 .. k + 1
    BY <1>3
  <2>2. f # l.fichero /\ \A i \in 1 .. k : lineas[i].fichero # f
    BY <1>15, <2>1 DEF l
  <2> QED BY <1>9, <2>2 DEF Leidas
<1>16. Recuperables' = Recuperables
  BY <1>1 DEF Recuperables
<1>17. k + 1 \in 0 .. Len(lineas)
  BY <1>5
<1> QED BY <1>1, <1>4, <1>12, <1>13, <1>14, <1>15, <1>16, <1>17 DEF Leidas

\* The reader is through with the lines it can get through.
LEMMA TablaPrefijo ==
  ASSUME InvLectura, NEW k \in 0 .. Len(lineas), Leidas(k), Recuperables = 1 .. k
  PROVE  tabla = Prefijo
<1> DEFINE g(f) == IF \E i \in Recuperables : lineas[i].fichero = f
                   THEN LET i == CHOOSE i \in Recuperables : lineas[i].fichero = f
                        IN <<lineas[i].dirs[1]>>
                   ELSE <<>>
<1>1. ASSUME NEW f \in Textos PROVE tabla[f] = g(f)
  <2>1. CASE \E i \in Recuperables : lineas[i].fichero = f
    <3> DEFINE i == CHOOSE i \in Recuperables : lineas[i].fichero = f
    <3>1. i \in Recuperables /\ lineas[i].fichero = f
      BY <2>1
    <3>2. g(f) = <<lineas[i].dirs[1]>>
      BY <2>1
    <3> HIDE DEF i
    <3>3. tabla[lineas[i].fichero] = <<lineas[i].dirs[1]>>
      BY <3>1 DEF Leidas
    <3> QED BY <3>1, <3>2, <3>3
  <2>2. CASE ~\E i \in Recuperables : lineas[i].fichero = f
    <3>1. tabla[f] = << >>
      BY <2>2 DEF Leidas
    <3> QED BY <2>2, <3>1
  <2> QED BY <2>1, <2>2
<1>2. tabla \in [Textos -> Seq(Direccion)]
  BY LecturaTipos
<1> HIDE DEF g
<1>3. tabla = [f \in Textos |-> g(f)]
  BY <1>1, <1>2
<1> QED BY <1>3 DEF g, Prefijo

LEMMA PrefijoTipo ==
  ASSUME InvLectura
  PROVE  /\ Prefijo \in [Textos -> Seq(Direccion)]
         /\ \A i \in Recuperables : /\ lineas[i].fichero \in Textos
                                    /\ Prefijo[lineas[i].fichero] = <<lineas[i].dirs[1]>>
<1>1. \A i \in Recuperables : i \in 1 .. Len(lineas)
  BY RecuperablesDef
<1>2. \A i \in Recuperables : lineas[i].fichero \in Textos /\ lineas[i].dirs[1] \in Direccion
  <2> TAKE i \in Recuperables
  <2>1. lineas[i] \in [fichero : Textos, dirs : Seq(Direccion)] /\ lineas[i].dirs # << >>
    BY <1>1, LecturaTipos
  <2>2. lineas[i].dirs \in Seq(Direccion) /\ 1 \in 1 .. Len(lineas[i].dirs)
    BY <2>1, EmptySeq, LenProperties
  <2> QED BY <2>1, <2>2, ElementOfSeq
<1>3. ASSUME NEW i \in Recuperables
      PROVE  Prefijo[lineas[i].fichero] = <<lineas[i].dirs[1]>>
  <2> DEFINE f == lineas[i].fichero
             h == CHOOSE h \in Recuperables : lineas[h].fichero = f
  <2>1. h \in Recuperables /\ lineas[h].fichero = f
    OBVIOUS
  <2>2. Prefijo[f] = <<lineas[h].dirs[1]>>
    BY <1>2 DEF Prefijo
  <2> HIDE DEF h
  <2>3. h = i
    BY <1>1, <2>1 DEF InvLectura, Claves
  <2> QED BY <2>2, <2>3
<1>4. ASSUME NEW f \in Textos PROVE Prefijo[f] \in Seq(Direccion)
  <2>1. CASE \E i \in Recuperables : lineas[i].fichero = f
    <3>1. PICK i \in Recuperables : lineas[i].fichero = f
      BY <2>1
    <3>2. <<lineas[i].dirs[1]>> \in Seq(Direccion)
      BY <1>2
    <3> QED BY <1>3, <3>1, <3>2
  <2>2. CASE ~\E i \in Recuperables : lineas[i].fichero = f
    <3>1. Prefijo[f] = << >>
      BY <2>2 DEF Prefijo
    <3> QED BY <3>1, EmptySeq
  <2> QED BY <2>1, <2>2
<1>5. Prefijo \in [Textos -> Seq(Direccion)]
  <2>1. Prefijo = [f \in Textos |-> Prefijo[f]]
    BY DEF Prefijo
  <2> QED BY <1>4, <2>1
<1> QED BY <1>2, <1>3, <1>5

LEMMA CreceDef ==
  ASSUME NEW t \in [Textos -> Seq(Direccion)], NEW u \in [Textos -> Seq(Direccion)]
  PROVE  Crece(t, u) <=> \A f \in Textos : /\ Len(t[f]) <= Len(u[f])
                                           /\ \A i \in 1 .. Len(t[f]) : u[f][i] = t[f][i]
<1>1. ASSUME NEW f \in Textos, Len(t[f]) <= Len(u[f])
      PROVE  SubSeq(u[f], 1, Len(t[f])) = t[f] <=> \A i \in 1 .. Len(t[f]) : u[f][i] = t[f][i]
  <2> DEFINE s == t[f]
             w == u[f]
  <2>1. s \in Seq(Direccion) /\ w \in Seq(Direccion) /\ Len(s) \in Nat /\ Len(w) \in Nat
    BY LenProperties
  <2> HIDE DEF s, w
  <2>2. (\A i \in 1 .. Len(s) : w[i] = s[i]) => SubSeq(w, 1, Len(s)) = s
    BY <1>1, <2>1, PrefijoDe DEF s, w
  <2>3. ASSUME SubSeq(w, 1, Len(s)) = s, NEW i \in 1 .. Len(s) PROVE w[i] = s[i]
    <3>1. \A j \in 1 .. Len(s) : j \in 1 .. Len(w)
      BY <1>1, <2>1 DEF s, w
    <3>2. \A j \in 1 .. Len(s) : w[j] \in Direccion
      BY <2>1, <3>1, ElementOfSeq
    <3>3. \A j \in 1 .. Len(s) - 1 + 1 : SubSeq(w, 1, Len(s))[j] = w[1 + j - 1]
      BY <2>1, <3>2, SubSeqProperties
    <3>4. i \in 1 .. Len(s) - 1 + 1 /\ 1 + i - 1 = i
      BY <2>1
    <3> QED BY <2>3, <3>3, <3>4
  <2> QED BY <2>2, <2>3 DEF s, w
<1> QED BY <1>1 DEF Crece

LEMMA CreceTrans ==
  ASSUME NEW t \in [Textos -> Seq(Direccion)], NEW u \in [Textos -> Seq(Direccion)],
         NEW v \in [Textos -> Seq(Direccion)], Crece(t, u), Crece(u, v)
  PROVE  Crece(t, v)
<1> SUFFICES ASSUME NEW f \in Textos
             PROVE  /\ Len(t[f]) <= Len(v[f])
                    /\ \A i \in 1 .. Len(t[f]) : v[f][i] = t[f][i]
  BY CreceDef
<1>1. Len(t[f]) \in Nat /\ Len(u[f]) \in Nat /\ Len(v[f]) \in Nat
  BY LenProperties
<1>2. /\ Len(t[f]) <= Len(u[f]) /\ \A i \in 1 .. Len(t[f]) : u[f][i] = t[f][i]
      /\ Len(u[f]) <= Len(v[f]) /\ \A i \in 1 .. Len(u[f]) : v[f][i] = u[f][i]
  BY CreceDef
<1>3. Len(t[f]) <= Len(v[f]) /\ \A i \in 1 .. Len(t[f]) : i \in 1 .. Len(u[f])
  BY <1>1, <1>2
<1> QED BY <1>2, <1>3

\* A record read in the wrong place is one more than the table should have.
LEMMA PerdidoPaso ==
  ASSUME InvLectura, LeeRegistro, Perdido \/ (Desliza /\ tabla = Prefijo)
  PROVE  Perdido'
<1> DEFINE a == LeidoDe(lector)
<1>1. tabla' = AgregarCliente(tabla, a) /\ Legible(lector) /\ lineas' = lineas
  BY DEF LeeRegistro, disco
<1>2. lector \in Seq(Textos) /\ tabla \in [Textos -> Seq(Direccion)]
      /\ Prefijo \in [Textos -> Seq(Direccion)]
  BY LecturaTipos, PrefijoTipo
<1>3. a \in Altas
  BY <1>1, <1>2, LeidoTipo
<1> HIDE DEF a
<1>4. /\ tabla' \in [Textos -> Seq(Direccion)]
      /\ tabla'[a.fichero] = Append(tabla[a.fichero], [ip |-> a.ip, puerto |-> a.puerto])
      /\ Crece(tabla, tabla')
  BY <1>1, <1>2, <1>3, AgregarTipo, CreceAgrega
<1>5. Prefijo' = Prefijo /\ Desliza' = Desliza
  <2>1. Prefijo' = Prefijo
    BY <1>1 DEF Prefijo, Recuperables
  <2>2. Desliza' = Desliza
    BY <1>1 DEF Desliza, Restan, Primero
  <2> QED BY <2>1, <2>2
<1>6. Crece(Prefijo, tabla)
  BY <1>2, CreceIgual DEF Perdido
<1>7. Crece(Prefijo, tabla')
  BY <1>2, <1>4, <1>6, CreceTrans
<1>8. \E f \in Textos : Len(Prefijo[f]) < Len(tabla'[f])
  <2>1. CASE Perdido
    <3>1. PICK f \in Textos : Len(Prefijo[f]) < Len(tabla[f])
      BY <2>1 DEF Perdido
    <3>2. Len(Prefijo[f]) \in Nat /\ Len(tabla[f]) \in Nat /\ Len(tabla'[f]) \in Nat
      BY <1>2, <1>4, LenProperties
    <3>3. Len(tabla[f]) <= Len(tabla'[f])
      BY <1>4 DEF Crece
    <3> QED BY <3>1, <3>2, <3>3
  <2>2. CASE tabla = Prefijo
    <3> DEFINE f == a.fichero
               e == [ip |-> a.ip, puerto |-> a.puerto]
    <3>1. f \in Textos /\ e \in Direccion /\ tabla[f] \in Seq(Direccion) /\ Len(tabla[f]) \in Nat
      BY <1>2, <1>3, LenProperties DEF Altas, Direccion
    <3>2. tabla'[f] = Append(tabla[f], e)
      BY <1>4
    <3> HIDE DEF f, e
    <3>3. Len(tabla'[f]) = Len(tabla[f]) + 1
      BY <3>1, <3>2, AppendProperties
    <3>4. Len(Prefijo[f]) < Len(tabla'[f])
      BY <2>2, <3>1, <3>3
    <3> QED BY <3>1, <3>4
  <2> QED BY <2>1, <2>2
<1> QED BY <1>5, <1>7, <1>8 DEF Perdido

LEMMA EscritoVacio == Escrito(<< >>, << >>) /\ Claves(<< >>)
BY DEF Escrito, Claves

LEMMA InitLectura == InitServidor => InvLectura
BY InitPrevio, EscritoVacio DEF InitServidor, InvLectura

\* What a step that leaves the backup file alone does to the invariant.
LEMMA LecturaAjena ==
  ASSUME InvLectura, InvPrevio', UNCHANGED disco,
         \/ spc' \notin {"salvando", "leyendo"}
         \/ spc = "salvando" /\ UNCHANGED <<spc, cursor>>
  PROVE  InvLectura'
<1>1. lineas' = lineas /\ respaldo' = respaldo
  BY DEF disco
<1>2. Claves(lineas') /\ Escrito(respaldo', lineas')
  BY <1>1 DEF InvLectura
<1>3. spc' # "leyendo"
  OBVIOUS
<1>4. spc' = "salvando" =>
        \A i \in 1 .. Len(lineas') : \E c \in 1 .. cursor' : lineas'[i].fichero = Orden[c]
  BY <1>1 DEF InvLectura
<1> QED BY <1>2, <1>3, <1>4 DEF InvLectura

LEMMA LecturaSalvaLinea ==
  ASSUME InvLectura, InvPrevio', SalvaLinea
  PROVE  InvLectura'
<1>1. PICK i \in cursor + 1 .. Len(Orden) :
        /\ tabla[Orden[i]] # << >>
        /\ cursor' = i
        /\ respaldo' = respaldo \o Linea(Orden[i], tabla[Orden[i]])
        /\ lineas' = Append(lineas, [fichero |-> Orden[i], dirs |-> tabla[Orden[i]]])
  BY DEF SalvaLinea
<1> DEFINE f == Orden[i]
           e == [fichero |-> f, dirs |-> tabla[f]]
           n == Len(lineas)
<1>2. /\ respaldo \in Seq(Textos) /\ cursor \in 0 .. Len(Orden)
      /\ lineas \in Seq([fichero : Textos, dirs : Seq(Direccion)])
      /\ tabla \in [Textos -> Seq(Direccion)] /\ spc = "salvando" /\ spc' = "salvando"
  BY LecturaTipos DEF InvLectura, InvPrevio, TypeOKServidor, SalvaLinea
<1>3. /\ Len(Orden) \in Nat /\ DOMAIN Orden = 1 .. Len(Orden) /\ cursor \in Nat /\ i \in Nat
      /\ i \in 1 .. Len(Orden) /\ cursor < i
      /\ \A c \in 1 .. cursor : c \in 1 .. Len(Orden) /\ c # i /\ c \in 1 .. i
  <2>1. Len(Orden) \in Nat /\ DOMAIN Orden = 1 .. Len(Orden)
    BY LenProperties, OrdenAssumption
  <2> QED BY <1>1, <1>2, <2>1
<1>4. f \in Textos
  BY <1>3 DEF Textos
<1>5. tabla[f] \in Seq(Direccion) /\ tabla[f] # << >> /\ e \in [fichero : Textos, dirs : Seq(Direccion)]
  BY <1>1, <1>2, <1>4
<1>6. e.fichero = f /\ e.dirs = tabla[f]
  OBVIOUS
<1>7. respaldo' = respaldo \o Tok(e) /\ lineas' = Append(lineas, e)
  BY <1>1 DEF Tok
<1> HIDE DEF f, e
<1>8. Escrito(respaldo', lineas')
  BY <1>2, <1>5, <1>6, <1>7, EscritoMas DEF InvLectura, Claves
<1>9. /\ n \in Nat /\ Len(lineas') = n + 1
      /\ \A j \in 1 .. n : lineas'[j] = lineas[j]
      /\ lineas'[n + 1] = e
      /\ \A j \in 1 .. n + 1 : j \in 1 .. n \/ j = n + 1
  <2>1. lineas' = Append(lineas, e)
    BY <1>7
  <2>2. n \in Nat
    BY <1>2, LenProperties
  <2>3. /\ Len(lineas') = n + 1
        /\ \A j \in 1 .. n : lineas'[j] = lineas[j]
        /\ lineas'[n + 1] = e
    BY <1>2, <1>5, <2>1, AppendProperties
  <2>4. \A j \in 1 .. n + 1 : j \in 1 .. n \/ j = n + 1
    BY <2>2
  <2> QED BY <2>2, <2>3, <2>4
<1> HIDE DEF n
<1>10. \A j \in 1 .. n : \E c \in 1 .. cursor : lineas[j].fichero = Orden[c]
  BY <1>2 DEF InvLectura, n
<1>11. \A j \in 1 .. n : lineas[j].fichero # f
  <2> TAKE j \in 1 .. n
  <2>1. PICK c \in 1 .. cursor : lineas[j].fichero = Orden[c]
    BY <1>10
  <2>2. c \in DOMAIN Orden /\ i \in DOMAIN Orden /\ c # i
    BY <1>3
  <2> QED BY <2>1, <2>2, OrdenAssumption DEF f
<1>12. ASSUME NEW j \in 1 .. n + 1 PROVE \E c \in 1 .. cursor' : lineas'[j].fichero = Orden[c]
  <2>1. CASE j \in 1 .. n
    <3>1. PICK c \in 1 .. cursor : lineas[j].fichero = Orden[c]
      BY <1>10, <2>1
    <3>2. c \in 1 .. cursor' /\ lineas'[j] = lineas[j]
      BY <1>1, <1>3, <1>9, <2>1
    <3> QED BY <3>1, <3>2
  <2>2. CASE j = n + 1
    <3>1. i \in 1 .. cursor'
      BY <1>1, <1>3
    <3> QED BY <1>6, <1>9, <2>2, <3>1 DEF f
  <2> QED BY <1>9, <2>1, <2>2
<1>13. Claves(lineas')
  <2>1. \A j \in 1 .. n : lineas[j].dirs # << >>
    BY DEF InvLectura, Claves, n
  <2>2. \A j, k \in 1 .. n : lineas[j].fichero = lineas[k].fichero => j = k
    BY DEF InvLectura, Claves, n
  <2>3. \A j \in 1 .. n + 1 : lineas'[j].dirs # << >>
    BY <1>5, <1>6, <1>9, <2>1
  <2>4. \A j, k \in 1 .. n + 1 : lineas'[j].fichero = lineas'[k].fichero => j = k
    BY <1>6, <1>9, <1>11, <2>2
  <2> QED BY <1>9, <2>3, <2>4 DEF Claves
<1> QED BY <1>2, <1>8, <1>9, <1>12, <1>13 DEF InvLectura

LEMMA LecturaSigint ==
  ASSUME InvLectura, InvPrevio', SigintPropio
  PROVE  InvLectura'
<1>1. spc' = "salvando"
  BY DEF SigintPropio, AbreRespaldo
<1>2. CASE cursor' = 0 /\ respaldo' = << >> /\ lineas' = << >>
  <2>1. \A i \in 1 .. Len(lineas') : \E c \in 1 .. cursor' : lineas'[i].fichero = Orden[c]
    BY <1>2
  <2> QED BY <1>1, <1>2, <2>1, EscritoVacio DEF InvLectura
<1>3. CASE cursor' = Len(Orden) /\ UNCHANGED disco
  <2>1. lineas' = lineas /\ respaldo' = respaldo /\ cursor' = Len(Orden)
    BY <1>3 DEF disco
  <2>2. lineas \in Seq([fichero : Textos, dirs : Seq(Direccion)])
    BY LecturaTipos
  <2>3. DOMAIN Orden = 1 .. Len(Orden)
    BY LenProperties, OrdenAssumption
  <2>4. \A i \in 1 .. Len(lineas) : \E c \in 1 .. Len(Orden) : lineas[i].fichero = Orden[c]
    <3> TAKE i \in 1 .. Len(lineas)
    <3>1. lineas[i] \in [fichero : Textos, dirs : Seq(Direccion)]
      BY <2>2, ElementOfSeq
    <3> QED BY <2>3, <3>1 DEF Textos
  <2> QED BY <1>1, <2>1, <2>4 DEF InvLectura
<1> QED BY <1>2, <1>3 DEF SigintPropio, AbreRespaldo

LEMMA LecturaEmpieza ==
  ASSUME InvLectura, InvPrevio', RecuperarDatos
  PROVE  InvLectura'
<1>1. UNCHANGED disco
  BY DEF RecuperarDatos, disco
<1>2. CASE spc' # "leyendo"
  BY <1>1, <1>2, LecturaAjena DEF RecuperarDatos
<1>3. CASE spc' = "leyendo"
  <2>1. lector' = respaldo /\ tabla' = TablaVacia /\ lineas' = lineas /\ respaldo' = respaldo
    BY <1>3 DEF RecuperarDatos, disco
  <2>2. respaldo \in Seq(Textos) /\ Len(respaldo) \in Nat /\ Len(lineas) \in Nat
    BY LecturaTipos
  <2>3. Len(respaldo) = Len(respaldo) - 3 * 0 /\ 0 \in 0 .. Len(lineas)
        /\ \A i \in 1 .. Len(respaldo) : 3 * 0 + i = i
    BY <2>2
  <2>4. \A f \in Textos : TablaVacia[f] = << >>
    BY DEF TablaVacia
  <2>5. Leidas(0)'
    BY <2>1, <2>3, <2>4 DEF Leidas
  <2> QED BY <1>3, <2>1, <2>3, <2>5 DEF InvLectura
<1> QED BY <1>2, <1>3

LEMMA LecturaPaso ==
  ASSUME InvLectura, [PasoServidor]_varsServidor
  PROVE  InvLectura'
<1> USE DEF memoria, disco, contadores, historia
<1>V. InvPrevio'
  BY PrevioPaso DEF InvLectura
<1>A. ASSUME UNCHANGED disco, \/ spc' \notin {"salvando", "leyendo"}
                              \/ spc = "salvando" /\ UNCHANGED <<spc, cursor>>
      PROVE  InvLectura'
  BY <1>A, <1>V, LecturaAjena
<1>C. spc \in Arranque => crow = "no"
  BY DEF InvLectura, InvPrevio
<1>P. CASE Para
  BY <1>P, <1>A DEF Para
<1>1. CASE Arranca \/ LeeFin \/ LanzaCrow
  BY <1>1, <1>A DEF Arranca, LeeFin, LanzaCrow
<1>2. CASE RecuperarDatos
  BY <1>2, <1>V, LecturaEmpieza
<1>3. CASE LeeRegistro
  <2>1. (\E k \in 0 .. Len(lineas) : Leidas(k)) \/ Perdido
    BY <1>3 DEF InvLectura, LeeRegistro
  <2>2. Claves(lineas') /\ Escrito(respaldo', lineas') /\ spc' = "leyendo"
    BY <1>3 DEF LeeRegistro, InvLectura
  <2>3. ASSUME NEW k \in 0 .. Len(lineas), Leidas(k), k + 1 \in Recuperables
        PROVE  \E h \in 0 .. Len(lineas') : Leidas(h)'
    BY <1>3, <2>3, LecturaAvanza
  <2>4. ASSUME NEW k \in 0 .. Len(lineas), Leidas(k), k + 1 \notin Recuperables
        PROVE  Perdido'
    <3>1. Recuperables = 1 .. k /\ Desliza
      BY <1>3, <2>4, Perdida DEF LeeRegistro
    <3>2. tabla = Prefijo
      BY <2>4, <3>1, TablaPrefijo
    <3> QED BY <1>3, <3>1, <3>2, PerdidoPaso
  <2>5. Perdido => Perdido'
    BY <1>3, PerdidoPaso
  <2>6. (\E h \in 0 .. Len(lineas') : Leidas(h)') \/ Perdido'
    BY <2>1, <2>3, <2>4, <2>5
  <2> QED BY <1>V, <2>2, <2>6 DEF InvLectura
<1>4. CASE SalvaLinea
  BY <1>4, <1>V, LecturaSalvaLinea
<1>5. CASE SalvaFin \/ SaleDelManejador \/ CrowFalla \/ Muere \/ SigintDefecto
  BY <1>5, <1>P, <1>A DEF SalvaFin, SaleDelManejador, CrowFalla, Muere, SigintDefecto
<1>6. CASE SigintPropio
  BY <1>6, <1>V, LecturaSigint
<1>7. ASSUME crow # "no", UNCHANGED <<spc, cursor, disco>> PROVE InvLectura'
  BY <1>7, <1>A, <1>C DEF Arranque
<1>8. CASE CrowSirve \/ SigintCrow
  BY <1>8, <1>7, <1>P DEF CrowSirve, SigintCrow
<1>9. ASSUME NEW d \in Datos, HttpGuardar(d) \/ HttpAgregarFichero(d)
      PROVE  InvLectura'
  BY <1>9, <1>7 DEF HttpGuardar, HttpAgregarFichero
<1>10. ASSUME NEW m \in Mensajes, Recv(m) PROVE InvLectura'
  <2>1. CASE RecvListado(m) \/ RecvAlta(m) \/ RecvDescarga(m) \/ RecvNombre(m) \/ RecvDatos(m)
    BY <2>1, <1>A DEF RecvListado, RecvAlta, RecvDescarga, RecvNombre, RecvDatos, varsServidor
  <2>2. CASE RecvNoValido(m) \/ RecvDatosMal(m)
    BY <1>P, <2>2 DEF RecvNoValido, RecvDatosMal
  <2> QED BY <1>10, <2>1, <2>2 DEF Recv
<1>11. CASE UNCHANGED varsServidor
  <2>1. UNCHANGED <<spc, tabla, lector, cursor, respaldo, lineas>>
    BY <1>11 DEF varsServidor
  <2>2. \A k : Leidas(k)' <=> Leidas(k)
    BY <2>1 DEF Leidas, Recuperables
  <2>3. Perdido' <=> Perdido
    BY <2>1 DEF Perdido, Crece, Prefijo, Recuperables, Desliza, Restan, Primero
  <2> QED BY <1>V, <2>1, <2>2, <2>3 DEF InvLectura
<1> QED
  BY <1>1, <1>2, <1>3, <1>4, <1>5, <1>6, <1>8, <1>9, <1>10, <1>11
     DEF PasoServidor, Interno, Entorno, Sigint
\* What the table holds when the reading loop ends.
LEMMA LecturaImplica ==
  ASSUME InvLectura, LeeFin
  PROVE  /\ \A i \in Recuperables :
               LET v == tabla[lineas[i].fichero]
               IN v # << >> /\ v[1] = lineas[i].dirs[1]
         /\ tabla = Prefijo <=> ~Desliza
<1>1. (\E k \in 0 .. Len(lineas) : Leidas(k)) \/ Perdido
  BY DEF InvLectura, LeeFin
<1>2. /\ tabla \in [Textos -> Seq(Direccion)] /\ Prefijo \in [Textos -> Seq(Direccion)]
      /\ \A i \in Recuperables : /\ lineas[i].fichero \in Textos
                                 /\ Prefijo[lineas[i].fichero] = <<lineas[i].dirs[1]>>
  BY LecturaTipos, PrefijoTipo
<1>3. ASSUME NEW k \in 0 .. Len(lineas), Leidas(k)
      PROVE  tabla = Prefijo /\ ~Desliza
  <2>1. k + 1 \notin Recuperables
    BY <1>3, EnPaso DEF LeeFin
  <2>2. Recuperables = 1 .. k /\ ~Desliza
    BY <1>3, <2>1, Perdida DEF LeeFin
  <2> QED BY <1>3, <2>2, TablaPrefijo
<1>4. Perdido => Desliza /\ tabla # Prefijo
  <2> SUFFICES ASSUME Perdido PROVE Desliza /\ tabla # Prefijo
    OBVIOUS
  <2>1. PICK f \in Textos : Len(Prefijo[f]) < Len(tabla[f])
    BY DEF Perdido
  <2>2. Len(tabla[f]) \in Nat
    BY <1>2, LenProperties
  <2>3. tabla # Prefijo
    <3> SUFFICES ASSUME tabla = Prefijo PROVE FALSE
      OBVIOUS
    <3>1. Len(tabla[f]) < Len(tabla[f])
      BY <2>1
    <3> QED BY <2>2, <3>1
  <2> QED BY <2>3 DEF Perdido
<1>5. Crece(Prefijo, tabla)
  BY <1>1, <1>2, <1>3, CreceIgual DEF Perdido
<1>6. ASSUME NEW i \in Recuperables
      PROVE  tabla[lineas[i].fichero] # << >> /\ tabla[lineas[i].fichero][1] = lineas[i].dirs[1]
  <2> DEFINE f == lineas[i].fichero
             d == lineas[i].dirs[1]
  <2>1. f \in Textos /\ Prefijo[f] = <<d>>
    BY <1>2
  <2> HIDE DEF f, d
  <2>2. Len(Prefijo[f]) = 1 /\ Prefijo[f][1] = d
    BY <2>1
  <2>3. Len(Prefijo[f]) <= Len(tabla[f]) /\ \A j \in 1 .. Len(Prefijo[f]) : tabla[f][j] = Prefijo[f][j]
    BY <1>2, <1>5, <2>1, CreceDef
  <2>4. tabla[f][1] = d
    BY <2>2, <2>3
  <2>5. tabla[f] # << >>
    <3>1. tabla[f] \in Seq(Direccion) /\ Len(tabla[f]) \in Nat
      BY <1>2, <2>1, LenProperties
    <3>2. Len(tabla[f]) # 0
      BY <2>2, <2>3, <3>1
    <3> QED BY <3>1, <3>2, EmptySeq
  <2> QED BY <2>4, <2>5 DEF f, d
<1> QED BY <1>1, <1>3, <1>4, <1>6

\* For any texts, table, file and history of saves and crashes, and whatever
\* users type: recuperar_datos puts the first address of every line up to the
\* first one with an empty name, or with several addresses, at the head of its
\* vector; and it leaves nothing else in the table exactly when the three
\* tokens at which it is then lost do not happen to read as a record.
THEOREM RecuperaPrefijoSiempre == SpecServidor => RecuperaPrefijo
<1>1. InvLectura /\ [NextServidor]_varsServidor => InvLectura'
  BY LecturaPaso, PasoDeNext
<1>2. InvLectura /\ [NextServidor]_varsServidor =>
        [ LeeFin =>
            /\ \A i \in Recuperables :
                  LET v == tabla[lineas[i].fichero]
                  IN v # << >> /\ v[1] = lineas[i].dirs[1]
            /\ tabla = Prefijo <=> ~Desliza ]_varsServidor
  BY LecturaImplica
<1> QED BY <1>1, <1>2, InitLectura, PTL DEF SpecServidor, RecuperaPrefijo

----------------------------------------------------------------------------
(* When nothing is made up, second half: nobody has registered the empty   *)
(* name, nor a name twice.  Then every vector and every line has one       *)
(* address, so the reader never gets lost, whatever the names and IPs are. *)

FicherosAceptados == { x.fichero : x \in aceptados }

\* That half of NadaInventado, as an inductive invariant.
InvOrden ==
    /\ InvLectura
    /\ IsFiniteSet(FicherosAceptados)
    /\ Cardinality(FicherosAceptados) <= altas
    /\ ~Repetidas =>
          /\ \A f \in Textos : Len(tabla[f]) <= 1
          /\ Ofertas(tabla) \subseteq aceptados
          /\ \A i \in 1 .. Len(lineas) : /\ Sencilla(lineas[i])
                                         /\ Alta(lineas[i].fichero, lineas[i].dirs[1]) \in aceptados
          /\ inventados = {}

LEMMA InitOrden == InitServidor => InvOrden
<1> SUFFICES ASSUME InitServidor PROVE InvOrden
  OBVIOUS
<1>1. tabla = TablaVacia /\ aceptados = {} /\ inventados = {} /\ lineas = << >> /\ altas = 0
  BY DEF InitServidor
<1>2. FicherosAceptados = {}
  BY <1>1 DEF FicherosAceptados
<1>3. IsFiniteSet(FicherosAceptados) /\ Cardinality(FicherosAceptados) <= altas
  BY <1>1, <1>2, FS_EmptySet
<1>4. \A f \in Textos : Len(tabla[f]) <= 1
  BY <1>1 DEF TablaVacia
<1>5. \A i \in 1 .. Len(lineas) : FALSE
  BY <1>1
<1> QED BY <1>1, <1>3, <1>4, <1>5, InitLectura, OfertasVacia DEF InvOrden

\* Accepting a name: either it had been accepted before, and the count shows
\* it from then on, or no vector and no line had it.
LEMMA OrdenAcepta ==
  ASSUME InvOrden, NEW d \in Datos, Acepta(d)
  PROVE  /\ IsFiniteSet(FicherosAceptados') /\ Cardinality(FicherosAceptados') <= altas'
         /\ ~Repetidas' => ~Repetidas /\ SepararString(d).fichero \notin FicherosAceptados
<1> DEFINE F == FicherosAceptados
           g == SepararString(d).fichero
           G == F \cup {g}
<1>1. FicherosAceptados' = G
  BY DEF Acepta, FicherosAceptados
<1>2. altas \in Nat /\ altas' = altas + 1
  BY DEF InvOrden, InvLectura, InvPrevio, TypeOKServidor, Acepta
<1>3. IsFiniteSet(F) /\ Cardinality(F) <= altas
  BY DEF InvOrden
<1>4. Repetidas' <=> (\E x \in aceptados' : x.fichero = Vacio) \/ altas' > Cardinality(FicherosAceptados')
  BY DEF Repetidas, FicherosAceptados
<1>5. Repetidas <=> (\E x \in aceptados : x.fichero = Vacio) \/ altas > Cardinality(F)
  BY DEF Repetidas, FicherosAceptados
<1>6. aceptados \subseteq aceptados'
  BY DEF Acepta
<1> HIDE DEF F, g
<1>7. /\ IsFiniteSet(G)
      /\ Cardinality(G) = IF g \in F THEN Cardinality(F) ELSE Cardinality(F) + 1
      /\ Cardinality(F) \in Nat
  BY <1>3, FS_AddElement, FS_CardinalityType
<1>8. Cardinality(G) <= altas + 1
  BY <1>2, <1>3, <1>7
<1>9. altas + 1 > Cardinality(G) \/ (g \notin F /\ ~(altas > Cardinality(F)))
  BY <1>2, <1>3, <1>7
<1> QED BY <1>1, <1>2, <1>4, <1>5, <1>6, <1>7, <1>8, <1>9 DEF F, g

\* What a step that reads or writes no record does to the invariant.
LEMMA OrdenAjeno ==
  ASSUME InvOrden, InvLectura', UNCHANGED <<historia, altas>>,
         tabla' = tabla \/ tabla' = TablaVacia,
         lineas' = lineas \/ lineas' = << >>
  PROVE  InvOrden'
<1>1. UNCHANGED <<aceptados, inventados, altas>>
  BY DEF historia
<1>2. FicherosAceptados' = FicherosAceptados /\ Repetidas' = Repetidas
  BY <1>1 DEF FicherosAceptados, Repetidas
<1>3. ASSUME ~Repetidas
      PROVE  (\A f \in Textos : Len(tabla'[f]) <= 1) /\ Ofertas(tabla') \subseteq aceptados
  <2>1. CASE tabla' = tabla
    BY <1>3, <2>1 DEF InvOrden
  <2>2. CASE tabla' = TablaVacia
    <3>1. \A f \in Textos : Len(TablaVacia[f]) <= 1
      BY DEF TablaVacia
    <3> QED BY <2>2, <3>1, OfertasVacia
  <2> QED BY <2>1, <2>2
<1>4. Ofertas(tabla)' = Ofertas(tabla')
  OBVIOUS
<1>5. ASSUME ~Repetidas, NEW i \in 1 .. Len(lineas')
      PROVE  Sencilla(lineas'[i]) /\ Alta(lineas'[i].fichero, lineas'[i].dirs[1]) \in aceptados
  <2>1. lineas' # << >>
    BY <1>5
  <2> QED BY <1>5, <2>1 DEF InvOrden
<1> QED BY <1>1, <1>2, <1>3, <1>4, <1>5 DEF InvOrden

LEMMA OrdenAlta ==
  ASSUME InvOrden, InvLectura', NEW d \in Datos, Acepta(d), UNCHANGED lineas
  PROVE  InvOrden'
<1> DEFINE a == SepararString(d)
           e == [ip |-> a.ip, puerto |-> a.puerto]
<1>1. a \in Altas
  BY SepararTipo DEF Acepta
<1>2. /\ IsFiniteSet(FicherosAceptados') /\ Cardinality(FicherosAceptados') <= altas'
      /\ ~Repetidas' => ~Repetidas /\ a.fichero \notin FicherosAceptados
  BY OrdenAcepta
<1>3. /\ tabla' = AgregarCliente(tabla, a) /\ aceptados' = aceptados \cup {a}
      /\ inventados' = inventados /\ lineas' = lineas
  BY DEF Acepta
<1>4. tabla \in [Textos -> Seq(Direccion)]
  BY LecturaTipos DEF InvOrden
<1> HIDE DEF a
<1>5. Ofertas(tabla') = Ofertas(tabla) \cup {a}
  BY <1>1, <1>3, <1>4, OfertasAgrega
<1>6. Ofertas(tabla)' = Ofertas(tabla')
  OBVIOUS
<1>7. SUFFICES ASSUME ~Repetidas, a.fichero \notin FicherosAceptados
               PROVE  /\ \A f \in Textos : Len(tabla'[f]) <= 1
                      /\ Ofertas(tabla)' \subseteq aceptados'
                      /\ \A i \in 1 .. Len(lineas') :
                            /\ Sencilla(lineas'[i])
                            /\ Alta(lineas'[i].fichero, lineas'[i].dirs[1]) \in aceptados'
                      /\ inventados' = {}
  BY <1>2 DEF InvOrden
<1>8. Ofertas(tabla) \subseteq aceptados
  BY <1>7 DEF InvOrden
<1>9. tabla[a.fichero] = << >>
  <2> SUFFICES ASSUME tabla[a.fichero] # << >> PROVE FALSE
    OBVIOUS
  <2>1. a.fichero \in Textos /\ tabla[a.fichero] \in Seq(Direccion)
    BY <1>1, <1>4 DEF Altas
  <2>2. 1 \in 1 .. Len(tabla[a.fichero])
    BY <2>1, EmptySeq, LenProperties
  <2>3. Alta(a.fichero, tabla[a.fichero][1]) \in aceptados
    BY <1>8, <2>1, <2>2, OfertasDef
  <2>4. Alta(a.fichero, tabla[a.fichero][1]).fichero = a.fichero
    BY DEF Alta
  <2> QED BY <1>7, <2>3, <2>4 DEF FicherosAceptados
<1>10. ASSUME NEW f \in Textos PROVE Len(tabla'[f]) <= 1
  <2>1. /\ \A h \in Textos \ {a.fichero} : tabla'[h] = tabla[h]
        /\ tabla'[a.fichero] = Append(tabla[a.fichero], e)
    BY <1>1, <1>3, <1>4, AgregarTipo
  <2> HIDE DEF e
  <2>2. CASE f = a.fichero
    <3>1. tabla'[f] = Append(<< >>, e)
      BY <1>9, <2>1, <2>2
    <3>2. Len(Append(<< >>, e)) = 1
      OBVIOUS
    <3> QED BY <3>1, <3>2
  <2>3. CASE f # a.fichero
    BY <1>7, <2>1, <2>3 DEF InvOrden
  <2> QED BY <2>2, <2>3
<1>11. \A i \in 1 .. Len(lineas) : /\ Sencilla(lineas[i])
                                   /\ Alta(lineas[i].fichero, lineas[i].dirs[1]) \in aceptados
  BY <1>7 DEF InvOrden
<1>12. inventados = {}
  BY <1>7 DEF InvOrden
<1> QED BY <1>3, <1>5, <1>6, <1>8, <1>10, <1>11, <1>12

\* Every line has three tokens, so every record the reader finds is a line.
LEMMA OrdenLee ==
  ASSUME InvOrden, InvLectura', LeeRegistro
  PROVE  InvOrden'
<1> DEFINE a == LeidoDe(lector)
<1>1. /\ UNCHANGED <<aceptados, altas, lineas>> /\ Legible(lector) /\ spc = "leyendo"
      /\ tabla' = AgregarCliente(tabla, a)
      /\ inventados' = inventados \cup ({a} \ aceptados)
  BY DEF LeeRegistro, disco, contadores
<1>2. FicherosAceptados' = FicherosAceptados /\ Repetidas' = Repetidas
  BY <1>1 DEF FicherosAceptados, Repetidas
<1>L. InvLectura
  BY DEF InvOrden
<1>T. lector \in Seq(Textos) /\ tabla \in [Textos -> Seq(Direccion)] /\ Len(lineas) \in Nat
  BY <1>L, LecturaTipos
<1>A. a \in Altas
  BY <1>1, <1>T, LeidoTipo
<1>3. SUFFICES ASSUME ~Repetidas
               PROVE  /\ \A f \in Textos : Len(tabla'[f]) <= 1
                      /\ Ofertas(tabla)' \subseteq aceptados
                      /\ inventados' = {}
  BY <1>1, <1>2 DEF InvOrden
<1>4. /\ Ofertas(tabla) \subseteq aceptados /\ inventados = {}
      /\ \A i \in 1 .. Len(lineas) : /\ Sencilla(lineas[i])
                                     /\ Alta(lineas[i].fichero, lineas[i].dirs[1]) \in aceptados
  BY <1>3 DEF InvOrden
<1>5. ~Desliza
  BY <1>4, <1>L, DeslizaEn
<1>6. PICK k \in 0 .. Len(lineas) : Leidas(k)
  BY <1>1, <1>5 DEF InvOrden, InvLectura, Perdido
<1>7. k + 1 \in Recuperables
  BY <1>1, <1>5, <1>6, <1>L, Perdida
<1>8. k + 1 \in 1 .. Len(lineas)
  BY <1>7, RecuperablesDef
<1>9. a \in aceptados
  <2>1. a = [fichero |-> lineas[k + 1].fichero, ip |-> lineas[k + 1].dirs[1].ip,
             puerto |-> lineas[k + 1].dirs[1].puerto]
    BY <1>6, <1>7, <1>L, EnPaso
  <2>2. a = Alta(lineas[k + 1].fichero, lineas[k + 1].dirs[1])
    BY <2>1 DEF Alta
  <2> QED BY <1>4, <1>8, <2>2
<1> HIDE DEF a
<1>10. k + 1 \in 0 .. Len(lineas') /\ Leidas(k + 1)'
  BY <1>6, <1>7, <1>L, LecturaAvanza
<1>11. ASSUME NEW f \in Textos PROVE Len(tabla'[f]) <= 1
  <2>1. /\ \A i \in 1 .. k + 1 : tabla'[lineas'[i].fichero] = << lineas'[i].dirs[1] >>
        /\ (\A i \in 1 .. k + 1 : lineas'[i].fichero # f) => tabla'[f] = << >>
    BY <1>10 DEF Leidas
  <2>2. CASE \A i \in 1 .. k + 1 : lineas'[i].fichero # f
    <3>1. Len(tabla'[f]) = 0
      BY <2>1, <2>2
    <3> QED BY <3>1
  <2>3. CASE \E i \in 1 .. k + 1 : lineas'[i].fichero = f
    <3>1. PICK i \in 1 .. k + 1 : lineas'[i].fichero = f
      BY <2>3
    <3>2. tabla'[f] = << lineas'[i].dirs[1] >>
      BY <2>1, <3>1
    <3> QED BY <3>2
  <2> QED BY <2>2, <2>3
<1>12. Ofertas(tabla') = Ofertas(tabla) \cup {a}
  BY <1>1, <1>A, <1>T, OfertasAgrega
<1>13. Ofertas(tabla)' = Ofertas(tabla')
  OBVIOUS
<1> QED BY <1>1, <1>4, <1>9, <1>11, <1>12, <1>13

\* A vector of one address makes a line that is read back whole.
LEMMA OrdenSalva ==
  ASSUME InvOrden, InvLectura', SalvaLinea
  PROVE  InvOrden'
<1>1. PICK i \in cursor + 1 .. Len(Orden) :
        /\ tabla[Orden[i]] # << >>
        /\ lineas' = Append(lineas, [fichero |-> Orden[i], dirs |-> tabla[Orden[i]]])
  BY DEF SalvaLinea
<1> DEFINE f == Orden[i]
           e == [fichero |-> f, dirs |-> tabla[f]]
           n == Len(lineas)
<1>2. UNCHANGED <<tabla, aceptados, inventados, altas>>
  BY DEF SalvaLinea, historia, contadores
<1>3. FicherosAceptados' = FicherosAceptados /\ Repetidas' = Repetidas
  BY <1>2 DEF FicherosAceptados, Repetidas
<1>4. /\ lineas \in Seq([fichero : Textos, dirs : Seq(Direccion)]) /\ n \in Nat
      /\ tabla \in [Textos -> Seq(Direccion)] /\ cursor \in 0 .. Len(Orden)
  BY LecturaTipos DEF InvOrden, InvLectura, InvPrevio, TypeOKServidor
<1>5. f \in Textos
  <2>1. Len(Orden) \in Nat /\ DOMAIN Orden = 1 .. Len(Orden)
    BY LenProperties, OrdenAssumption
  <2>2. i \in 1 .. Len(Orden)
    BY <1>1, <1>4, <2>1
  <2> QED BY <2>1, <2>2 DEF Textos
<1>6. e \in [fichero : Textos, dirs : Seq(Direccion)] /\ e.fichero = f /\ e.dirs = tabla[f]
      /\ lineas' = Append(lineas, e) /\ tabla[f] # << >>
  BY <1>1, <1>4, <1>5
<1> HIDE DEF e, f
<1>7. /\ Len(lineas') = n + 1
      /\ \A j \in 1 .. n : lineas'[j] = lineas[j]
      /\ lineas'[n + 1] = e
  BY <1>4, <1>6, AppendProperties
<1>8. \A j \in 1 .. n + 1 : j \in 1 .. n \/ j = n + 1
  BY <1>4
<1>9. SUFFICES ASSUME ~Repetidas
               PROVE  \A j \in 1 .. Len(lineas') :
                         /\ Sencilla(lineas'[j])
                         /\ Alta(lineas'[j].fichero, lineas'[j].dirs[1]) \in aceptados
  <2>1. Ofertas(tabla)' = Ofertas(tabla')
    OBVIOUS
  <2> QED BY <1>2, <1>3, <2>1 DEF InvOrden
<1>10. /\ \A j \in 1 .. n : Sencilla(lineas[j]) /\ Alta(lineas[j].fichero, lineas[j].dirs[1]) \in aceptados
       /\ Len(tabla[f]) <= 1 /\ Ofertas(tabla) \subseteq aceptados
  BY <1>5, <1>9 DEF InvOrden
<1>11. Len(tabla[f]) = 1
  <2>1. tabla[f] \in Seq(Direccion) /\ Len(tabla[f]) \in Nat
    BY <1>4, <1>5, LenProperties
  <2>2. Len(tabla[f]) # 0
    BY <1>6, <2>1, EmptySeq
  <2>3. \A m \in Nat : m <= 1 /\ m # 0 => m = 1
    OBVIOUS
  <2> QED BY <1>10, <2>1, <2>2, <2>3, Zenon
<1>12. Alta(f, tabla[f][1]) \in aceptados
  BY <1>5, <1>10, <1>11, OfertasDef
<1>13. f # Vacio
  <2>1. Alta(f, tabla[f][1]).fichero = f
    BY DEF Alta
  <2> QED BY <1>9, <1>12, <2>1 DEF Repetidas
<1>14. Sencilla(e) /\ Alta(e.fichero, e.dirs[1]) \in aceptados
  BY <1>6, <1>11, <1>12, <1>13 DEF Sencilla
<1> QED BY <1>7, <1>8, <1>10, <1>14

LEMMA OrdenPaso ==
  ASSUME InvOrden, [PasoServidor]_varsServidor
  PROVE  InvOrden'
<1> USE DEF memoria, disco, contadores, historia
<1>L. InvLectura'
  BY LecturaPaso DEF InvOrden
<1>A. ASSUME UNCHANGED <<historia, altas>>, tabla' = tabla \/ tabla' = TablaVacia,
             lineas' = lineas \/ lineas' = << >>
      PROVE  InvOrden'
  BY <1>A, <1>L, OrdenAjeno
<1>P. CASE Para
  BY <1>P, <1>A DEF Para
<1>1. CASE Arranca \/ RecuperarDatos \/ LeeFin \/ LanzaCrow \/ CrowSirve
  BY <1>1, <1>A DEF Arranca, RecuperarDatos, LeeFin, LanzaCrow, CrowSirve
<1>2. CASE LeeRegistro
  BY <1>2, <1>L, OrdenLee
<1>3. CASE SalvaLinea
  BY <1>3, <1>L, OrdenSalva
<1>4. CASE SalvaFin \/ SaleDelManejador \/ CrowFalla \/ Muere \/ SigintDefecto \/ SigintCrow
  BY <1>4, <1>P, <1>A DEF SalvaFin, SaleDelManejador, CrowFalla, Muere, SigintDefecto, SigintCrow
<1>5. CASE SigintPropio
  BY <1>5, <1>A DEF SigintPropio, AbreRespaldo
<1>6. ASSUME NEW d \in Datos, HttpGuardar(d) \/ HttpAgregarFichero(d)
      PROVE  InvOrden'
  <2>1. CASE Acepta(d)
    BY <1>6, <1>L, <2>1, OrdenAlta DEF HttpGuardar, HttpAgregarFichero
  <2>2. CASE ~Acepta(d)
    BY <1>6, <1>A, <2>2 DEF HttpGuardar, HttpAgregarFichero
  <2> QED BY <2>1, <2>2
<1>7. ASSUME NEW m \in Mensajes, Recv(m)
      PROVE  InvOrden'
  <2>1. CASE RecvListado(m) \/ RecvAlta(m) \/ RecvDescarga(m) \/ RecvNombre(m)
    BY <2>1, <1>A DEF RecvListado, RecvAlta, RecvDescarga, RecvNombre, varsServidor
  <2>2. CASE RecvNoValido(m) \/ RecvDatosMal(m)
    BY <1>P, <2>2 DEF RecvNoValido, RecvDatosMal
  <2>3. CASE RecvDatos(m)
    <3>1. m.datos \in Datos /\ Acepta(m.datos) /\ UNCHANGED lineas
      BY <2>3 DEF RecvDatos, Mensajes, MensajesTexto, MensajesDatos
    <3> QED BY <1>L, <3>1, OrdenAlta
  <2> QED BY <1>7, <2>1, <2>2, <2>3 DEF Recv
<1>8. CASE UNCHANGED varsServidor
  BY <1>8, <1>A DEF varsServidor
<1> QED
  BY <1>1, <1>2, <1>3, <1>4, <1>5, <1>6, <1>7, <1>8
     DEF PasoServidor, Interno, Entorno, Sigint

\* For any texts, any number of registrations and restarts, and whatever users
\* type: the table never holds, and recuperar_datos never reads, an address
\* that was not accepted for that very file, unless a name or IP that reads as
\* a 16-bit number has been accepted, and the empty name or a name twice.
THEOREM NadaInventadoSiempre == SpecServidor => []NadaInventado
<1>1. InvBackup /\ [NextServidor]_varsServidor => InvBackup'
  BY BackupPaso, PasoDeNext
<1>2. InvOrden /\ [NextServidor]_varsServidor => InvOrden'
  BY OrdenPaso, PasoDeNext
<1>3. InvBackup /\ InvOrden => NadaInventado
  <2> SUFFICES ASSUME InvBackup, InvOrden, Claras \/ ~Repetidas
               PROVE  Ofertas(tabla) \cup inventados \subseteq aceptados
    BY DEF NadaInventado, Claras
  <2>1. CASE Claras
    <3>1. TablaAceptada(tabla, aceptados) /\ inventados = {}
      BY <2>1 DEF InvBackup
    <3>2. Ofertas(tabla) \subseteq aceptados
      BY <3>1, OfertasDef DEF TablaAceptada
    <3> QED BY <3>1, <3>2
  <2>2. CASE ~Repetidas
    BY <2>2 DEF InvOrden
  <2> QED BY <2>1, <2>2
<1> QED BY <1>1, <1>2, <1>3, InitBackup, InitOrden, PTL DEF SpecServidor
=============================================================================
