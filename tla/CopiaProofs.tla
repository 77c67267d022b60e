---------------------------- MODULE CopiaProofs ----------------------------
(***************************************************************************)
(* What a download leaves in its folder when its source is not touched:    *)
(* a file all of whose downloads ended quietly is complete, and a download *)
(* that is alone in its folder implements Copia.                           *)
(***************************************************************************)
EXTENDS TransferenciaProofs

USE DEF Fin

\* The folder d reads from holds the file, and nobody has begun to write to it.
FuenteBuena(d) == disco[Origen(d)] = Contenido /\ Origen(d) \notin Destinos

\* What is on its way is what the file holds, without holes; nothing is left
\* to read when the server finds no more, and nothing was lost when it has
\* closed the connection without ending.
Exacta(d) ==
    /\ Casa(datos[d], leidos[d] - Len(datos[d]), {})
    /\ Casa(canal[d], escritos[d], {})
    /\ srv[d] = "leida" /\ datos[d] = << >> /\ ocupado[De[d]] # d =>
         leidos[d] = Len(Contenido)
    /\ srv[d] = "cerrada" /\ dpc[d] = "conectada" /\ hilo[De[d]] = "escucha" =>
         escritos[d] + Len(canal[d]) = Len(Contenido)

\* (A file that is empty is the one a serving thread creates; there is then
\* nothing to carry, see ExactaDe.)
Exactas ==
    Contenido # << >> => \A d \in Descargas : srv[d] # "no" /\ FuenteBuena(d) => Exacta(d)

LEMMA ExactaDe ==
  ASSUME Inv, Exactas, NEW d \in Descargas, srv[d] # "no", FuenteBuena(d)
  PROVE  Exacta(d)
<1>1. CASE Contenido # << >>
  BY <1>1 DEF Exactas
<1>2. CASE Contenido = << >>
  <2>0. Len(Contenido) = 0
    BY <1>2, SeqVacia
  <2>1. /\ datos[d] \in Seq(Unidades) /\ canal[d] \in Seq(Unidades)
        /\ leidos[d] \in Nat /\ escritos[d] \in Nat
        /\ Len(datos[d]) \in Nat /\ Len(canal[d]) \in Nat
        /\ Len(datos[d]) <= leidos[d]
    BY LenProperties DEF Inv, TypeOK, Flujo
  <2>2. leidos[d] = 0 /\ Len(datos[d]) = 0
    BY <2>0, <2>1 DEF Inv, Flujo, Casa
  <2>3. escritos[d] = 0 /\ Len(canal[d]) = 0
    BY <2>0, <2>1 DEF Inv, Flujo, Casa
  <2>4. datos[d] = << >> /\ canal[d] = << >>
    BY <2>1, <2>2, <2>3, EmptySeq
  <2>5. Casa(<< >>, 0, {}) /\ leidos[d] - Len(datos[d]) = 0
        /\ escritos[d] + Len(canal[d]) = Len(Contenido)
    BY <2>0, <2>2, <2>3, CasaVacia, ContenidoTipo
  <2> QED BY <2>0, <2>2, <2>3, <2>4, <2>5 DEF Exacta
<1> QED BY <1>1, <1>2

----------------------------------------------------------------------------
(* What a step leaves alone.                                               *)

\* Who has begun a download has begun it; files change by a download into
\* their folder, or are created.
LEMMA PasoDisco ==
  ASSUME Inv, Next
  PROVE  /\ \A d \in Descargas : dpc[d] # "no" => dpc'[d] # "no"
         /\ \A c \in Carpetas :
               \/ disco'[c] = disco[c]
               \/ disco[c] = Ausente /\ disco'[c] = << >>
               \/ \E e \in Descargas : Destino(e) = c /\ dpc'[e] # "no"
<1> USE DEF servidora, conexion, descarga, Inv, TypeOK
<1>1. ASSUME NEW n \in Nodos, Lanza(n) \/ PasoHilo(n) \/ Sale(n) \/ Muere(n)
      PROVE  /\ \A d \in Descargas : dpc[d] # "no" => dpc'[d] # "no"
             /\ \A c \in Carpetas :
                   disco'[c] = disco[c] \/ (disco[c] = Ausente /\ disco'[c] = << >>)
  <2>1. CASE Crea(n)
    BY <2>1, Lugares DEF Crea, Abre
  <2>2. CASE Lanza(n) \/ Escucha(n) \/ NoEscucha(n) \/ CreaFalla(n)
    BY <2>2 DEF Lanza, Escucha, NoEscucha, CreaFalla
  <2>3. ASSUME NEW d \in Descargas,
               \/ DoAccept(d) \/ EmpiezaWrite(d) \/ Write(d) \/ AcabaWrite(d)
               \/ FinFichero(d) \/ WriteFalla(d)
        PROVE  UNCHANGED <<disco, dpc>>
    BY <2>3 DEF DoAccept, EmpiezaWrite, Write, AcabaWrite, FinFichero, WriteFalla
  <2>4. CASE Sale(n) \/ Muere(n)
    BY <2>4 DEF Sale, Muere, AcabaProceso
  <2> QED BY <1>1, <2>1, <2>2, <2>3, <2>4 DEF PasoHilo
<1>2. ASSUME NEW d \in Descargas, NoEmpieza(d) \/ Trunca(d) \/ PasoDescarga(d)
      PROVE  /\ \A e \in Descargas : dpc[e] # "no" => dpc'[e] # "no"
             /\ \A c \in Carpetas \ {Destino(d)} : disco'[c] = disco[c]
             /\ dpc'[d] # "no"
  <2>1. CASE NoEmpieza(d) \/ Trunca(d)
    BY <2>1, Lugares DEF NoEmpieza, Trunca, Va
  <2>2. CASE Connect(d) \/ ConnectFalla(d)
    BY <2>2 DEF Connect, ConnectFalla, Va
  <2>3. CASE DoWrite(d)
    BY <2>3, Lugares DEF DoWrite
  <2>4. CASE DoWriteFalla(d) \/ FinDescarga(d)
    BY <2>4 DEF DoWriteFalla, FinDescarga, AcabaDescarga, Va
  <2> QED BY <1>2, <2>1, <2>2, <2>3, <2>4 DEF PasoDescarga
<1> QED BY <1>1, <1>2 DEF Next

\* A source that is good after a step was good before it.
LEMMA FuenteAntes ==
  ASSUME Inv, Next, Contenido # << >>, NEW d \in Descargas, FuenteBuena(d)'
  PROVE  FuenteBuena(d)
<1>1. /\ \A e \in Descargas : dpc[e] # "no" => dpc'[e] # "no"
      /\ \/ disco'[Origen(d)] = disco[Origen(d)]
         \/ disco'[Origen(d)] = << >>
         \/ \E e \in Descargas : Destino(e) = Origen(d) /\ dpc'[e] # "no"
  BY PasoDisco, Lugares
<1>2. Destinos \subseteq Destinos' /\ disco'[Origen(d)] = disco[Origen(d)]
  BY <1>1 DEF FuenteBuena, Destinos
<1> QED BY <1>2 DEF FuenteBuena

\* Neither a connection nor a serving thread goes back to where it was.
LEMMA PasoNoVuelve ==
  ASSUME Inv, Next, NEW d \in Descargas
  PROVE  /\ srv[d] # "no" => srv'[d] # "no"
         /\ hilo[De[d]] \in Fin => hilo'[De[d]] \in Fin
<1> USE DEF servidora, conexion, descarga, Inv, TypeOK
<1>0. De[d] \in Nodos
  BY Lugares
<1>1. ASSUME NEW n \in Nodos, Lanza(n) \/ Escucha(n) \/ NoEscucha(n) \/ Crea(n)
      PROVE  srv' = srv /\ (hilo[De[d]] \in Fin => hilo'[De[d]] \in Fin)
  BY <1>0, <1>1 DEF Lanza, Escucha, NoEscucha, Crea
<1>2. ASSUME NEW e \in Descargas,
             \/ DoAccept(e) \/ EmpiezaWrite(e) \/ Write(e) \/ AcabaWrite(e) \/ FinFichero(e)
      PROVE  hilo' = hilo /\ (srv[d] # "no" => srv'[d] # "no")
  <2>1. CASE DoAccept(e) \/ FinFichero(e)
    BY <2>1 DEF DoAccept, FinFichero
  <2>2. CASE EmpiezaWrite(e) \/ Write(e) \/ AcabaWrite(e)
    BY <2>2 DEF EmpiezaWrite, Write, AcabaWrite
  <2> QED BY <1>2, <2>1, <2>2
<1>3. ASSUME NEW n \in Nodos, NEW fin \in Fin, AcabaHilo(n, fin)
      PROVE  /\ srv[d] # "no" => srv'[d] # "no"
             /\ hilo[De[d]] \in Fin => hilo'[De[d]] \in Fin
  BY <1>0, <1>3 DEF AcabaHilo
<1>4. ASSUME NEW e \in Descargas, WriteFalla(e)
      PROVE  AcabaHilo(De[e], "acabada") /\ De[e] \in Nodos
  BY <1>4, Lugares DEF WriteFalla
<1>5. ASSUME NEW n \in Nodos, Sale(n) \/ Muere(n) \/ CreaFalla(n)
      PROVE  \E fin \in Fin : AcabaHilo(n, fin)
  BY <1>5 DEF Sale, Muere, AcabaProceso, CreaFalla
<1>6. ASSUME NEW e \in Descargas, NoEmpieza(e) \/ Trunca(e) \/ PasoDescarga(e)
      PROVE  hilo' = hilo /\ (srv[d] # "no" => srv'[d] # "no")
  <2>1. CASE Connect(e)
    BY <2>1 DEF Connect
  <2>2. CASE NoEmpieza(e) \/ Trunca(e) \/ ConnectFalla(e)
    BY <2>2 DEF NoEmpieza, Trunca, ConnectFalla
  <2>3. CASE DoWrite(e) \/ DoWriteFalla(e) \/ FinDescarga(e)
    BY <2>3 DEF DoWrite, DoWriteFalla, FinDescarga
  <2> QED BY <1>6, <2>1, <2>2, <2>3 DEF PasoDescarga
<1> QED BY <1>1, <1>2, <1>3, <1>4, <1>5, <1>6 DEF Next, PasoHilo

\* The steps of other threads leave a connection as it is, except that the
\* serving thread may begin and end a write for somebody else.
Ajena(d) ==
    /\ datos'[d] = datos[d] /\ leidos'[d] = leidos[d] /\ srv'[d] = srv[d]
    /\ canal'[d] = canal[d] /\ escritos'[d] = escritos[d] /\ dpc'[d] = dpc[d]
    /\ ocupado'[De[d]] = d <=> ocupado[De[d]] = d
    /\ hilo'[De[d]] = "escucha" => hilo[De[d]] = "escucha" \/ srv[d] = "no"

LEMMA ExactaAjena ==
  ASSUME NEW d \in Descargas, Exacta(d), srv[d] # "no", Ajena(d)
  PROVE  Exacta(d)'
BY DEF Exacta, Ajena

LEMMA AjenaHilo ==
  ASSUME Inv, NEW n \in Nodos, NEW e \in Descargas,
         Lanza(n) \/ Escucha(n) \/ NoEscucha(n) \/ Crea(n)
  PROVE  Ajena(e)
<1>1. /\ hilo[n] \in {"no", "arranca"} \/ hilo' = hilo
      /\ \A m \in Nodos \ {n} : hilo'[m] = hilo[m]
      /\ UNCHANGED <<ocupado, srv, datos, leidos, canal, dpc, escritos>>
  BY DEF Lanza, Escucha, NoEscucha, Crea, conexion, descarga, Inv, TypeOK
<1> QED BY <1>1, Lugares DEF Ajena, Inv, Conexion

LEMMA AjenaServidora ==
  ASSUME Inv, NEW d \in Descargas, NEW e \in Descargas, e # d,
         DoAccept(d) \/ EmpiezaWrite(d) \/ Write(d) \/ AcabaWrite(d) \/ FinFichero(d)
  PROVE  Ajena(e)
<1> USE DEF servidora, conexion, descarga, Inv, TypeOK, Ajena
<1>0. Nadie \notin Descargas
  BY TransferenciaAssumption
<1>1. CASE DoAccept(d)
  BY <1>1 DEF DoAccept, DoRead
<1>2. CASE EmpiezaWrite(d)
  BY <1>0, <1>2 DEF EmpiezaWrite, Libre
<1>3. CASE Write(d)
  BY <1>3 DEF Write
<1>4. CASE AcabaWrite(d)
  BY <1>0, <1>4 DEF AcabaWrite, DoRead
<1>5. CASE FinFichero(d)
  BY <1>5 DEF FinFichero
<1> QED BY <1>1, <1>2, <1>3, <1>4, <1>5

LEMMA AjenaDescarga ==
  ASSUME Inv, NEW d \in Descargas, NEW e \in Descargas, e # d,
         NoEmpieza(d) \/ Trunca(d) \/ PasoDescarga(d)
  PROVE  Ajena(e)
<1> USE DEF servidora, conexion, descarga, Inv, TypeOK, Ajena
<1>1. CASE NoEmpieza(d) \/ Trunca(d)
  BY <1>1 DEF NoEmpieza, Trunca, Va
<1>2. CASE Connect(d) \/ ConnectFalla(d)
  BY <1>2 DEF Connect, ConnectFalla, Va
<1>3. CASE DoWrite(d)
  BY <1>3 DEF DoWrite
<1>4. CASE DoWriteFalla(d) \/ FinDescarga(d)
  BY <1>4 DEF DoWriteFalla, FinDescarga, AcabaDescarga, Va
<1> QED BY <1>1, <1>2, <1>3, <1>4 DEF PasoDescarga

----------------------------------------------------------------------------
(* Nothing is lost on the way from a good source.                          *)

LEMMA DoReadExacta ==
  ASSUME Inv, NEW d \in Descargas, FuenteBuena(d), datos[d] = << >>,
         disco[Origen(d)] # Ausente, DoRead(d)
  PROVE  /\ Casa(datos'[d], leidos'[d] - Len(datos'[d]), {})
         /\ datos'[d] = << >> => leidos'[d] = Len(Contenido)
<1>1. /\ leidos'[d] = leidos[d] + Len(datos'[d])
      /\ datos'[d] = Trozo(Contenido, leidos[d]) /\ datos'[d] \in Seq(Unidades)
  BY DoReadFlujo DEF FuenteBuena
<1>2. leidos[d] \in Nat /\ leidos[d] <= Len(Contenido) /\ Len(Contenido) \in Nat
  BY SeqVacia, ContenidoTipo DEF Inv, TypeOK, Flujo, Casa
<1>3. Casa(Contenido, 0, {})
  BY ContenidoTipo DEF Casa
<1>4. /\ Casa(datos'[d], leidos[d], {}) /\ Len(datos'[d]) \in Nat
      /\ datos'[d] = << >> => Len(Contenido) <= leidos[d]
  BY <1>1, <1>2, <1>3, ContenidoTipo, TrozoCasa
<1>5. leidos'[d] - Len(datos'[d]) = leidos[d]
  <2>1. leidos'[d] = leidos[d] + Len(datos'[d])
    BY <1>1
  <2> QED BY <1>2, <1>4, <2>1
<1>6. ASSUME datos'[d] = << >> PROVE leidos'[d] = Len(Contenido)
  <2>1. Len(datos'[d]) = 0
    BY <1>6, SeqVacia
  <2>2. leidos'[d] = leidos[d]
    BY <1>2, <1>5, <2>1, <1>1
  <2> QED BY <1>2, <1>4, <1>6, <2>2
<1> QED BY <1>4, <1>5, <1>6

LEMMA WriteExacta ==
  ASSUME Inv, NEW d \in Descargas, Exacta(d), Write(d)
  PROVE  Exacta(d)'
<1> USE DEF servidora, descarga
<1>0. srv[d] = "leida" /\ datos[d] # << >> /\ ocupado[De[d]] = d
  BY OcupadoDe DEF Write
<1>1. PICK p \in Nat : p = leidos[d] - Len(datos[d])
  BY LenProperties DEF Inv, TypeOK, Flujo
<1>2. /\ datos[d] \in Seq(Unidades) /\ canal[d] \in Seq(Unidades)
      /\ escritos[d] \in Nat /\ leidos[d] \in Nat /\ Len(canal[d]) \in Nat
      /\ Casa(datos[d], p, {}) /\ Casa(canal[d], escritos[d], {})
  BY <1>1, LenProperties DEF Inv, TypeOK, Exacta
<1>3. /\ Tail(datos[d]) \in Seq(Unidades) /\ Head(datos[d]) \in Unidades
      /\ Len(Tail(datos[d])) = Len(datos[d]) - 1 /\ Len(datos[d]) \in Nat \ {0}
      /\ Casa(Tail(datos[d]), p + 1, {})
      /\ Head(datos[d]) \in {Contenido[p + 1]} \cup {}
  BY <1>0, <1>2, CasaTail
<1>4. /\ datos'[d] = Tail(datos[d])
      /\ UNCHANGED <<srv, leidos, dpc, escritos, ocupado>>
  BY DEF Write, Inv, TypeOK
<1>5. leidos'[d] - Len(datos'[d]) = p + 1
  <2>1. leidos'[d] = leidos[d] /\ Len(datos'[d]) = Len(datos[d]) - 1
    BY <1>3, <1>4
  <2>2. leidos[d] \in Nat /\ Len(datos[d]) \in Nat
    BY <1>2, <1>3
  <2> QED BY <1>1, <2>1, <2>2
<1>6. Casa(datos'[d], leidos'[d] - Len(datos'[d]), {})
  BY <1>3, <1>4, <1>5
<1>7. Casa(canal'[d], escritos'[d], {})
  <2>1. CASE dpc[d] = "conectada"
    <3>1. p = escritos[d] + Len(canal[d])
      BY <1>0, <1>1, <1>2, <1>3, <2>1 DEF Inv, Flujo
    <3>2. p < Len(Contenido)
      BY <1>1, <1>2, <1>3, ContenidoTipo DEF Casa
    <3>3. Casa(Append(canal[d], Head(datos[d])), escritos[d], {})
      BY <1>2, <1>3, <3>1, <3>2, CasaAppend
    <3>4. canal'[d] = Append(canal[d], Head(datos[d]))
      BY <2>1 DEF Write, Inv, TypeOK
    <3> QED BY <1>4, <3>3, <3>4
  <2>2. CASE dpc[d] # "conectada"
    BY <1>2, <1>4, <2>2 DEF Write
  <2> QED BY <2>1, <2>2
<1> QED BY <1>0, <1>4, <1>6, <1>7 DEF Exacta

LEMMA ServidoraExacta ==
  ASSUME Inv, NEW d \in Descargas, FuenteBuena(d), Exacta(d),
         DoAccept(d) \/ EmpiezaWrite(d) \/ AcabaWrite(d) \/ FinFichero(d)
  PROVE  Exacta(d)'
<1> USE DEF servidora, conexion, descarga
<1>0. De[d] \in Nodos /\ d # Nadie
  BY Lugares, TransferenciaAssumption
<1>1. CASE DoAccept(d) \/ AcabaWrite(d)
  <2>1. datos[d] = << >> /\ disco[Origen(d)] # Ausente /\ DoRead(d)
    BY <1>1, OcupadoDe, AceptaDe DEF DoAccept, AcabaWrite, Inv, Flujo
  <2>2. /\ Casa(datos'[d], leidos'[d] - Len(datos'[d]), {})
        /\ datos'[d] = << >> => leidos'[d] = Len(Contenido)
    BY <2>1, DoReadExacta
  <2>3. UNCHANGED <<canal, escritos>> /\ srv'[d] = "leida"
    BY <1>1, OcupadoDe DEF DoAccept, AcabaWrite, Inv, TypeOK
  <2> QED BY <2>2, <2>3 DEF Exacta
<1>2. CASE EmpiezaWrite(d)
  <2>1. ocupado'[De[d]] = d /\ UNCHANGED <<hilo, srv, datos, leidos, canal, dpc, escritos>>
    BY <1>0, <1>2 DEF EmpiezaWrite, Inv, TypeOK
  <2> QED BY <2>1 DEF Exacta
<1>3. CASE FinFichero(d)
  <2>1. /\ srv[d] = "leida" /\ datos[d] = << >> /\ ocupado[De[d]] # d
        /\ srv'[d] = "cerrada" /\ leidos'[d] = 0
        /\ UNCHANGED <<datos, canal, dpc, escritos>>
    BY <1>0, <1>3 DEF FinFichero, Libre, Inv, TypeOK
  <2>2. leidos[d] = Len(Contenido)
    BY <2>1 DEF Exacta
  <2>3. dpc[d] = "conectada" => escritos[d] + Len(canal[d]) = Len(Contenido)
    <3>1. Len(datos[d]) = 0 /\ escritos[d] \in Nat /\ Len(canal[d]) \in Nat
      BY <2>1, SeqVacia, LenProperties DEF Inv, TypeOK
    <3>2. dpc[d] = "conectada" => escritos[d] + Len(canal[d]) + Len(datos[d]) = leidos[d]
      BY <2>1 DEF Inv, Flujo
    <3> QED BY <2>2, <3>1, <3>2
  <2>4. Casa(datos'[d], leidos'[d] - Len(datos'[d]), {})
    <3>1. datos'[d] = << >> /\ leidos'[d] - Len(datos'[d]) = 0
      BY <2>1, SeqVacia
    <3> QED BY <3>1, CasaVacia, ContenidoTipo
  <2> QED BY <2>1, <2>3, <2>4 DEF Exacta
<1> QED BY <1>1, <1>2, <1>3

\* The serving thread of a download ends, or the process of either end does.
LEMMA CaeExacta ==
  ASSUME Inv, NEW d \in Descargas, Exacta(d), NEW n \in Nodos, NEW fin \in Fin,
         AcabaHilo(n, fin),
         \/ dpc'[d] = dpc[d] /\ canal'[d] = canal[d] /\ escritos'[d] = escritos[d]
         \/ canal'[d] = << >> /\ escritos'[d] = 0 /\ dpc'[d] # "conectada"
  PROVE  Exacta(d)'
<1>0. Casa(<< >>, 0, {}) /\ Len(<< >>) = 0 /\ De[d] \in Nodos
  BY CasaVacia, ContenidoTipo, SeqVacia, Lugares
<1>1. Casa(canal'[d], escritos'[d], {})
  BY <1>0 DEF Exacta
<1>2. CASE De[d] = n
  <2>1. hilo'[De[d]] \in Fin /\ datos'[d] = << >> /\ leidos'[d] = 0 /\ srv'[d] # "leida"
    BY <1>0, <1>2 DEF AcabaHilo, Inv, TypeOK
  <2>2. Casa(datos'[d], leidos'[d] - Len(datos'[d]), {})
    <3>0. leidos'[d] = 0 /\ Len(datos'[d]) = 0
      BY <2>1, SeqVacia
    <3>1. leidos'[d] - Len(datos'[d]) = 0
      BY <3>0
    <3> QED BY <1>0, <2>1, <3>1
  <2> QED BY <1>1, <2>1, <2>2 DEF Exacta
<1>3. CASE De[d] # n
  <2>1. /\ hilo'[De[d]] = hilo[De[d]] /\ ocupado'[De[d]] = ocupado[De[d]]
        /\ datos'[d] = datos[d] /\ leidos'[d] = leidos[d] /\ srv'[d] = srv[d]
    BY <1>0, <1>3 DEF AcabaHilo, Inv, TypeOK
  <2> QED BY <1>1, <2>1 DEF Exacta
<1> QED BY <1>2, <1>3

LEMMA DescargaExacta ==
  ASSUME Inv, NEW d \in Descargas, srv[d] # "no", Exacta(d),
         NoEmpieza(d) \/ Trunca(d) \/ PasoDescarga(d)
  PROVE  Exacta(d)'
<1> USE DEF servidora, conexion, descarga
<1>0. Casa(<< >>, 0, {}) /\ dpc[d] \notin {"no", "truncada"}
  BY CasaVacia, ContenidoTipo DEF Inv, Conexion
<1>1. CASE DoWrite(d)
  <2>1. PICK k \in Nat : DoWriteK(d, k)
    BY <1>1, DoWritePick
  <2>2. /\ escritos'[d] = escritos[d] + k /\ Len(canal'[d]) = Len(canal[d]) - k
        /\ Len(canal[d]) \in Nat /\ k >= 1
    BY <2>1, DoWriteFlujo
  <2>3. /\ canal[d] \in Seq(Unidades) /\ escritos[d] \in Nat /\ k \in 1 .. Len(canal[d])
        /\ Casa(canal[d], escritos[d], {})
    BY <2>1 DEF Inv, TypeOK, Exacta, DoWriteK
  <2>4. canal'[d] = SubSeq(canal[d], k + 1, Len(canal[d]))
    BY <2>1 DEF DoWriteK, Inv, TypeOK
  <2>5. Casa(canal'[d], escritos'[d], {})
    <3>1. Casa(SubSeq(canal[d], k + 1, Len(canal[d])), escritos[d] + k, {})
      BY <2>3, CasaParte, Zenon
    <3> QED BY <2>2, <2>4, <3>1, Zenon
  <2>6. escritos'[d] + Len(canal'[d]) = escritos[d] + Len(canal[d])
    BY <2>2, <2>3
  <2>7. UNCHANGED <<hilo, ocupado, srv, datos, leidos, dpc>>
    BY <2>1 DEF DoWriteK
  <2> QED BY <2>5, <2>6, <2>7 DEF Exacta
<1>2. CASE DoWriteFalla(d) \/ FinDescarga(d)
  <2>1. /\ dpc'[d] # "conectada" /\ canal'[d] = << >> /\ escritos'[d] = 0
        /\ UNCHANGED <<hilo, ocupado, srv, datos, leidos>>
    BY <1>2 DEF DoWriteFalla, FinDescarga, AcabaDescarga, Va, Inv, TypeOK
  <2>2. Casa(canal'[d], escritos'[d], {})
    BY <1>0, <2>1
  <2> QED BY <2>1, <2>2 DEF Exacta
<1>3. ~(NoEmpieza(d) \/ Trunca(d) \/ Connect(d) \/ ConnectFalla(d))
  BY <1>0 DEF NoEmpieza, Trunca, Connect, ConnectFalla
<1> QED BY <1>1, <1>2, <1>3 DEF PasoDescarga

LEMMA ExactaPaso ==
  ASSUME Inv, Next, NEW d \in Descargas, srv[d] # "no", FuenteBuena(d), Exacta(d)
  PROVE  Exacta(d)'
<1>1. ASSUME NEW n \in Nodos, Lanza(n) \/ PasoHilo(n) \/ Sale(n) \/ Muere(n)
      PROVE  Exacta(d)'
  <2>1. CASE Lanza(n) \/ Escucha(n) \/ NoEscucha(n) \/ Crea(n)
    BY <2>1, AjenaHilo, ExactaAjena
  <2>2. ASSUME NEW e \in Descargas,
               \/ DoAccept(e) \/ EmpiezaWrite(e) \/ Write(e) \/ AcabaWrite(e) \/ FinFichero(e)
        PROVE  Exacta(d)'
    <3>1. CASE e # d
      BY <2>2, <3>1, AjenaServidora, ExactaAjena
    <3>2. CASE e = d
      BY <2>2, <3>2, ServidoraExacta, WriteExacta
    <3> QED BY <3>1, <3>2
  <2>3. CASE CreaFalla(n) \/ (\E e \in Descargas : WriteFalla(e))
    <3>1. PICK m \in Nodos, fin \in Fin : AcabaHilo(m, fin) /\ UNCHANGED <<dpc, canal, escritos>>
      BY <2>3, Lugares DEF CreaFalla, WriteFalla, descarga
    <3> QED BY <3>1, CaeExacta
  <2>4. CASE Sale(n) \/ Muere(n)
    <3>1. /\ AcabaHilo(n, "acabada")
          /\ \/ dpc'[d] = dpc[d] /\ canal'[d] = canal[d] /\ escritos'[d] = escritos[d]
             \/ canal'[d] = << >> /\ escritos'[d] = 0 /\ dpc'[d] # "conectada"
      BY <2>4 DEF Sale, Muere, AcabaProceso
    <3> QED BY <3>1, CaeExacta
  <2> QED BY <1>1, <2>1, <2>2, <2>3, <2>4 DEF PasoHilo
<1>2. ASSUME NEW e \in Descargas, NoEmpieza(e) \/ Trunca(e) \/ PasoDescarga(e)
      PROVE  Exacta(d)'
  <2>1. CASE e # d
    BY <1>2, <2>1, AjenaDescarga, ExactaAjena
  <2>2. CASE e = d
    BY <1>2, <2>2, DescargaExacta
  <2> QED BY <2>1, <2>2
<1> QED BY <1>1, <1>2 DEF Next

\* A connection begins with nothing on its way.
LEMMA EmpiezaExacta ==
  ASSUME Inv, Inv', NEW d \in Descargas, Next, srv[d] = "no", srv'[d] # "no"
  PROVE  Exacta(d)'
<1>1. srv'[d] = "cola"
  <2> USE DEF servidora, conexion, descarga, Inv, TypeOK
  <2>1. ASSUME NEW e \in Descargas, srv[e] # "no", srv' = [srv EXCEPT ![e] = srv'[e]] PROVE FALSE
    BY <2>1
  <2>2. ASSUME NEW e \in Descargas,
               \/ DoAccept(e) \/ EmpiezaWrite(e) \/ Write(e) \/ AcabaWrite(e) \/ FinFichero(e)
        PROVE  FALSE
    <3>1. CASE DoAccept(e)
      BY <3>1 DEF DoAccept
    <3>2. CASE FinFichero(e)
      BY <3>2 DEF FinFichero
    <3>3. CASE EmpiezaWrite(e) \/ Write(e) \/ AcabaWrite(e)
      BY <3>3 DEF EmpiezaWrite, Write, AcabaWrite
    <3> QED BY <2>2, <3>1, <3>2, <3>3
  <2>3. ASSUME NEW n \in Nodos, NEW fin, AcabaHilo(n, fin) PROVE FALSE
    BY <2>3 DEF AcabaHilo
  <2>4. ASSUME NEW e \in Descargas, WriteFalla(e) PROVE FALSE
    BY <2>3, <2>4, Lugares DEF WriteFalla
  <2>5. ASSUME NEW n \in Nodos, Lanza(n) \/ PasoHilo(n) \/ Sale(n) \/ Muere(n) PROVE FALSE
    <3>1. ~(Lanza(n) \/ Escucha(n) \/ NoEscucha(n) \/ Crea(n))
      BY DEF Lanza, Escucha, NoEscucha, Crea
    <3>2. ~(Sale(n) \/ Muere(n) \/ CreaFalla(n))
      BY <2>3 DEF Sale, Muere, AcabaProceso, CreaFalla
    <3> QED BY <2>2, <2>4, <2>5, <3>1, <3>2 DEF PasoHilo
  <2>6. PICK e \in Descargas : NoEmpieza(e) \/ Trunca(e) \/ PasoDescarga(e)
    BY <2>5 DEF Next
  <2>7. Connect(e)
    BY <2>6 DEF PasoDescarga, NoEmpieza, Trunca, ConnectFalla, DoWrite, DoWriteFalla, FinDescarga
  <2> QED BY <2>7 DEF Connect
<1>2. datos'[d] = << >> /\ leidos'[d] = 0 /\ canal'[d] = << >> /\ escritos'[d] = 0
  BY <1>1 DEF Inv, Flujo
<1>3. Casa(<< >>, 0, {})
  BY CasaVacia, ContenidoTipo
<1>4. leidos'[d] - Len(datos'[d]) = 0
  <2>1. leidos'[d] = 0 /\ Len(datos'[d]) = 0
    BY <1>2, SeqVacia
  <2> QED BY <2>1
<1> QED BY <1>1, <1>2, <1>3, <1>4 DEF Exacta

LEMMA ExactasPaso ==
  ASSUME Inv, Exactas, [Next]_vars
  PROVE  Exactas'
<1>1. CASE UNCHANGED vars
  BY <1>1 DEF vars, servidora, conexion, descarga, Exactas, FuenteBuena, Destinos, Exacta
<1>2. CASE Next
  <2>1. Inv'
    BY PasoInv
  <2> SUFFICES ASSUME Contenido # << >>, NEW d \in Descargas, srv'[d] # "no", FuenteBuena(d)'
               PROVE  Exacta(d)'
    BY DEF Exactas
  <2>2. CASE srv[d] = "no"
    BY <1>2, <2>1, <2>2, EmpiezaExacta
  <2>3. CASE srv[d] # "no"
    BY <1>2, <2>3, FuenteAntes, ExactaPaso DEF Exactas
  <2> QED BY <2>2, <2>3
<1> QED BY <1>1, <1>2

LEMMA ExactasSiempre == Spec => [](Inv /\ Exactas)
<1>1. Init => Exactas
  BY DEF Init, Exactas
<1>2. Inv /\ Exactas /\ [Next]_vars => Exactas'
  BY ExactasPaso
<1> QED BY <1>1, <1>2, InvSiempre, PTL DEF Spec

----------------------------------------------------------------------------
(* A file whose downloads all went well is complete.                       *)

Hechas(c) == { d \in Descargas : Destino(d) = c /\ dpc[d] # "no" }

\* So far every download into c has gone well.
Bien(c) ==
    \A d \in Hechas(c) :
       /\ dpc[d] \in {"truncada", "conectada", "acabada"}
       /\ srv[d] # "no" => hilo[De[d]] = "escucha" /\ FuenteBuena(d)

\* The first m units of c are those of the file.
Cubre(c, m) == m <= Len(disco[c]) /\ \A i \in 1 .. m : disco[c][i] = Contenido[i]

\* What download e has put into its folder since it emptied it.
Puesto(e) == IF dpc[e] = "acabada" THEN Len(Contenido) ELSE escritos[e]

\* The download that emptied c last has written all that it has written:
\* the others can only have put the same units there again.
Cubierta(c) ==
    Contenido # << >> /\ c \in Destinos /\ Bien(c) => \E e \in Hechas(c) : Cubre(c, Puesto(e))

Cubiertas == \A c \in Carpetas : Cubierta(c)

\* A write of good units keeps what is covered, and extends it when it
\* begins within it.
LEMMA PonCubre ==
  ASSUME NEW f \in Seq(Unidades), NEW g \in Seq(Unidades), NEW p \in Nat, NEW m \in Nat,
         Casa(g, p, {}), m <= Len(f), \A i \in 1 .. m : f[i] = Contenido[i]
  PROVE  LET h == Pon(f, p, g)
         IN /\ m <= Len(h) /\ \A i \in 1 .. m : h[i] = Contenido[i]
            /\ p <= m => /\ p + Len(g) <= Len(h)
                         /\ \A i \in 1 .. p + Len(g) : h[i] = Contenido[i]
<1> DEFINE h == Pon(f, p, g)
<1>1. /\ Len(h) = IF p + Len(g) > Len(f) THEN p + Len(g) ELSE Len(f)
      /\ \A i \in 1 .. Len(h) :
            h[i] = IF i > p /\ i <= p + Len(g) THEN g[i - p]
                   ELSE IF i <= Len(f) THEN f[i] ELSE Hueco
  BY PonValor
<1>2. Len(f) \in Nat /\ Len(g) \in Nat
  BY LenProperties
<1> HIDE DEF h
<1>3. m <= Len(h) /\ p + Len(g) <= Len(h) /\ Len(h) \in Nat
  BY <1>1, <1>2
<1>4. ASSUME NEW i \in 1 .. Len(h), i > p, i <= p + Len(g) PROVE h[i] = Contenido[i]
  <2>1. i - p \in 1 .. Len(g) /\ p + (i - p) = i
    BY <1>2, <1>3, <1>4
  <2>2. g[i - p] \in {Contenido[p + (i - p)]} \cup {}
    BY <2>1 DEF Casa
  <2> QED BY <1>1, <1>4, <2>1, <2>2
<1>5. ASSUME NEW i \in 1 .. Len(h), ~(i > p /\ i <= p + Len(g)), i <= m PROVE h[i] = Contenido[i]
  <2>1. i \in 1 .. m /\ i <= Len(f)
    BY <1>2, <1>3, <1>5
  <2> QED BY <1>1, <1>5, <2>1
<1>6. \A i \in 1 .. m : h[i] = Contenido[i]
  <2> TAKE i \in 1 .. m
  <2>1. i \in 1 .. Len(h) /\ i <= m
    BY <1>3
  <2> QED BY <1>4, <1>5, <2>1
<1>7. ASSUME p <= m PROVE \A i \in 1 .. p + Len(g) : h[i] = Contenido[i]
  <2> TAKE i \in 1 .. p + Len(g)
  <2>1. i \in 1 .. Len(h) /\ i <= p + Len(g) /\ (i > p \/ i <= m)
    BY <1>2, <1>3, <1>7
  <2> QED BY <1>4, <1>5, <2>1
<1> QED BY <1>3, <1>6, <1>7 DEF h

\* If all is well after a step, all was well before it.
LEMMA BienAntes ==
  ASSUME Inv, Next, Contenido # << >>, NEW c \in Carpetas, Bien(c)'
  PROVE  Bien(c)
<1> SUFFICES ASSUME NEW d \in Hechas(c)
             PROVE  /\ dpc[d] \in {"truncada", "conectada", "acabada"}
                    /\ srv[d] # "no" => hilo[De[d]] = "escucha" /\ FuenteBuena(d)
  BY DEF Bien
<1>1. d \in Descargas /\ Destino(d) = c /\ dpc[d] # "no" /\ dpc'[d] # "no" /\ d \in Hechas(c)'
  BY PasoDisco DEF Hechas
<1>2. /\ dpc'[d] \in {"truncada", "conectada", "acabada"}
      /\ srv'[d] # "no" => hilo'[De[d]] = "escucha" /\ FuenteBuena(d)'
  BY <1>1 DEF Bien
<1>3. dpc[d] \notin {"excepcion", "muerta"}
  BY <1>1, <1>2, PasoExtremos
<1>4. ASSUME srv[d] # "no" PROVE hilo[De[d]] = "escucha" /\ FuenteBuena(d)
  <2>1. srv'[d] # "no" /\ (hilo[De[d]] \in Fin => hilo'[De[d]] \in Fin)
    BY <1>1, <1>4, PasoNoVuelve
  <2>2. FuenteBuena(d)
    BY <1>1, <1>2, <1>4, <2>1, FuenteAntes
  <2> QED BY <1>1, <1>2, <1>4, <2>1, <2>2 DEF Inv, Conexion
<1> QED BY <1>1, <1>3, <1>4 DEF Inv, TypeOK

LEMMA DestinosHechas ==
  ASSUME NEW c
  PROVE  c \in Destinos <=> \E d \in Hechas(c) : TRUE
BY DEF Destinos, Hechas

\* A download begins well only by emptying its folder.
LEMMA EmpiezaTrunca ==
  ASSUME Inv, Next, NEW d \in Descargas, dpc[d] = "no",
         dpc'[d] \in {"truncada", "conectada", "acabada"}
  PROVE  Trunca(d)
<1> USE DEF servidora, conexion, descarga, Inv, TypeOK
<1>1. ASSUME NEW n \in Nodos, Lanza(n) \/ PasoHilo(n) \/ Sale(n) \/ Muere(n) PROVE FALSE
  <2>1. CASE Lanza(n) \/ Escucha(n) \/ NoEscucha(n) \/ Crea(n) \/ CreaFalla(n)
    BY <2>1 DEF Lanza, Escucha, NoEscucha, Crea, CreaFalla
  <2>2. ASSUME NEW e \in Descargas,
               \/ DoAccept(e) \/ EmpiezaWrite(e) \/ Write(e) \/ AcabaWrite(e)
               \/ FinFichero(e) \/ WriteFalla(e)
        PROVE  UNCHANGED dpc
    BY <2>2 DEF DoAccept, EmpiezaWrite, Write, AcabaWrite, FinFichero, WriteFalla
  <2>3. CASE Sale(n) \/ Muere(n)
    BY <2>3 DEF Sale, Muere, AcabaProceso
  <2> QED BY <1>1, <2>1, <2>2, <2>3 DEF PasoHilo
<1>2. PICK e \in Descargas : NoEmpieza(e) \/ Trunca(e) \/ PasoDescarga(e)
  BY <1>1 DEF Next
<1>3. e = d
  BY <1>2 DEF PasoDescarga, NoEmpieza, Trunca, Connect, ConnectFalla, DoWrite, DoWriteFalla,
              FinDescarga, AcabaDescarga, Va
<1>4. ~NoEmpieza(d) /\ ~PasoDescarga(d)
  BY DEF PasoDescarga, NoEmpieza, Connect, ConnectFalla, DoWrite, DoWriteFalla, FinDescarga, Va
<1> QED BY <1>2, <1>3, <1>4

LEMMA CubreIgual ==
  ASSUME NEW c, NEW e, Cubre(c, Puesto(e)), disco'[c] = disco[c], Puesto(e)' = Puesto(e)
  PROVE  Cubre(c, Puesto(e))'
BY DEF Cubre

LEMMA CubreDoWrite ==
  ASSUME Inv, Exactas, NEW c \in Carpetas, Bien(c), NEW e \in Hechas(c), Cubre(c, Puesto(e)),
         NEW d \in Descargas, DoWrite(d)
  PROVE  Cubre(c, Puesto(e))'
<1>1. PICK k \in Nat : DoWriteK(d, k)
  BY DoWritePick
<1>2. e \in Descargas /\ Destino(e) = c
  BY DEF Hechas
<1>3. /\ dpc[d] = "conectada" /\ dpc' = dpc
      /\ disco' = [disco EXCEPT ![Destino(d)] =
                     Pon(disco[Destino(d)], escritos[d], SubSeq(canal[d], 1, k))]
      /\ canal[d] \in Seq(Unidades) /\ escritos[d] \in Nat /\ k \in 1 .. Len(canal[d])
  BY <1>1 DEF DoWriteK, Inv, TypeOK
<1>4. escritos'[d] = escritos[d] + k /\ \A x \in Descargas \ {d} : escritos'[x] = escritos[x]
  BY <1>1, DoWriteFlujo
<1>5. CASE Destino(d) # c
  <2>1. disco'[c] = disco[c] /\ e # d
    BY <1>2, <1>3, <1>5, Lugares DEF Inv, TypeOK
  <2>2. Puesto(e)' = Puesto(e)
    BY <1>2, <1>3, <1>4, <2>1 DEF Puesto
  <2> QED BY <2>1, <2>2, CubreIgual
<1>6. CASE Destino(d) = c
  <2> DEFINE f == disco[c]
             g == SubSeq(canal[d], 1, k)
             p == escritos[d]
             m == Puesto(e)
             h == Pon(f, p, g)
  <2>1. d \in Hechas(c) /\ f # Ausente /\ f \in Seq(Unidades)
    BY <1>3, <1>6 DEF Hechas, Inv, Conexion, TypeOK
  <2>2. srv[d] # "no" /\ FuenteBuena(d)
    BY <1>3, <2>1 DEF Bien, Inv, Conexion
  <2>3. Casa(canal[d], p, {})
    BY <2>2, ExactaDe DEF Exacta
  <2>4. g \in Seq(Unidades) /\ Len(g) = k /\ Casa(g, p, {})
    BY <1>3, <2>3, CasaParte
  <2>5. m \in Nat /\ p \in Nat
    BY <1>2, <1>3, ContenidoTipo DEF Puesto, Inv, TypeOK
  <2>6. m <= Len(f) /\ \A i \in 1 .. m : f[i] = Contenido[i]
    BY DEF Cubre
  <2>7. disco'[c] = h
    BY <1>3, <1>6 DEF Inv, TypeOK
  <2> HIDE DEF f, g, p, m, h
  <2>8. /\ m <= Len(h) /\ \A i \in 1 .. m : h[i] = Contenido[i]
        /\ p <= m => /\ p + Len(g) <= Len(h)
                     /\ \A i \in 1 .. p + Len(g) : h[i] = Contenido[i]
    BY <2>1, <2>4, <2>5, <2>6, PonCubre DEF h
  <2>9. CASE e # d
    <3>1. Puesto(e)' = m
      BY <1>2, <1>3, <1>4, <2>9 DEF Puesto, m
    <3> QED BY <2>7, <2>8, <3>1 DEF Cubre
  <2>10. CASE e = d
    <3>1. m = p
      BY <1>3, <2>10 DEF Puesto, m, p
    <3>2. Puesto(e)' = p + Len(g)
      BY <1>3, <1>4, <2>4, <2>10 DEF Puesto, p
    <3>3. p + Len(g) <= Len(h) /\ \A i \in 1 .. p + Len(g) : h[i] = Contenido[i]
      BY <2>5, <2>8, <3>1
    <3> QED BY <2>7, <3>2, <3>3 DEF Cubre
  <2> QED BY <2>9, <2>10
<1> QED BY <1>5, <1>6

LEMMA CubreFin ==
  ASSUME Inv, Exactas, NEW c \in Carpetas, Bien(c), NEW e \in Hechas(c), Cubre(c, Puesto(e)),
         NEW d \in Descargas, FinDescarga(d)
  PROVE  Cubre(c, Puesto(e))'
<1>1. /\ dpc[d] = "conectada" /\ canal[d] = << >> /\ srv[d] = "cerrada" /\ disco' = disco
      /\ dpc' = [dpc EXCEPT ![d] = "acabada"] /\ escritos' = [escritos EXCEPT ![d] = 0]
  BY DEF FinDescarga, AcabaDescarga, Va
<1>2. Puesto(e)' = Puesto(e)
  <2>1. CASE e # d
    BY <1>1, <2>1 DEF Puesto, Inv, TypeOK, Hechas
  <2>2. CASE e = d
    <3>1. hilo[De[d]] = "escucha" /\ FuenteBuena(d)
      BY <1>1, <2>2 DEF Bien
    <3>2. escritos[d] + Len(canal[d]) = Len(Contenido)
      BY <1>1, <3>1, ExactaDe DEF Exacta
    <3>3. escritos[d] = Len(Contenido)
      <4>1. Len(canal[d]) = 0 /\ escritos[d] \in Nat
        BY <1>1, SeqVacia DEF Inv, TypeOK
      <4> QED BY <3>2, <4>1
    <3>4. dpc'[d] = "acabada"
      BY <1>1 DEF Inv, TypeOK
    <3> QED BY <1>1, <2>2, <3>3, <3>4 DEF Puesto
  <2> QED BY <2>1, <2>2
<1> QED BY <1>1, <1>2, CubreIgual

\* The other steps that leave all well neither touch c nor what e has put
\* into it.
LEMMA CubrePaso ==
  ASSUME Inv, Exactas, Next, NEW c \in Carpetas, Bien(c), Bien(c)',
         NEW e \in Hechas(c), Cubre(c, Puesto(e)),
         \A d \in Descargas : Trunca(d) => Destino(d) # c
  PROVE  Cubre(c, Puesto(e))'
<1> USE DEF servidora, conexion, descarga
<1>0. /\ e \in Descargas /\ Destino(e) = c /\ dpc[e] \in {"truncada", "conectada", "acabada"}
      /\ disco[c] # Ausente
  BY DEF Hechas, Bien, Inv, Conexion
<1>1. dpc'[e] \in {"truncada", "conectada", "acabada"}
  <2>1. e \in Hechas(c)'
    BY <1>0, PasoDisco DEF Hechas
  <2> QED BY <2>1 DEF Bien
<1>2. ASSUME NEW n \in Nodos, Lanza(n) \/ PasoHilo(n)
      PROVE  disco'[c] = disco[c] /\ UNCHANGED <<dpc, escritos>>
  <2>1. CASE Crea(n)
    BY <1>0, <2>1, Lugares DEF Crea, Abre, Inv, TypeOK
  <2>2. CASE Lanza(n) \/ Escucha(n) \/ NoEscucha(n) \/ CreaFalla(n)
    BY <2>2 DEF Lanza, Escucha, NoEscucha, CreaFalla
  <2>3. ASSUME NEW d \in Descargas,
               \/ DoAccept(d) \/ EmpiezaWrite(d) \/ Write(d) \/ AcabaWrite(d)
               \/ FinFichero(d) \/ WriteFalla(d)
        PROVE  UNCHANGED <<disco, dpc, escritos>>
    BY <2>3 DEF DoAccept, EmpiezaWrite, Write, AcabaWrite, FinFichero, WriteFalla
  <2> QED BY <1>2, <2>1, <2>2, <2>3 DEF PasoHilo
<1>3. ASSUME NEW n \in Nodos, Sale(n) \/ Muere(n)
      PROVE  disco' = disco /\ Puesto(e)' = Puesto(e)
  BY <1>0, <1>1, <1>3 DEF Sale, Muere, AcabaProceso, Puesto
<1>4. ASSUME NEW d \in Descargas, NoEmpieza(d) \/ Trunca(d) \/ Connect(d)
                                  \/ ConnectFalla(d) \/ DoWriteFalla(d)
      PROVE  disco'[c] = disco[c] /\ Puesto(e)' = Puesto(e)
  <2>1. CASE NoEmpieza(d) \/ ConnectFalla(d) \/ DoWriteFalla(d)
    <3>1. disco' = disco /\ dpc'[d] = "excepcion"
          /\ \A x \in Descargas \ {d} : dpc'[x] = dpc[x] /\ escritos'[x] = escritos[x]
      BY <2>1 DEF NoEmpieza, ConnectFalla, DoWriteFalla, AcabaDescarga, Va, Inv, TypeOK
    <3> QED BY <1>0, <1>1, <3>1 DEF Puesto
  <2>2. CASE Trunca(d)
    <3>1. Destino(d) # c /\ e # d /\ disco'[c] = disco[c] /\ dpc'[e] = dpc[e] /\ escritos' = escritos
      BY <1>0, <2>2, Lugares DEF Trunca, Va, Inv, TypeOK
    <3> QED BY <3>1 DEF Puesto
  <2>3. CASE Connect(d)
    <3>1. disco' = disco /\ escritos' = escritos /\ (dpc'[e] = "acabada" <=> dpc[e] = "acabada")
      BY <1>0, <2>3 DEF Connect, Va, Inv, TypeOK
    <3> QED BY <3>1 DEF Puesto
  <2> QED BY <1>4, <2>1, <2>2, <2>3
<1>5. ASSUME NEW n \in Nodos, Lanza(n) \/ PasoHilo(n) \/ Sale(n) \/ Muere(n)
      PROVE  Cubre(c, Puesto(e))'
  <2>1. disco'[c] = disco[c] /\ Puesto(e)' = Puesto(e)
    BY <1>2, <1>3, <1>5 DEF Puesto
  <2> QED BY <2>1, CubreIgual
<1>6. ASSUME NEW d \in Descargas, NoEmpieza(d) \/ Trunca(d) \/ PasoDescarga(d)
      PROVE  Cubre(c, Puesto(e))'
  <2>1. CASE DoWrite(d)
    BY <2>1, CubreDoWrite
  <2>2. CASE FinDescarga(d)
    BY <2>2, CubreFin
  <2>3. CASE NoEmpieza(d) \/ Trunca(d) \/ Connect(d) \/ ConnectFalla(d) \/ DoWriteFalla(d)
    BY <1>4, <2>3, CubreIgual
  <2> QED BY <1>6, <2>1, <2>2, <2>3 DEF PasoDescarga
<1> QED BY <1>5, <1>6 DEF Next

LEMMA CubiertasPaso ==
  ASSUME Inv, Exactas, Cubiertas, [Next]_vars
  PROVE  Cubiertas'
<1>1. CASE UNCHANGED vars
  BY <1>1 DEF vars, servidora, conexion, descarga, Cubiertas, Cubierta, Destinos, Bien, Hechas,
              Cubre, Puesto, FuenteBuena
<1>2. CASE Next
  <2>0. Inv'
    BY PasoInv
  <2> SUFFICES ASSUME Contenido # << >>, NEW c \in Carpetas, (c \in Destinos)', Bien(c)'
               PROVE  \E e \in Hechas(c)' : Cubre(c, Puesto(e))'
    BY DEF Cubiertas, Cubierta
  <2>1. Bien(c)
    BY <1>2, BienAntes
  <2>2. CASE \E d \in Descargas : Trunca(d) /\ Destino(d) = c
    <3>1. PICK d \in Descargas : Trunca(d) /\ Destino(d) = c
      BY <2>2
    <3>2. dpc'[d] = "truncada" /\ disco'[c] = << >>
      BY <3>1 DEF Trunca, Va, Inv, TypeOK
    <3>3. d \in Hechas(c)' /\ Puesto(d)' = 0
      BY <2>0, <3>1, <3>2 DEF Hechas, Puesto, Inv, Flujo
    <3>4. Cubre(c, Puesto(d))'
      BY <3>2, <3>3, SeqVacia DEF Cubre
    <3> QED BY <3>3, <3>4
  <2>3. CASE \A d \in Descargas : Trunca(d) => Destino(d) # c
    <3>1. PICK d \in Hechas(c)' : TRUE
      BY DEF Destinos, Hechas
    <3>2. d \in Descargas /\ Destino(d) = c /\ dpc'[d] \in {"truncada", "conectada", "acabada"}
      BY <3>1 DEF Hechas, Bien
    <3>3. dpc[d] # "no"
      BY <1>2, <2>3, <3>2, EmpiezaTrunca
    <3>4. c \in Destinos
      BY <3>2, <3>3 DEF Destinos
    <3>5. PICK e \in Hechas(c) : Cubre(c, Puesto(e))
      BY <2>1, <3>4 DEF Cubiertas, Cubierta
    <3>6. Cubre(c, Puesto(e))'
      BY <1>2, <2>1, <2>3, <3>5, CubrePaso
    <3>7. e \in Hechas(c)'
      BY <1>2, <3>5, PasoDisco DEF Hechas
    <3> QED BY <3>6, <3>7
  <2> QED BY <2>2, <2>3
<1> QED BY <1>1, <1>2

LEMMA CubiertasImplica == Inv /\ Cubiertas => DestinoCompleto
<1> SUFFICES ASSUME Inv, Cubiertas, NEW c \in Destinos,
                    \A d \in Hechas(c) :
                       /\ dpc[d] = "acabada" /\ hilo[De[d]] = "escucha"
                       /\ disco[Origen(d)] = Contenido /\ Origen(d) \notin Destinos
             PROVE  disco[c] = Contenido
  BY DEF DestinoCompleto, Hechas
<1>1. Bien(c) /\ c \in Carpetas
  BY Lugares DEF Bien, FuenteBuena, Destinos
<1>0. CASE Contenido = << >>
  <2>1. PICK d \in Hechas(c) : TRUE
    BY DestinosHechas
  <2>2. disco[c] # Ausente
    BY <2>1 DEF Hechas, Inv, Conexion
  <2>3. disco[c] \in Seq(Unidades) /\ Casa(disco[c], 0, {Hueco}) /\ Len(disco[c]) \in Nat
    BY <1>1, <2>2, LenProperties DEF Inv, TypeOK, Ficheros
  <2>4. Len(Contenido) = 0 /\ 0 + Len(disco[c]) <= Len(Contenido)
    BY <1>0, <2>3, SeqVacia DEF Casa
  <2>5. Len(disco[c]) = 0
    BY <2>3, <2>4
  <2> QED BY <1>0, <2>3, <2>5, EmptySeq
<1> SUFFICES ASSUME Contenido # << >> PROVE disco[c] = Contenido
  BY <1>0
<1>2. PICK e \in Hechas(c) : Cubre(c, Puesto(e))
  BY <1>1 DEF Cubiertas, Cubierta
<1>3. Puesto(e) = Len(Contenido) /\ disco[c] # Ausente
  BY <1>2 DEF Puesto, Hechas, Inv, Conexion
<1>4. disco[c] \in Seq(Unidades) /\ Casa(disco[c], 0, {Hueco}) /\ Len(disco[c]) \in Nat
  BY <1>1, <1>3, LenProperties DEF Inv, TypeOK, Ficheros
<1>5. Len(disco[c]) = Len(Contenido)
  BY <1>2, <1>3, <1>4, ContenidoTipo DEF Cubre, Casa
<1>6. \A i \in 1 .. Len(disco[c]) : disco[c][i] = Contenido[i]
  BY <1>2, <1>3, <1>5 DEF Cubre
<1> QED BY <1>4, <1>5, <1>6, ContenidoTipo, SeqEqual

\* A file is complete once every download into its folder has ended quietly,
\* from serving threads that are up and sources that are whole and nobody's
\* destination: the end of a connection is then the end of the file, however
\* many downloads shared the thread or the folder.
THEOREM DestinoCompletoSiempre == Spec => []DestinoCompleto
<1>1. Init => Cubiertas
  BY DEF Init, Cubiertas, Cubierta, Destinos
<1>2. Inv /\ Exactas /\ Cubiertas /\ [Next]_vars => Cubiertas'
  BY CubiertasPaso
<1> QED BY <1>1, <1>2, ExactasSiempre, CubiertasImplica, PTL DEF Spec

----------------------------------------------------------------------------
(* A download that is alone in its folder implements Copia.                *)

\* Its file is what it has written, from the beginning and without holes.
Copiando(d) ==
    /\ disco[Origen(d)] = Contenido
    /\ disco[Destino(d)] # Ausente => Casa(disco[Destino(d)], 0, {})
    /\ dpc[d] \in {"truncada", "conectada"} => Len(disco[Destino(d)]) = escritos[d]

Fuente(d) == hilo[De[d]] \in {"no", "arranca", "escucha"}

LEMMA PropiaDe ==
  ASSUME NEW d \in Propias
  PROVE  /\ d \in Descargas /\ Origen(d) \in Completas
         /\ Origen(d) \notin Destinos /\ Origen(d) \notin Destinos'
         /\ \A e \in Descargas \ {d} : Destino(e) # Destino(d)
         /\ \A e \in Descargas : Destino(e) # Origen(d)
         /\ Destino(d) \in Carpetas /\ Origen(d) \in Carpetas
         /\ Quien[d] \in Nodos /\ De[d] \in Nodos /\ Quien[d] # De[d]
BY Lugares DEF Propias, Destinos, Destino, Origen

LEMMA EstadoValor ==
  ASSUME NEW d, NEW v, dpc[d] = v
  PROVE  /\ v \in {"truncada", "conectada"} => Estado(d) = "en_curso"
         /\ v \in {"excepcion", "muerta"} => Estado(d) = "rota"
         /\ v \in {"no", "acabada"} => Estado(d) = v
BY DEF Estado

LEMMA EstadoValorP ==
  ASSUME NEW d, NEW v, dpc'[d] = v
  PROVE  /\ v \in {"truncada", "conectada"} => Estado(d)' = "en_curso"
         /\ v \in {"excepcion", "muerta"} => Estado(d)' = "rota"
         /\ v \in {"no", "acabada"} => Estado(d)' = v
BY DEF Estado

LEMMA PrefijoEs ==
  ASSUME NEW f \in Seq(Unidades), NEW g \in Seq(Unidades), Len(f) <= Len(g),
         \A i \in 1 .. Len(f) : f[i] = g[i]
  PROVE  f = SubSeq(g, 1, Len(f))
<1> DEFINE t == SubSeq(g, 1, Len(f))
<1>1. Len(f) \in Nat /\ Len(g) \in Nat /\ \A i \in 1 .. Len(f) : g[i] \in Unidades
  BY LenProperties, ElementOfSeq
<1>2. /\ t \in Seq(Unidades) /\ Len(t) = IF 1 <= Len(f) THEN Len(f) - 1 + 1 ELSE 0
      /\ \A i \in 1 .. Len(f) - 1 + 1 : t[i] = g[1 + i - 1]
  <2>1. 1 \in Int /\ Len(f) \in Int
    BY <1>1
  <2> QED BY <1>1, <2>1, SubSeqProperties
<1> HIDE DEF t
<1>3. Len(t) = Len(f)
  BY <1>1, <1>2
<1>4. \A i \in 1 .. Len(f) : t[i] = g[i]
  <2>1. Len(f) - 1 + 1 = Len(f) /\ \A i \in 1 .. Len(f) : 1 + i - 1 = i
    BY <1>1
  <2> QED BY <1>2, <2>1
<1>5. f = t
  BY <1>2, <1>3, <1>4, SeqEqual
<1> QED BY <1>5 DEF t

LEMMA CasaEntera ==
  ASSUME NEW f \in Seq(Unidades), Casa(f, 0, {})
  PROVE  /\ Len(f) \in Nat /\ Len(f) <= Len(Contenido)
         /\ \A i \in 1 .. Len(f) : f[i] = Contenido[i]
         /\ f = SubSeq(Contenido, 1, Len(f))
         /\ Len(f) = Len(Contenido) => f = Contenido
<1>1. Len(f) \in Nat /\ Len(Contenido) \in Nat /\ Contenido \in Seq(Unidades)
  BY LenProperties, ContenidoTipo
<1>2. Len(f) <= Len(Contenido) /\ \A i \in 1 .. Len(f) : f[i] = Contenido[i]
  <2>1. \A i \in 1 .. Len(f) : 0 + i = i
    BY <1>1
  <2> QED BY <1>1, <2>1 DEF Casa
<1>3. f = SubSeq(Contenido, 1, Len(f))
  BY <1>1, <1>2, PrefijoEs
<1> QED BY <1>1, <1>2, <1>3, SeqEqual

LEMMA QuedaIgual ==
  ASSUME NEW d \in Descargas, disco'[Destino(d)] = disco[Destino(d)],
         Fuente(d)' <=> Fuente(d), Estado(d)' = Estado(d)
  PROVE  UNCHANGED C(d)!vars
BY DEF C!vars, Fuente

LEMMA CaeFuente ==
  ASSUME NEW d \in Descargas, disco'[Destino(d)] = disco[Destino(d)],
         ~Fuente(d)', Estado(d)' = Estado(d)
  PROVE  C(d)!Next \/ UNCHANGED C(d)!vars
<1>1. CASE Fuente(d)
  <2>1. C(d)!FuenteCae
    BY <1>1 DEF C!FuenteCae, Fuente
  <2> QED BY <2>1 DEF C!Next
<1>2. CASE ~Fuente(d)
  BY <1>2, QuedaIgual
<1> QED BY <1>1, <1>2

LEMMA CopiaRompe ==
  ASSUME NEW d \in Descargas, disco'[Destino(d)] = disco[Destino(d)],
         Fuente(d)' <=> Fuente(d), Estado(d) = "en_curso", Estado(d)' = "rota"
  PROVE  C(d)!Next
<1>1. C(d)!Rompe
  BY DEF C!Rompe, Fuente
<1> QED BY <1>1 DEF C!Next

PasoCopia(d) == C(d)!Next \/ UNCHANGED C(d)!vars

\* The steps of the serving threads and of other downloads.
LEMMA CopiaServidora ==
  ASSUME Inv, NEW d \in Propias, Copiando(d), NEW n \in Nodos,
         Lanza(n) \/ PasoHilo(n) \/ Sale(n) \/ Muere(n)
  PROVE  PasoCopia(d) /\ Copiando(d)'
<1> USE DEF servidora, conexion, descarga
<1>0. /\ d \in Descargas /\ Destino(d) \in Carpetas /\ Origen(d) \in Carpetas
      /\ Quien[d] \in Nodos /\ De[d] \in Nodos /\ Quien[d] # De[d]
  BY PropiaDe
<1>1. CASE Crea(n)
  <2>0. /\ disco' = [disco EXCEPT ![Carpeta[n]] = Abre(disco[Carpeta[n]])]
        /\ UNCHANGED <<dpc, escritos>> /\ Carpeta[n] \in Carpetas
    BY <1>1, Lugares DEF Crea
  <2>1. \A c \in Carpetas : disco[c] # Ausente => disco'[c] = disco[c]
    BY <2>0 DEF Abre, Inv, TypeOK
  <2>2. \/ disco'[Destino(d)] = disco[Destino(d)]
        \/ disco[Destino(d)] = Ausente /\ disco'[Destino(d)] = << >>
    BY <1>0, <2>0 DEF Abre, Inv, TypeOK
  <2>3. Fuente(d)' <=> Fuente(d)
    BY <1>0, <1>1 DEF Crea, Fuente, Inv, TypeOK
  <2>4. Estado(d)' = Estado(d)
    BY <2>0 DEF Estado
  <2>5. Copiando(d)'
    <3>1. disco'[Origen(d)] = disco[Origen(d)]
      BY <1>0, <2>1, ContenidoTipo, NoAusente DEF Copiando
    <3>2. Casa(<< >>, 0, {})
      BY CasaVacia, ContenidoTipo
    <3>3. dpc[d] \in {"truncada", "conectada"} => disco'[Destino(d)] = disco[Destino(d)]
      BY <1>0, <2>1 DEF Inv, Conexion
    <3> QED BY <2>0, <2>2, <3>1, <3>2, <3>3 DEF Copiando
  <2>6. CASE disco'[Destino(d)] = disco[Destino(d)]
    BY <1>0, <2>3, <2>4, <2>5, <2>6, QuedaIgual DEF PasoCopia
  <2>7. CASE disco[Destino(d)] = Ausente /\ disco'[Destino(d)] = << >>
    <3>1. C(d)!Crea
      BY <2>3, <2>4, <2>7 DEF C!Crea, Fuente
    <3> QED BY <2>5, <3>1 DEF PasoCopia, C!Next
  <2> QED BY <2>2, <2>6, <2>7
<1>2. CASE Lanza(n) \/ Escucha(n) \/ NoEscucha(n) \/ CreaFalla(n)
  <2>1. UNCHANGED <<disco, dpc, escritos>>
    BY <1>2 DEF Lanza, Escucha, NoEscucha, CreaFalla
  <2>2. (Fuente(d)' <=> Fuente(d)) \/ ~Fuente(d)'
    BY <1>0, <1>2 DEF Lanza, Escucha, NoEscucha, CreaFalla, AcabaHilo, Fuente, Inv, TypeOK
  <2>3. Estado(d)' = Estado(d) /\ Copiando(d)'
    BY <2>1 DEF Estado, Copiando
  <2> QED BY <1>0, <2>1, <2>2, <2>3, QuedaIgual, CaeFuente DEF PasoCopia
<1>3. ASSUME NEW e \in Descargas,
             \/ DoAccept(e) \/ EmpiezaWrite(e) \/ Write(e) \/ AcabaWrite(e)
             \/ FinFichero(e) \/ WriteFalla(e)
      PROVE  PasoCopia(d) /\ Copiando(d)'
  <2>1. UNCHANGED <<disco, dpc, escritos>>
    BY <1>3 DEF DoAccept, EmpiezaWrite, Write, AcabaWrite, FinFichero, WriteFalla
  <2>2. (Fuente(d)' <=> Fuente(d)) \/ ~Fuente(d)'
    <3>1. CASE WriteFalla(e)
      BY <1>0, <3>1, Lugares DEF WriteFalla, AcabaHilo, Fuente, Inv, TypeOK
    <3>2. CASE \/ DoAccept(e) \/ EmpiezaWrite(e) \/ Write(e) \/ AcabaWrite(e) \/ FinFichero(e)
      BY <3>2 DEF DoAccept, EmpiezaWrite, Write, AcabaWrite, FinFichero, Fuente
    <3> QED BY <1>3, <3>1, <3>2
  <2>3. Estado(d)' = Estado(d) /\ Copiando(d)'
    BY <2>1 DEF Estado, Copiando
  <2> QED BY <1>0, <2>1, <2>2, <2>3, QuedaIgual, CaeFuente DEF PasoCopia
<1>4. CASE Sale(n) \/ Muere(n)
  <2>1. AcabaProceso(n) /\ AcabaHilo(n, "acabada") /\ disco' = disco
    BY <1>4 DEF Sale, Muere, AcabaProceso
  <2>2. Copiando(d)'
    BY <1>0, <2>1 DEF AcabaProceso, Copiando
  <2>3. CASE Quien[d] # n
    <3>1. dpc'[d] = dpc[d]
      BY <1>0, <2>1, <2>3 DEF AcabaProceso
    <3>2. Estado(d)' = Estado(d)
      BY <3>1 DEF Estado
    <3>3. (Fuente(d)' <=> Fuente(d)) \/ ~Fuente(d)'
      BY <1>0, <2>1 DEF AcabaHilo, Fuente, Inv, TypeOK
    <3> QED BY <1>0, <2>1, <2>2, <3>2, <3>3, QuedaIgual, CaeFuente DEF PasoCopia
  <2>4. CASE Quien[d] = n
    <3>1. Fuente(d)' <=> Fuente(d)
      BY <1>0, <2>1, <2>4 DEF AcabaHilo, Fuente, Inv, TypeOK
    <3>2. CASE dpc[d] \in {"truncada", "conectada"}
      <4>1. dpc'[d] = "muerta"
        BY <1>0, <2>1, <2>4, <3>2 DEF AcabaProceso
      <4>2. Estado(d) = "en_curso" /\ Estado(d)' = "rota"
        BY <3>2, <4>1, EstadoValor, EstadoValorP
      <4> QED BY <1>0, <2>1, <2>2, <3>1, <4>2, CopiaRompe DEF PasoCopia
    <3>3. CASE dpc[d] \notin {"truncada", "conectada"}
      <4>1. dpc'[d] = dpc[d]
        BY <1>0, <2>1, <3>3 DEF AcabaProceso
      <4>2. Estado(d)' = Estado(d)
        BY <4>1 DEF Estado
      <4> QED BY <1>0, <2>1, <2>2, <3>1, <4>2, QuedaIgual DEF PasoCopia
    <3> QED BY <3>2, <3>3
  <2> QED BY <2>3, <2>4
<1> QED BY <1>1, <1>2, <1>3, <1>4 DEF PasoHilo

LEMMA CopiaOtra ==
  ASSUME Inv, NEW d \in Propias, Copiando(d), NEW e \in Descargas, e # d,
         NoEmpieza(e) \/ Trunca(e) \/ PasoDescarga(e)
  PROVE  PasoCopia(d) /\ Copiando(d)'
<1> USE DEF servidora, conexion, descarga
<1>0. /\ d \in Descargas /\ Destino(d) \in Carpetas /\ Origen(d) \in Carpetas
      /\ Destino(e) # Destino(d) /\ Destino(e) # Origen(d) /\ Destino(e) \in Carpetas
  BY PropiaDe, Lugares
<1>1. hilo' = hilo /\ \A c \in Carpetas \ {Destino(e)} : disco'[c] = disco[c]
  <2>1. CASE NoEmpieza(e) \/ Trunca(e)
    BY <2>1 DEF NoEmpieza, Trunca, Inv, TypeOK
  <2>2. CASE Connect(e) \/ ConnectFalla(e) \/ DoWriteFalla(e) \/ FinDescarga(e)
    BY <2>2 DEF Connect, ConnectFalla, DoWriteFalla, FinDescarga
  <2>3. CASE DoWrite(e)
    BY <2>3 DEF DoWrite, Inv, TypeOK
  <2> QED BY <2>1, <2>2, <2>3 DEF PasoDescarga
<1>2. dpc'[d] = dpc[d] /\ escritos'[d] = escritos[d]
  BY <1>0, AjenaDescarga DEF Ajena
<1>3. disco'[Destino(d)] = disco[Destino(d)] /\ disco'[Origen(d)] = disco[Origen(d)]
  BY <1>0, <1>1
<1>4. Estado(d)' = Estado(d) /\ Copiando(d)' /\ (Fuente(d)' <=> Fuente(d))
  BY <1>1, <1>2, <1>3 DEF Estado, Copiando, Fuente
<1> QED BY <1>0, <1>3, <1>4, QuedaIgual DEF PasoCopia

\* do_write of a lone download: the file grows at its end.
LEMMA CopiaAvanza ==
  ASSUME Inv, Exactas, NEW d \in Propias, Copiando(d), DoWrite(d)
  PROVE  PasoCopia(d) /\ Copiando(d)'
<1>0. /\ d \in Descargas /\ Destino(d) \in Carpetas /\ Origen(d) \in Carpetas
      /\ Destino(d) # Origen(d) /\ Origen(d) \notin Destinos
  BY PropiaDe
<1>1. PICK k \in Nat : DoWriteK(d, k)
  BY <1>0, DoWritePick
<1> DEFINE f == disco[Destino(d)]
           g == SubSeq(canal[d], 1, k)
           p == escritos[d]
           h == Pon(f, p, g)
<1>2. /\ dpc[d] = "conectada" /\ dpc' = dpc /\ hilo' = hilo
      /\ disco' = [disco EXCEPT ![Destino(d)] = h]
      /\ canal[d] \in Seq(Unidades) /\ p \in Nat /\ k \in 1 .. Len(canal[d])
  BY <1>0, <1>1 DEF DoWriteK, Inv, TypeOK
<1>3. escritos'[d] = p + k /\ k >= 1
  BY <1>0, <1>1, DoWriteFlujo
<1>4. f # Ausente /\ f \in Seq(Unidades) /\ Casa(f, 0, {}) /\ Len(f) = p
  BY <1>0, <1>2 DEF Copiando, Inv, TypeOK, Conexion
<1>5. Casa(canal[d], p, {})
  BY <1>0, <1>2, ExactaDe DEF Copiando, FuenteBuena, Exacta, Inv, Conexion
<1>6. g \in Seq(Unidades) /\ Len(g) = k /\ Casa(g, p, {})
  BY <1>2, <1>5, CasaParte
<1>7. disco'[Destino(d)] = h /\ disco'[Origen(d)] = disco[Origen(d)]
  BY <1>0, <1>2 DEF Inv, TypeOK
<1> HIDE DEF f, g, p, h
<1>8. p <= Len(f)
  BY <1>2, <1>4
<1>9. h \in Seq(Unidades) /\ Casa(h, 0, {})
  BY <1>2, <1>4, <1>6, <1>8, PonValor, PonCasa DEF h
<1>10. Len(h) = p + k /\ \A i \in 1 .. Len(f) : h[i] = f[i]
  <2>1. /\ Len(h) = IF p + Len(g) > Len(f) THEN p + Len(g) ELSE Len(f)
        /\ \A i \in 1 .. Len(h) :
              h[i] = IF i > p /\ i <= p + Len(g) THEN g[i - p]
                     ELSE IF i <= Len(f) THEN f[i] ELSE Hueco
    BY <1>2, <1>4, <1>6, PonValor DEF h
  <2>2. Len(h) = p + k
    BY <1>2, <1>3, <1>4, <1>6, <2>1
  <2>3. ASSUME NEW i \in 1 .. Len(f) PROVE h[i] = f[i]
    <3>1. i \in 1 .. Len(h) /\ ~(i > p) /\ i <= Len(f)
      BY <1>2, <1>3, <1>4, <2>2
    <3> QED BY <2>1, <3>1
  <2> QED BY <2>2, <2>3
<1>11. Copiando(d)'
  BY <1>2, <1>3, <1>7, <1>9, <1>10 DEF Copiando
<1>12. f # h /\ Len(f) <= Len(h) /\ f = SubSeq(h, 1, Len(f))
  <2>1. Len(f) < Len(h)
    BY <1>2, <1>3, <1>4, <1>10
  <2>2. Len(f) <= Len(h)
    BY <1>2, <1>3, <1>4, <1>10
  <2>3. f = SubSeq(h, 1, Len(f))
    BY <1>4, <1>9, <1>10, <2>2, PrefijoEs
  <2>4. f # h
    BY <1>2, <1>4, <2>1
  <2> QED BY <2>2, <2>3, <2>4
<1>13. Len(h) <= Len(Contenido) /\ h = SubSeq(Contenido, 1, Len(h))
  BY <1>9, CasaEntera
<1>14. Estado(d) = "en_curso" /\ Estado(d)' = Estado(d) /\ (Fuente(d)' <=> Fuente(d))
  BY <1>2, EstadoValor, EstadoValorP DEF Fuente
<1>15. C(d)!Avanza
  BY <1>7, <1>12, <1>13, <1>14 DEF C!Avanza, C!EsPrefijo, Fuente, f
<1> QED BY <1>11, <1>15 DEF PasoCopia, C!Next

\* The end of a lone download: it has the whole file, unless the thread that
\* served it has ended.
LEMMA CopiaAcaba ==
  ASSUME Inv, Exactas, NEW d \in Propias, Copiando(d), FinDescarga(d)
  PROVE  PasoCopia(d) /\ Copiando(d)'
<1>0. /\ d \in Descargas /\ Destino(d) \in Carpetas /\ Origen(d) \notin Destinos
  BY PropiaDe
<1>1. /\ dpc[d] = "conectada" /\ canal[d] = << >> /\ srv[d] = "cerrada" /\ dpc'[d] = "acabada"
      /\ UNCHANGED <<disco, hilo>>
  BY <1>0 DEF FinDescarga, AcabaDescarga, Va, servidora, Inv, TypeOK
<1>2. Copiando(d)'
  BY <1>1 DEF Copiando
<1>3. Estado(d) = "en_curso" /\ Estado(d)' = "acabada"
  BY <1>1, EstadoValor, EstadoValorP
<1>4. disco[Destino(d)] = Contenido \/ ~Fuente(d)
  <2>1. CASE hilo[De[d]] = "escucha"
    <3>1. escritos[d] + Len(canal[d]) = Len(Contenido)
      BY <1>0, <1>1, <2>1, ExactaDe DEF Copiando, FuenteBuena, Exacta
    <3>2. escritos[d] = Len(Contenido)
      <4>1. Len(canal[d]) = 0 /\ escritos[d] \in Nat
        BY <1>0, <1>1, SeqVacia DEF Inv, TypeOK
      <4> QED BY <3>1, <4>1
    <3>3. /\ disco[Destino(d)] \in Seq(Unidades) /\ Casa(disco[Destino(d)], 0, {})
          /\ Len(disco[Destino(d)]) = Len(Contenido)
      BY <1>0, <1>1, <3>2 DEF Copiando, Inv, TypeOK, Conexion
    <3> QED BY <3>3, CasaEntera
  <2>2. CASE hilo[De[d]] # "escucha"
    BY <1>0, <1>1, <2>2 DEF Inv, Conexion, Fuente
  <2> QED BY <2>1, <2>2
<1>5. C(d)!Acaba
  BY <1>1, <1>3, <1>4 DEF C!Acaba, Fuente
<1> QED BY <1>2, <1>5 DEF PasoCopia, C!Next

LEMMA CopiaPropia ==
  ASSUME Inv, Inv', Exactas, NEW d \in Propias, Copiando(d),
         NoEmpieza(d) \/ Trunca(d) \/ PasoDescarga(d)
  PROVE  PasoCopia(d) /\ Copiando(d)'
<1> USE DEF servidora, conexion, descarga
<1>0. /\ d \in Descargas /\ Destino(d) \in Carpetas /\ Origen(d) \in Carpetas
      /\ Destino(d) # Origen(d)
  BY PropiaDe
<1>1. CASE NoEmpieza(d)
  <2>1. dpc[d] = "no" /\ dpc'[d] = "excepcion" /\ UNCHANGED <<disco, hilo, escritos>>
    BY <1>0, <1>1 DEF NoEmpieza, Va, Inv, TypeOK
  <2>2. Copiando(d)' /\ Estado(d) = "no" /\ Estado(d)' = "rota"
    BY <2>1, EstadoValor, EstadoValorP DEF Copiando
  <2>3. C(d)!Empieza
    BY <2>1, <2>2 DEF C!Empieza
  <2> QED BY <2>2, <2>3 DEF PasoCopia, C!Next
<1>2. CASE Trunca(d)
  <2>1. /\ dpc[d] = "no" /\ dpc'[d] = "truncada" /\ UNCHANGED <<hilo, escritos>>
        /\ disco'[Destino(d)] = << >> /\ disco'[Origen(d)] = disco[Origen(d)]
    BY <1>0, <1>2 DEF Trunca, Va, Inv, TypeOK
  <2>2. Estado(d) = "no" /\ Estado(d)' = "en_curso"
    BY <2>1, EstadoValor, EstadoValorP
  <2>3. C(d)!Empieza
    BY <2>1, <2>2 DEF C!Empieza
  <2>4. Copiando(d)'
    <3>1. Casa(<< >>, 0, {}) /\ Len(<< >>) = 0
      BY CasaVacia, ContenidoTipo, SeqVacia
    <3>2. escritos'[d] = 0
      BY <1>0, <2>1 DEF Inv, Flujo
    <3> QED BY <2>1, <3>1, <3>2 DEF Copiando
  <2> QED BY <2>3, <2>4 DEF PasoCopia, C!Next
<1>3. CASE Connect(d)
  <2>1. /\ dpc[d] = "truncada" /\ dpc'[d] = "conectada" /\ UNCHANGED <<disco, hilo, escritos>>
    BY <1>0, <1>3 DEF Connect, Va, Inv, TypeOK
  <2>2. Copiando(d)' /\ Estado(d) = "en_curso" /\ Estado(d)' = "en_curso" /\ (Fuente(d)' <=> Fuente(d))
    BY <2>1, EstadoValor, EstadoValorP DEF Copiando, Fuente
  <2> QED BY <1>0, <2>1, <2>2, QuedaIgual DEF PasoCopia
<1>4. CASE ConnectFalla(d) \/ DoWriteFalla(d)
  <2>1. /\ dpc[d] \in {"truncada", "conectada"} /\ dpc'[d] = "excepcion"
        /\ UNCHANGED <<disco, hilo>>
    BY <1>0, <1>4 DEF ConnectFalla, DoWriteFalla, AcabaDescarga, Va, Inv, TypeOK
  <2>2. Copiando(d)' /\ Estado(d) = "en_curso" /\ Estado(d)' = "rota" /\ (Fuente(d)' <=> Fuente(d))
    BY <2>1, EstadoValor, EstadoValorP DEF Copiando, Fuente
  <2> QED BY <1>0, <2>1, <2>2, CopiaRompe DEF PasoCopia
<1>5. CASE DoWrite(d)
  BY <1>5, CopiaAvanza
<1>6. CASE FinDescarga(d)
  BY <1>6, CopiaAcaba
<1> QED BY <1>1, <1>2, <1>3, <1>4, <1>5, <1>6 DEF PasoDescarga

Copian == \A d \in Propias : Copiando(d)

LEMMA CopiaInicio ==
  ASSUME Init
  PROVE  Copian /\ \A d \in Propias : C(d)!Init
<1> SUFFICES ASSUME NEW d \in Propias PROVE Copiando(d) /\ C(d)!Init
  BY DEF Copian
<1>1. /\ d \in Descargas /\ Destino(d) \in Carpetas /\ Origen(d) \in Carpetas
      /\ Origen(d) \in Completas /\ De[d] \in Nodos
  BY PropiaDe
<1>2. /\ disco[Destino(d)] \in {Ausente, Contenido} /\ disco[Origen(d)] = Contenido
      /\ dpc[d] = "no" /\ hilo[De[d]] = "no"
  BY <1>1 DEF Init
<1>3. Casa(Contenido, 0, {})
  BY ContenidoTipo DEF Casa
<1>4. Estado(d) = "no"
  BY <1>2, EstadoValor
<1> QED BY <1>2, <1>3, <1>4 DEF Copiando, C!Init

LEMMA CopiaPaso ==
  ASSUME Inv, Exactas, Copian, [Next]_vars
  PROVE  Copian' /\ [\A d \in Propias : C(d)!Next \/ UNCHANGED C(d)!vars]_vars
<1>1. CASE UNCHANGED vars
  BY <1>1 DEF vars, servidora, conexion, descarga, Copian, Copiando
<1>2. CASE Next
  <2>1. Inv'
    BY PasoInv
  <2>2. ASSUME NEW d \in Propias PROVE PasoCopia(d) /\ Copiando(d)'
    <3>1. Copiando(d)
      BY DEF Copian
    <3>2. ASSUME NEW n \in Nodos, Lanza(n) \/ PasoHilo(n) \/ Sale(n) \/ Muere(n)
          PROVE  PasoCopia(d) /\ Copiando(d)'
      BY <3>1, <3>2, CopiaServidora
    <3>3. ASSUME NEW e \in Descargas, NoEmpieza(e) \/ Trunca(e) \/ PasoDescarga(e)
          PROVE  PasoCopia(d) /\ Copiando(d)'
      <4>1. CASE e = d
        BY <2>1, <3>1, <3>3, <4>1, CopiaPropia
      <4>2. CASE e # d
        BY <3>1, <3>3, <4>2, CopiaOtra
      <4> QED BY <4>1, <4>2
    <3> QED BY <1>2, <3>2, <3>3 DEF Next
  <2> QED BY <2>2 DEF Copian, PasoCopia
<1> QED BY <1>1, <1>2

\* A download that is alone in its folder and reads from one nobody writes
\* to implements Copia, whatever else the processes do: at every moment its
\* file is a beginning of the remote one and only grows, and when the thread
\* ends without an exception while its server is up, it is all of it.
THEOREM CopiaImplementada == Spec => ImplementaCopia
<1>1. Init => Copian /\ \A d \in Propias : C(d)!Init
  BY CopiaInicio
<1>2. Inv /\ Exactas /\ Copian /\ [Next]_vars
        => Copian' /\ [\A d \in Propias : C(d)!Next \/ UNCHANGED C(d)!vars]_vars
  BY CopiaPaso
<1> QED BY <1>1, <1>2, ExactasSiempre, PTL DEF Spec, ImplementaCopia
=============================================================================
