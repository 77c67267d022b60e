------------------------ MODULE TransferenciaProofs ------------------------
(***************************************************************************)
(* What a transfer does to the files, for any number of processes, folders *)
(* and downloads, any file and any sizes of the two buffers.               *)
(***************************************************************************)
EXTENDS Transferencia, SequenceTheorems, TLAPS

USE DEF Fin

----------------------------------------------------------------------------
(* Sequences of units and the place in the file where they belong.         *)

\* f holds the units of Contenido from offset p on, or units of H instead:
\* H is {Hueco} where holes are possible and {} where there are none.
Casa(f, p, H) ==
    /\ p + Len(f) <= Len(Contenido)
    /\ \A i \in 1 .. Len(f) : f[i] \in {Contenido[p + i]} \cup H

LEMMA ContenidoTipo ==
  /\ Contenido \in Seq(Unidades)
  /\ Len(Contenido) \in Nat
  /\ Hueco \in Unidades
  /\ \A i \in 1 .. Len(Contenido) : Contenido[i] \in Unidades
<1> DEFINE T == { Contenido[i] : i \in DOMAIN Contenido }
<1>1. Contenido \in Seq(T) /\ T \subseteq Unidades
  BY TransferenciaAssumption DEF Unidades
<1>2. Contenido \in Seq(Unidades)
  BY <1>1, SeqMonotonic
<1> QED BY <1>2, LenProperties, ElementOfSeq DEF Unidades

LEMMA CasaVacia ==
  ASSUME NEW p \in Nat, NEW H, p <= Len(Contenido)
  PROVE  Casa(<< >>, p, H)
BY ContenidoTipo DEF Casa

LEMMA CasaAMenos ==
  ASSUME NEW f, NEW p, NEW H, NEW K, H \subseteq K, Casa(f, p, H)
  PROVE  Casa(f, p, K)
BY DEF Casa

\* Taking the first unit.
LEMMA CasaTail ==
  ASSUME NEW f \in Seq(Unidades), f # << >>, NEW p \in Nat, NEW H, Casa(f, p, H)
  PROVE  /\ Tail(f) \in Seq(Unidades) /\ Head(f) \in Unidades
         /\ Len(Tail(f)) = Len(f) - 1 /\ Len(f) \in Nat \ {0}
         /\ Casa(Tail(f), p + 1, H)
         /\ Head(f) \in {Contenido[p + 1]} \cup H
<1>1. /\ Tail(f) \in Seq(Unidades) /\ Head(f) \in Unidades
      /\ Len(Tail(f)) = Len(f) - 1 /\ Len(f) \in Nat \ {0}
      /\ \A i \in 1 .. Len(Tail(f)) : Tail(f)[i] = f[i + 1]
      /\ Head(f) = f[1]
  BY HeadTailProperties, EmptySeq
<1>2. Casa(Tail(f), p + 1, H)
  <2>1. (p + 1) + Len(Tail(f)) <= Len(Contenido)
    BY <1>1, ContenidoTipo DEF Casa
  <2>2. ASSUME NEW i \in 1 .. Len(Tail(f))
        PROVE  Tail(f)[i] \in {Contenido[(p + 1) + i]} \cup H
    <3>1. i + 1 \in 1 .. Len(f) /\ p + (i + 1) = (p + 1) + i
      BY <1>1
    <3>2. f[i + 1] \in {Contenido[p + (i + 1)]} \cup H
      BY <3>1 DEF Casa
    <3> QED BY <1>1, <3>1, <3>2
  <2> QED BY <2>1, <2>2 DEF Casa
<1> QED BY <1>1, <1>2 DEF Casa

\* One unit more at the end.
LEMMA CasaAppend ==
  ASSUME NEW f \in Seq(Unidades), NEW p \in Nat, NEW H, Casa(f, p, H), NEW x \in Unidades,
         p + Len(f) < Len(Contenido), x \in {Contenido[p + Len(f) + 1]} \cup H
  PROVE  /\ Append(f, x) \in Seq(Unidades) /\ Len(Append(f, x)) = Len(f) + 1
         /\ Casa(Append(f, x), p, H)
<1>1. /\ Append(f, x) \in Seq(Unidades) /\ Len(Append(f, x)) = Len(f) + 1 /\ Len(f) \in Nat
      /\ \A i \in 1 .. Len(f) : Append(f, x)[i] = f[i]
      /\ Append(f, x)[Len(f) + 1] = x
  BY AppendProperties, LenProperties
<1>2. ASSUME NEW i \in 1 .. Len(f) + 1
      PROVE  Append(f, x)[i] \in {Contenido[p + i]} \cup H
  <2>1. CASE i \in 1 .. Len(f)
    BY <1>1, <2>1 DEF Casa
  <2>2. CASE i = Len(f) + 1
    <3>1. p + i = p + Len(f) + 1
      BY <1>1, <2>2
    <3> QED BY <1>1, <2>2, <3>1
  <2> QED BY <1>1, <2>1, <2>2
<1> QED BY <1>1, <1>2, ContenidoTipo DEF Casa

\* The first k units and the rest.
LEMMA CasaParte ==
  ASSUME NEW f \in Seq(Unidades), NEW p \in Nat, NEW H, Casa(f, p, H), NEW k \in 1 .. Len(f)
  PROVE  /\ SubSeq(f, 1, k) \in Seq(Unidades) /\ Len(SubSeq(f, 1, k)) = k
         /\ Casa(SubSeq(f, 1, k), p, H)
         /\ SubSeq(f, k + 1, Len(f)) \in Seq(Unidades)
         /\ Len(SubSeq(f, k + 1, Len(f))) = Len(f) - k
         /\ Casa(SubSeq(f, k + 1, Len(f)), p + k, H)
<1> DEFINE a == SubSeq(f, 1, k)
           b == SubSeq(f, k + 1, Len(f))
<1>1. Len(f) \in Nat /\ \A i \in 1 .. Len(f) : f[i] \in Unidades
  BY LenProperties, ElementOfSeq
<1>2. a \in Seq(Unidades) /\ Len(a) = k /\ \A i \in 1 .. k : a[i] = f[i]
  <2>1. /\ a \in Seq(Unidades) /\ Len(a) = IF 1 <= k THEN k - 1 + 1 ELSE 0
        /\ \A i \in 1 .. k - 1 + 1 : a[i] = f[1 + i - 1]
    <3>1. \A i \in 1 .. k : f[i] \in Unidades
      BY <1>1
    <3> QED BY <3>1, SubSeqProperties
  <2> QED BY <2>1
<1>3. b \in Seq(Unidades) /\ Len(b) = Len(f) - k /\ \A i \in 1 .. Len(f) - k : b[i] = f[k + i]
  <2>1. /\ b \in Seq(Unidades) /\ Len(b) = IF k + 1 <= Len(f) THEN Len(f) - (k + 1) + 1 ELSE 0
        /\ \A i \in 1 .. Len(f) - (k + 1) + 1 : b[i] = f[(k + 1) + i - 1]
    <3>1. \A i \in k + 1 .. Len(f) : f[i] \in Unidades
      BY <1>1
    <3>2. k + 1 \in Int /\ Len(f) \in Int
      BY <1>1
    <3> QED BY <3>1, <3>2, SubSeqProperties
  <2> HIDE DEF b
  <2>2. \A i \in 1 .. Len(f) - k : (k + 1) + i - 1 = k + i
    BY <1>1
  <2>3. Len(f) - (k + 1) + 1 = Len(f) - k
    BY <1>1
  <2>4. Len(b) = Len(f) - k
    BY <1>1, <2>1
  <2> QED BY <2>1, <2>2, <2>3, <2>4
<1> HIDE DEF a, b
<1>4. Casa(a, p, H)
  BY <1>1, <1>2, ContenidoTipo DEF Casa
<1>5. Casa(b, p + k, H)
  <2>1. (p + k) + Len(b) <= Len(Contenido)
    BY <1>1, <1>3, ContenidoTipo DEF Casa
  <2>2. ASSUME NEW i \in 1 .. Len(b)
        PROVE  b[i] \in {Contenido[(p + k) + i]} \cup H
    <3>1. k + i \in 1 .. Len(f) /\ p + (k + i) = (p + k) + i /\ b[i] = f[k + i]
      BY <1>1, <1>3
    <3>2. f[k + i] \in {Contenido[p + (k + i)]} \cup H
      BY <3>1 DEF Casa
    <3> QED BY <3>1, <3>2
  <2> QED BY <2>1, <2>2 DEF Casa
<1> QED BY <1>2, <1>3, <1>4, <1>5 DEF a, b

\* A read at offset p returns units that belong there, nothing only at the
\* end of the file or past it.
LEMMA TrozoCasa ==
  ASSUME NEW f \in Seq(Unidades), NEW H, Casa(f, 0, H), NEW p \in Nat, p <= Len(Contenido)
  PROVE  /\ Trozo(f, p) \in Seq(Unidades) /\ Len(Trozo(f, p)) \in Nat
         /\ Casa(Trozo(f, p), p, H)
         /\ Trozo(f, p) = << >> => Len(f) <= p
<1> DEFINE q == Menor(p + Tam, Len(f))
           t == Trozo(f, p)
<1>1. Len(f) \in Nat /\ Tam \in Nat \ {0} /\ \A i \in 1 .. Len(f) : f[i] \in Unidades
  BY LenProperties, ElementOfSeq, TransferenciaAssumption
<1>2. q \in Nat /\ q <= Len(f) /\ (Len(f) > p => q > p)
  BY <1>1 DEF Menor
<1>3. /\ t \in Seq(Unidades) /\ Len(t) = IF p + 1 <= q THEN q - (p + 1) + 1 ELSE 0
      /\ \A i \in 1 .. q - (p + 1) + 1 : t[i] = f[(p + 1) + i - 1]
  <2> HIDE DEF q
  <2>1. \A i \in p + 1 .. q : f[i] \in Unidades
    BY <1>1, <1>2
  <2>2. p + 1 \in Int /\ q \in Int
    BY <1>2
  <2>3. t = SubSeq(f, p + 1, q)
    BY DEF Trozo, q
  <2> HIDE DEF t
  <2> QED BY <2>1, <2>2, <2>3, SubSeqProperties
<1> HIDE DEF t, q
<1>4. Len(t) \in Nat /\ (Len(t) = IF p + 1 <= q THEN q - p ELSE 0)
  BY <1>2, <1>3
<1>5. ASSUME NEW i \in 1 .. Len(t) PROVE t[i] \in {Contenido[p + i]} \cup H
  <2>1. p + i \in 1 .. Len(f) /\ (p + 1) + i - 1 = p + i /\ i \in 1 .. q - (p + 1) + 1
    BY <1>1, <1>2, <1>4
  <2>2. t[i] = f[p + i] /\ 0 + (p + i) = p + i
    BY <1>3, <2>1
  <2> QED BY <2>1, <2>2 DEF Casa
<1>6. p + Len(t) <= Len(Contenido)
  BY <1>1, <1>2, <1>4, ContenidoTipo DEF Casa
<1>7. t = << >> => Len(f) <= p
  <2>1. t = << >> => Len(t) = 0
    BY EmptySeq
  <2> QED BY <1>1, <1>2, <1>4, <2>1
<1> QED BY <1>3, <1>4, <1>5, <1>6, <1>7 DEF Casa, t

\* What a write at offset p leaves in the file.
LEMMA PonValor ==
  ASSUME NEW f \in Seq(Unidades), NEW g \in Seq(Unidades), NEW p \in Nat
  PROVE  LET h == Pon(f, p, g)
         IN /\ h \in Seq(Unidades)
            /\ Len(h) = IF p + Len(g) > Len(f) THEN p + Len(g) ELSE Len(f)
            /\ \A i \in 1 .. Len(h) :
                  h[i] = IF i > p /\ i <= p + Len(g) THEN g[i - p]
                         ELSE IF i <= Len(f) THEN f[i] ELSE Hueco
<1> DEFINE m == IF p + Len(g) > Len(f) THEN p + Len(g) ELSE Len(f)
           e(i) == IF i > p /\ i <= p + Len(g) THEN g[i - p]
                   ELSE IF i <= Len(f) THEN f[i] ELSE Hueco
           h == [i \in 1 .. m |-> e(i)]
<1>1. /\ Len(f) \in Nat /\ \A i \in 1 .. Len(f) : f[i] \in Unidades
      /\ Len(g) \in Nat /\ \A i \in 1 .. Len(g) : g[i] \in Unidades
  BY LenProperties, ElementOfSeq
<1>2. m \in Nat /\ Hueco \in Unidades
  BY <1>1, ContenidoTipo
<1>3. ASSUME NEW i \in 1 .. m PROVE e(i) \in Unidades
  <2>1. i > p /\ i <= p + Len(g) => i - p \in 1 .. Len(g)
    BY <1>1, <1>2
  <2>2. i <= Len(f) => i \in 1 .. Len(f)
    BY <1>1, <1>2
  <2> QED BY <1>1, <1>2, <2>1, <2>2
<1> HIDE DEF m, e
<1>4. h \in Seq(Unidades) /\ Len(h) = m /\ \A i \in 1 .. m : h[i] = e(i)
  <2>1. h \in [1 .. m -> Unidades]
    BY <1>3
  <2>2. h \in Seq(Unidades)
    BY <1>2, <2>1
  <2>3. Len(h) = m
    BY <1>2, <2>1, <2>2, LenProperties
  <2> QED BY <2>2, <2>3
<1>5. Pon(f, p, g) = h
  BY DEF Pon, m, e
<1> QED BY <1>4, <1>5 DEF m, e

\* A write of units where they belong keeps the file one whose units are
\* where they belong; a gap before them is filled with holes.
LEMMA PonCasa ==
  ASSUME NEW f \in Seq(Unidades), NEW g \in Seq(Unidades), NEW p \in Nat, NEW H,
         Casa(f, 0, H), Casa(g, p, H), Hueco \in H \/ p <= Len(f)
  PROVE  Casa(Pon(f, p, g), 0, H)
<1> DEFINE h == Pon(f, p, g)
<1>1. /\ Len(h) = IF p + Len(g) > Len(f) THEN p + Len(g) ELSE Len(f)
      /\ \A i \in 1 .. Len(h) :
            h[i] = IF i > p /\ i <= p + Len(g) THEN g[i - p]
                   ELSE IF i <= Len(f) THEN f[i] ELSE Hueco
  BY PonValor
<1>2. Len(f) \in Nat /\ Len(g) \in Nat
  BY LenProperties
<1> HIDE DEF h
<1>3. 0 + Len(h) <= Len(Contenido) /\ Len(h) \in Nat
  BY <1>1, <1>2, ContenidoTipo DEF Casa
<1>4. ASSUME NEW i \in 1 .. Len(h) PROVE h[i] \in {Contenido[0 + i]} \cup H
  <2>0. 0 + i = i /\ i \in Nat \ {0}
    BY <1>3
  <2>1. CASE i > p /\ i <= p + Len(g)
    <3>1. i - p \in 1 .. Len(g) /\ p + (i - p) = i
      BY <1>2, <2>0, <2>1
    <3>2. g[i - p] \in {Contenido[p + (i - p)]} \cup H
      BY <3>1 DEF Casa
    <3> QED BY <1>1, <2>0, <2>1, <3>1, <3>2
  <2>2. CASE ~(i > p /\ i <= p + Len(g)) /\ i <= Len(f)
    <3>1. i \in 1 .. Len(f)
      BY <1>2, <2>0, <2>2
    <3> QED BY <1>1, <2>0, <2>2, <3>1 DEF Casa
  <2>3. CASE ~(i > p /\ i <= p + Len(g)) /\ ~(i <= Len(f))
    <3>1. h[i] = Hueco
      BY <1>1, <2>3
    <3>2. ~(p <= Len(f))
      BY <1>1, <1>2, <2>0, <2>3
    <3> QED BY <3>1, <3>2
  <2> QED BY <2>1, <2>2, <2>3
<1> QED BY <1>3, <1>4 DEF Casa, h

----------------------------------------------------------------------------
(* The inductive invariant.                                                *)

Ficheros == \A c \in Carpetas : disco[c] # Ausente => Casa(disco[c], 0, {Hueco})

\* What the server has read ahead belongs before its offset, what is in the
\* socket after the offset of the download, and as long as both ends are up
\* nothing is missing between the two.
Flujo(d) ==
    /\ Len(datos[d]) <= leidos[d]
    /\ Casa(datos[d], leidos[d] - Len(datos[d]), {Hueco})
    /\ Casa(canal[d], escritos[d], {Hueco})
    /\ srv[d] \in {"no", "cola"} =>
         leidos[d] = 0 /\ datos[d] = << >> /\ canal[d] = << >> /\ escritos[d] = 0
    /\ dpc[d] # "conectada" => canal[d] = << >> /\ escritos[d] = 0
    /\ dpc[d] = "conectada" /\ srv[d] = "leida" =>
         escritos[d] + Len(canal[d]) + Len(datos[d]) = leidos[d]

\* Which states of the two ends of a connection go together, and with which
\* files.
Conexion(d) ==
    /\ dpc[d] \in {"no", "truncada"} => srv[d] = "no"
    /\ dpc[d] = "conectada" => srv[d] # "no"
    /\ dpc[d] = "acabada" => srv[d] = "cerrada"
    /\ srv[d] # "no" => hilo[De[d]] \in {"escucha"} \cup Fin
    /\ srv[d] = "leida" => disco[Origen(d)] # Ausente
    /\ srv[d] \in {"cola", "leida"} => hilo[De[d]] = "escucha"
    /\ dpc[d] \in {"truncada", "conectada", "acabada"} => disco[Destino(d)] # Ausente

Hilos ==
    \A n \in Nodos :
       /\ n \in listo => hilo[n] = "escucha" /\ disco[Carpeta[n]] # Ausente
       /\ ocupado[n] # Nadie => De[ocupado[n]] = n /\ srv[ocupado[n]] = "leida"

Inv ==
    /\ TypeOK
    /\ Ficheros
    /\ Hilos
    /\ \A d \in Descargas : Flujo(d) /\ Conexion(d)

LEMMA Lugares ==
  /\ \A n \in Nodos : Carpeta[n] \in Carpetas
  /\ \A d \in Descargas : /\ Quien[d] \in Nodos /\ De[d] \in Nodos
                          /\ Destino(d) \in Carpetas /\ Origen(d) \in Carpetas
BY TransferenciaAssumption DEF Carpetas, Destino, Origen

LEMMA NoAusente == \A f \in Seq(Unidades) : f # Ausente
BY TransferenciaAssumption

LEMMA SeqVacia == << >> \in Seq(Unidades) /\ Len(<< >>) = 0
BY EmptySeq

LEMMA InitInv == Init => Inv
<1> SUFFICES ASSUME Init PROVE Inv
  OBVIOUS
<1>0. /\ << >> \in Seq(Unidades) /\ Len(<< >>) = 0
      /\ \A p \in Nat : p <= Len(Contenido) => Casa(<< >>, p, {Hueco})
  BY CasaVacia, SeqVacia
<1>1. TypeOK
  BY <1>0, ContenidoTipo, TransferenciaAssumption DEF Init, TypeOK
<1>2. Casa(Contenido, 0, {Hueco})
  BY ContenidoTipo DEF Casa
<1>3. Ficheros
  BY <1>2 DEF Init, Ficheros
<1>4. Hilos
  BY DEF Init, Hilos
<1>5. \A d \in Descargas : Flujo(d)
  <2>1. Casa(<< >>, 0, {Hueco}) /\ 0 - 0 = 0
    BY CasaVacia, ContenidoTipo
  <2> QED BY <1>0, <2>1 DEF Init, Flujo
<1>6. \A d \in Descargas : Conexion(d)
  BY DEF Init, Conexion
<1> QED BY <1>1, <1>3, <1>4, <1>5, <1>6 DEF Inv

\* A connection whose variables do not change keeps what is said of its data.
LEMMA FlujoIgual ==
  ASSUME NEW e \in Descargas, Flujo(e),
         datos'[e] = datos[e], leidos'[e] = leidos[e], canal'[e] = canal[e],
         escritos'[e] = escritos[e], srv'[e] = srv[e], dpc'[e] = dpc[e]
  PROVE  Flujo(e)'
BY DEF Flujo

----------------------------------------------------------------------------
(* The steps of the serving thread.                                        *)

LEMMA LanzaInv ==
  ASSUME Inv, NEW n \in Nodos, Lanza(n) \/ Escucha(n) \/ NoEscucha(n)
  PROVE  Inv'
<1> USE DEF conexion, descarga
<1>1. /\ hilo[n] \in {"no", "arranca"}
      /\ \E v \in {"arranca", "escucha", "acabada"} : hilo' = [hilo EXCEPT ![n] = v]
      /\ UNCHANGED <<vivos, disco, listo, ocupado, srv, datos, leidos, canal, dpc, escritos>>
  BY DEF Lanza, Escucha, NoEscucha
<1>2. TypeOK'
  BY <1>1 DEF Inv, TypeOK
<1>3. Ficheros' /\ \A d \in Descargas : Flujo(d)'
  BY <1>1 DEF Inv, Ficheros, Flujo
<1>4. Hilos'
  BY <1>1 DEF Inv, TypeOK, Hilos
<1>5. ASSUME NEW d \in Descargas PROVE Conexion(d)'
  BY <1>1, Lugares DEF Inv, TypeOK, Conexion
<1> QED BY <1>2, <1>3, <1>4, <1>5 DEF Inv

LEMMA CreaInv ==
  ASSUME Inv, NEW n \in Nodos, Crea(n)
  PROVE  Inv'
<1> USE DEF conexion, descarga
<1> DEFINE c == Carpeta[n]
<1>0. c \in Carpetas /\ << >> \in Seq(Unidades) /\ Casa(<< >>, 0, {Hueco})
  BY Lugares, SeqVacia, CasaVacia, ContenidoTipo
<1>1. Abre(disco[c]) \in Seq(Unidades) /\ Casa(Abre(disco[c]), 0, {Hueco})
  BY <1>0 DEF Abre, Inv, TypeOK, Ficheros
<1>2. /\ disco' = [disco EXCEPT ![c] = Abre(disco[c])]
      /\ disco'[c] # Ausente /\ \A k \in Carpetas : disco[k] # Ausente => disco'[k] # Ausente
      /\ \A k \in Carpetas \ {c} : disco'[k] = disco[k]
      /\ disco'[c] = Abre(disco[c])
  BY <1>0, <1>1, NoAusente DEF Crea, Inv, TypeOK
<1> HIDE DEF c
<1>3. TypeOK'
  BY <1>1, <1>2 DEF Inv, TypeOK, Crea
<1>4. Ficheros'
  BY <1>0, <1>1, <1>2 DEF Inv, Ficheros
<1>5. Hilos'
  BY <1>2, Lugares DEF Inv, TypeOK, Hilos, Crea, c
<1>6. ASSUME NEW d \in Descargas PROVE Flujo(d)' /\ Conexion(d)'
  <2>1. Flujo(d)'
    BY DEF Inv, Flujo, Crea
  <2>2. Conexion(d)'
    BY <1>2, Lugares DEF Inv, TypeOK, Conexion, Crea
  <2> QED BY <2>1, <2>2
<1> QED BY <1>3, <1>4, <1>5, <1>6 DEF Inv

\* do_read: the piece belongs after the offset it was read at.
LEMMA DoReadFlujo ==
  ASSUME Inv, NEW d \in Descargas, datos[d] = << >>, disco[Origen(d)] # Ausente, DoRead(d)
  PROVE  /\ datos' \in [Descargas -> Seq(Unidades)] /\ leidos' \in [Descargas -> Nat]
         /\ leidos'[d] = leidos[d] + Len(datos'[d])
         /\ Casa(datos'[d], leidos[d], {Hueco})
         /\ datos'[d] = Trozo(disco[Origen(d)], leidos[d])
         /\ \A e \in Descargas \ {d} : datos'[e] = datos[e] /\ leidos'[e] = leidos[e]
<1> DEFINE f == disco[Origen(d)]
           t == Trozo(f, leidos[d])
<1>1. f \in Seq(Unidades) /\ Casa(f, 0, {Hueco})
  BY Lugares DEF Inv, TypeOK, Ficheros
<1>2. leidos[d] \in Nat /\ leidos[d] <= Len(Contenido)
  BY SeqVacia, ContenidoTipo DEF Inv, TypeOK, Flujo, Casa
<1>3. t \in Seq(Unidades) /\ Len(t) \in Nat /\ Casa(t, leidos[d], {Hueco})
  BY <1>1, <1>2, TrozoCasa
<1>4. /\ datos' = [datos EXCEPT ![d] = t]
      /\ leidos' = [leidos EXCEPT ![d] = leidos[d] + Len(t)]
  BY DEF DoRead
<1> HIDE DEF t
<1>5. datos'[d] = t /\ leidos'[d] = leidos[d] + Len(t)
  BY <1>4 DEF Inv, TypeOK
<1> QED BY <1>2, <1>3, <1>4, <1>5 DEF Inv, TypeOK, t

\* A thread that accepts has opened the file.
LEMMA AceptaDe ==
  ASSUME Inv, NEW d \in Descargas, Libre(De[d])
  PROVE  disco[Origen(d)] # Ausente
BY Lugares DEF Libre, Inv, Hilos, Origen

LEMMA DoAcceptInv ==
  ASSUME Inv, NEW d \in Descargas, DoAccept(d)
  PROVE  Inv'
<1> USE DEF servidora, descarga
<1>0. /\ srv[d] = "cola" /\ datos[d] = << >> /\ disco[Origen(d)] # Ausente /\ leidos[d] = 0
      /\ canal[d] = << >> /\ escritos[d] = 0
  BY AceptaDe DEF DoAccept, Inv, Flujo
<1>1. /\ datos' \in [Descargas -> Seq(Unidades)] /\ leidos' \in [Descargas -> Nat]
      /\ leidos'[d] = leidos[d] + Len(datos'[d])
      /\ Casa(datos'[d], leidos[d], {Hueco})
      /\ \A e \in Descargas \ {d} : datos'[e] = datos[e] /\ leidos'[e] = leidos[e]
  BY <1>0, DoReadFlujo DEF DoAccept
<1>2. /\ srv' = [srv EXCEPT ![d] = "leida"] /\ srv'[d] = "leida"
      /\ \A e \in Descargas \ {d} : srv'[e] = srv[e]
      /\ listo' \subseteq listo
      /\ UNCHANGED <<vivos, disco, hilo, ocupado, canal, dpc, escritos>>
  BY DEF DoAccept, Inv, TypeOK
<1>3. TypeOK'
  BY <1>1, <1>2 DEF Inv, TypeOK
<1>4. Ficheros'
  BY <1>2 DEF Inv, Ficheros
<1>5. Hilos'
  BY <1>0, <1>2 DEF Inv, TypeOK, Hilos
<1>6. ASSUME NEW e \in Descargas PROVE Flujo(e)'
  <2>1. CASE e = d
    <3>1. Len(datos'[d]) \in Nat /\ leidos'[d] = Len(datos'[d])
          /\ leidos'[d] - Len(datos'[d]) = leidos[d]
      BY <1>0, <1>1, LenProperties
    <3>2. canal'[d] = << >> /\ escritos'[d] = 0 /\ Casa(canal'[d], escritos'[d], {Hueco})
      BY <1>0, <1>2, CasaVacia, ContenidoTipo
    <3>3. Casa(datos'[d], leidos'[d] - Len(datos'[d]), {Hueco})
      BY <1>1, <3>1
    <3>4. escritos'[d] + Len(canal'[d]) + Len(datos'[d]) = leidos'[d]
      BY <3>1, <3>2, SeqVacia
    <3> QED BY <1>2, <2>1, <3>1, <3>2, <3>3, <3>4 DEF Flujo
  <2>2. CASE e # d
    BY <1>1, <1>2, <2>2, FlujoIgual DEF Inv
  <2> QED BY <2>1, <2>2
<1>7. ASSUME NEW e \in Descargas PROVE Conexion(e)'
  BY <1>0, <1>2 DEF Inv, Conexion
<1> QED BY <1>3, <1>4, <1>5, <1>6, <1>7 DEF Inv

LEMMA EmpiezaWriteInv ==
  ASSUME Inv, NEW d \in Descargas, EmpiezaWrite(d)
  PROVE  Inv'
<1> USE DEF conexion, descarga
<1>1. /\ srv[d] = "leida" /\ ocupado' = [ocupado EXCEPT ![De[d]] = d]
      /\ UNCHANGED <<vivos, disco, hilo, listo, srv, datos, leidos, canal, dpc, escritos>>
  BY DEF EmpiezaWrite
<1>2. TypeOK'
  BY <1>1 DEF Inv, TypeOK
<1>3. Ficheros' /\ \A e \in Descargas : Flujo(e)' /\ Conexion(e)'
  BY <1>1 DEF Inv, Ficheros, Flujo, Conexion
<1>4. Hilos'
  BY <1>1 DEF Inv, TypeOK, Hilos
<1> QED BY <1>2, <1>3, <1>4 DEF Inv

\* The thread that blocks in write for d is d's.
LEMMA OcupadoDe ==
  ASSUME Inv, NEW d \in Descargas, ocupado[De[d]] = d
  PROVE  srv[d] = "leida" /\ hilo[De[d]] = "escucha" /\ disco[Origen(d)] # Ausente
<1>1. De[d] \in Nodos /\ d # Nadie
  BY Lugares, TransferenciaAssumption
<1>2. srv[d] = "leida"
  BY <1>1 DEF Inv, Hilos
<1> QED BY <1>2 DEF Inv, Conexion

LEMMA UnaMas ==
  ASSUME NEW a \in Nat, NEW b \in Nat, NEW c \in Nat, NEW l \in Nat, a + b = l - c
  PROVE  a + (b + 1) + (c - 1) = l
OBVIOUS

\* One unit goes from datos to the socket: it belongs after what is there.
LEMMA WriteFlujo ==
  ASSUME Inv, NEW d \in Descargas, Write(d)
  PROVE  /\ datos' = [datos EXCEPT ![d] = Tail(datos[d])]
         /\ Tail(datos[d]) \in Seq(Unidades)
         /\ canal'[d] \in Seq(Unidades) /\ canal' = [canal EXCEPT ![d] = canal'[d]]
         /\ Flujo(d)'
<1> USE DEF servidora, descarga
<1>0. srv[d] = "leida" /\ datos[d] # << >>
  BY OcupadoDe DEF Write
<1>1. PICK p \in Nat : p = leidos[d] - Len(datos[d])
  BY LenProperties DEF Inv, TypeOK, Flujo
<1>2. /\ datos[d] \in Seq(Unidades) /\ canal[d] \in Seq(Unidades)
      /\ escritos[d] \in Nat /\ leidos[d] \in Nat /\ Len(canal[d]) \in Nat
      /\ Casa(datos[d], p, {Hueco}) /\ Casa(canal[d], escritos[d], {Hueco})
  BY <1>1, LenProperties DEF Inv, TypeOK, Flujo
<1>3. /\ Tail(datos[d]) \in Seq(Unidades) /\ Head(datos[d]) \in Unidades
      /\ Len(Tail(datos[d])) = Len(datos[d]) - 1 /\ Len(datos[d]) \in Nat \ {0}
      /\ Casa(Tail(datos[d]), p + 1, {Hueco})
      /\ Head(datos[d]) \in {Contenido[p + 1]} \cup {Hueco}
  BY <1>0, <1>2, CasaTail
<1>4. /\ datos' = [datos EXCEPT ![d] = Tail(datos[d])] /\ datos'[d] = Tail(datos[d])
      /\ UNCHANGED <<srv, leidos, dpc, escritos>>
  BY DEF Write, Inv, TypeOK
<1>a. /\ leidos'[d] = leidos[d] /\ escritos'[d] = escritos[d]
      /\ Len(datos'[d]) = Len(datos[d]) - 1
  BY <1>3, <1>4
<1>b. leidos[d] \in Nat /\ escritos[d] \in Nat /\ Len(canal[d]) \in Nat /\ Len(datos[d]) \in Nat \ {0}
  BY <1>2, <1>3
<1>5. leidos'[d] - Len(datos'[d]) = p + 1 /\ Len(datos'[d]) <= leidos'[d]
  BY <1>1, <1>a, <1>b
<1>6. Casa(datos'[d], leidos'[d] - Len(datos'[d]), {Hueco})
  BY <1>3, <1>4, <1>5
<1>7. CASE dpc[d] = "conectada"
  <2>1. p = escritos[d] + Len(canal[d])
    BY <1>0, <1>1, <1>2, <1>3, <1>7 DEF Inv, Flujo
  <2>2. p < Len(Contenido)
    BY <1>1, <1>2, <1>3, ContenidoTipo DEF Casa
  <2>3. /\ Append(canal[d], Head(datos[d])) \in Seq(Unidades)
        /\ Len(Append(canal[d], Head(datos[d]))) = Len(canal[d]) + 1
        /\ Casa(Append(canal[d], Head(datos[d])), escritos[d], {Hueco})
    BY <1>2, <1>3, <2>1, <2>2, CasaAppend
  <2>4. canal' = [canal EXCEPT ![d] = Append(canal[d], Head(datos[d]))]
        /\ canal'[d] = Append(canal[d], Head(datos[d]))
    BY <1>7 DEF Write, Inv, TypeOK
  <2>5. escritos'[d] + Len(canal'[d]) + Len(datos'[d]) = leidos'[d]
    <3>1. Len(canal'[d]) = Len(canal[d]) + 1
      BY <2>3, <2>4
    <3>2. escritos[d] + (Len(canal[d]) + 1) + (Len(datos[d]) - 1) = leidos[d]
      BY <1>1, <1>b, <2>1, UnaMas
    <3> QED BY <1>a, <3>1, <3>2
  <2>6. Casa(canal'[d], escritos'[d], {Hueco})
    BY <1>4, <2>3, <2>4
  <2>7. Flujo(d)'
    BY <1>0, <1>4, <1>5, <1>6, <1>7, <2>5, <2>6 DEF Flujo
  <2> QED BY <1>3, <1>4, <2>3, <2>4, <2>7
<1>8. CASE dpc[d] # "conectada"
  <2>1. canal' = canal /\ canal' = [canal EXCEPT ![d] = canal'[d]]
    BY <1>8 DEF Write, Inv, TypeOK
  <2>2. canal[d] = << >> /\ escritos[d] = 0
    BY <1>8 DEF Inv, Flujo
  <2>3. Flujo(d)'
    BY <1>0, <1>2, <1>4, <1>5, <1>6, <1>8, <2>1, <2>2 DEF Flujo
  <2> QED BY <1>2, <1>3, <1>4, <2>1, <2>3
<1> QED BY <1>7, <1>8

LEMMA WriteInv ==
  ASSUME Inv, NEW d \in Descargas, Write(d)
  PROVE  Inv'
<1> USE DEF servidora, descarga
<1>1. /\ datos' = [datos EXCEPT ![d] = Tail(datos[d])]
      /\ Tail(datos[d]) \in Seq(Unidades)
      /\ canal'[d] \in Seq(Unidades) /\ canal' = [canal EXCEPT ![d] = canal'[d]]
      /\ Flujo(d)'
  BY WriteFlujo
<1>2. UNCHANGED <<vivos, disco, hilo, listo, ocupado, srv, leidos, dpc, escritos>>
  BY DEF Write
<1>3. TypeOK'
  BY <1>1, <1>2 DEF Inv, TypeOK
<1>4. Ficheros' /\ Hilos' /\ \A e \in Descargas : Conexion(e)'
  BY <1>2 DEF Inv, Ficheros, Hilos, Conexion
<1>5. ASSUME NEW e \in Descargas PROVE Flujo(e)'
  <2>1. CASE e # d
    <3>1. datos'[e] = datos[e] /\ canal'[e] = canal[e]
      BY <1>1, <2>1 DEF Inv, TypeOK
    <3> QED BY <1>2, <3>1, FlujoIgual DEF Inv
  <2> QED BY <1>1, <2>1
<1> QED BY <1>3, <1>4, <1>5 DEF Inv

LEMMA AcabaWriteInv ==
  ASSUME Inv, NEW d \in Descargas, AcabaWrite(d)
  PROVE  Inv'
<1> USE DEF descarga
<1>0. /\ srv[d] = "leida" /\ datos[d] = << >> /\ disco[Origen(d)] # Ausente
      /\ Len(datos[d]) = 0
  BY OcupadoDe, SeqVacia DEF AcabaWrite
<1>1. /\ datos' \in [Descargas -> Seq(Unidades)] /\ leidos' \in [Descargas -> Nat]
      /\ leidos'[d] = leidos[d] + Len(datos'[d])
      /\ Casa(datos'[d], leidos[d], {Hueco})
      /\ \A e \in Descargas \ {d} : datos'[e] = datos[e] /\ leidos'[e] = leidos[e]
  BY <1>0, DoReadFlujo DEF AcabaWrite
<1>2. /\ ocupado' = [ocupado EXCEPT ![De[d]] = Nadie]
      /\ UNCHANGED <<vivos, disco, hilo, listo, srv, canal, dpc, escritos>>
  BY DEF AcabaWrite
<1>3. TypeOK'
  BY <1>1, <1>2 DEF Inv, TypeOK
<1>4. Ficheros' /\ \A e \in Descargas : Conexion(e)'
  BY <1>2 DEF Inv, Ficheros, Conexion
<1>5. Hilos'
  BY <1>2 DEF Inv, TypeOK, Hilos
<1>6. ASSUME NEW e \in Descargas PROVE Flujo(e)'
  <2>1. CASE e = d
    <3>1. /\ Len(datos'[d]) \in Nat /\ leidos[d] \in Nat /\ escritos[d] \in Nat
          /\ Len(canal[d]) \in Nat
      BY <1>1, LenProperties DEF Inv, TypeOK
    <3>a. leidos'[d] = leidos[d] + Len(datos'[d])
      BY <1>1
    <3>2. leidos'[d] - Len(datos'[d]) = leidos[d] /\ Len(datos'[d]) <= leidos'[d]
      BY <3>1, <3>a
    <3>3. Casa(datos'[d], leidos'[d] - Len(datos'[d]), {Hueco})
      BY <1>1, <3>2
    <3>4. dpc[d] = "conectada" => escritos[d] + Len(canal[d]) + Len(datos'[d]) = leidos'[d]
      <4>1. dpc[d] = "conectada" => escritos[d] + Len(canal[d]) + Len(datos[d]) = leidos[d]
        BY <1>0 DEF Inv, Flujo
      <4>2. Len(datos[d]) = 0
        BY <1>0
      <4> QED BY <3>1, <3>a, <4>1, <4>2
    <3> QED BY <1>0, <1>2, <2>1, <3>2, <3>3, <3>4 DEF Inv, Flujo
  <2>2. CASE e # d
    BY <1>1, <1>2, <2>2, FlujoIgual DEF Inv
  <2> QED BY <2>1, <2>2
<1> QED BY <1>3, <1>4, <1>5, <1>6 DEF Inv

LEMMA FinFicheroInv ==
  ASSUME Inv, NEW d \in Descargas, FinFichero(d)
  PROVE  Inv'
<1> USE DEF servidora, descarga
<1>0. De[d] \in Nodos
  BY Lugares
<1>1. /\ srv[d] = "leida" /\ datos[d] = << >> /\ ocupado[De[d]] = Nadie
      /\ srv' = [srv EXCEPT ![d] = "cerrada"] /\ leidos' = [leidos EXCEPT ![d] = 0]
      /\ UNCHANGED <<vivos, disco, hilo, listo, ocupado, datos, canal, dpc, escritos>>
  BY DEF FinFichero, Libre
<1>2. /\ srv'[d] = "cerrada" /\ leidos'[d] = 0
      /\ \A e \in Descargas \ {d} : srv'[e] = srv[e] /\ leidos'[e] = leidos[e]
  BY <1>1 DEF Inv, TypeOK
<1>3. TypeOK'
  BY <1>1 DEF Inv, TypeOK
<1>4. Ficheros'
  BY <1>1 DEF Inv, Ficheros
<1>5. Hilos'
  <2>1. ASSUME NEW n \in Nodos, ocupado[n] = d PROVE ocupado[n] = Nadie
    BY <1>1, <2>1 DEF Inv, Hilos
  <2> QED BY <1>1, <1>2, <2>1 DEF Inv, TypeOK, Hilos
<1>6. ASSUME NEW e \in Descargas PROVE Flujo(e)' /\ Conexion(e)'
  <2>1. CASE e = d
    <3>1. datos'[d] = << >> /\ Len(datos'[d]) = 0 /\ leidos'[d] - Len(datos'[d]) = 0
      BY <1>1, <1>2, SeqVacia
    <3>2. Casa(datos'[d], leidos'[d] - Len(datos'[d]), {Hueco})
      BY <3>1, CasaVacia, ContenidoTipo
    <3>3. Flujo(d)'
      <4>1. Casa(canal[d], escritos[d], {Hueco})
            /\ (dpc[d] # "conectada" => canal[d] = << >> /\ escritos[d] = 0)
        BY DEF Inv, Flujo
      <4>2. canal'[d] = canal[d] /\ escritos'[d] = escritos[d] /\ dpc'[d] = dpc[d]
        BY <1>1
      <4>3. Len(datos'[d]) <= leidos'[d]
        BY <1>2, <3>1
      <4> QED BY <1>2, <3>2, <4>1, <4>2, <4>3 DEF Flujo
    <3>4. Conexion(d)'
      BY <1>1, <1>2 DEF Inv, Conexion
    <3> QED BY <2>1, <3>3, <3>4
  <2>2. CASE e # d
    <3>1. Flujo(e)'
      BY <1>1, <1>2, <2>2, FlujoIgual DEF Inv
    <3> QED BY <1>1, <1>2, <2>2, <3>1 DEF Inv, Conexion
  <2> QED BY <2>1, <2>2
<1> QED BY <1>3, <1>4, <1>5, <1>6 DEF Inv

\* The thread ends and its connections close; downloads go on, or die.
LEMMA AcabaHiloInv ==
  ASSUME Inv, NEW n \in Nodos, NEW fin \in Fin, AcabaHilo(n, fin), UNCHANGED disco, vivos' \subseteq Nodos,
         dpc' \in [Descargas -> {"no", "truncada", "conectada", "acabada", "excepcion", "muerta"}],
         canal' \in [Descargas -> Seq(Unidades)], escritos' \in [Descargas -> Nat],
         \A e \in Descargas :
            \/ dpc'[e] = dpc[e] /\ canal'[e] = canal[e] /\ escritos'[e] = escritos[e]
            \/ /\ canal'[e] = << >> /\ escritos'[e] = 0
               /\ dpc'[e] \in {"muerta", dpc[e]} /\ dpc'[e] # "conectada"
  PROVE  Inv'
<1>1. /\ hilo' = [hilo EXCEPT ![n] = fin] /\ listo' = listo \ {n}
      /\ ocupado' = [ocupado EXCEPT ![n] = Nadie]
      /\ srv' \in [Descargas -> {"no", "cola", "leida", "cerrada"}]
      /\ datos' \in [Descargas -> Seq(Unidades)] /\ leidos' \in [Descargas -> Nat]
  BY SeqVacia DEF AcabaHilo, Inv, TypeOK
<1>2. \A e \in Descargas :
         IF De[e] = n
         THEN /\ datos'[e] = << >> /\ leidos'[e] = 0
              /\ srv'[e] = IF srv[e] = "no" THEN "no" ELSE "cerrada"
         ELSE datos'[e] = datos[e] /\ leidos'[e] = leidos[e] /\ srv'[e] = srv[e]
  BY DEF AcabaHilo, Inv, TypeOK
<1>3. TypeOK'
  BY <1>1 DEF Inv, TypeOK
<1>4. Ficheros'
  BY DEF Inv, Ficheros
<1>5. Hilos'
  <2> SUFFICES ASSUME NEW m \in Nodos
               PROVE  /\ m \in listo' => hilo'[m] = "escucha" /\ disco'[Carpeta[m]] # Ausente
                      /\ ocupado'[m] # Nadie => De[ocupado'[m]] = m /\ srv'[ocupado'[m]] = "leida"
    BY DEF Hilos
  <2>1. CASE m = n
    BY <1>1, <2>1 DEF Inv, TypeOK
  <2>2. CASE m # n
    <3>1. /\ hilo'[m] = hilo[m] /\ ocupado'[m] = ocupado[m]
          /\ ocupado[m] \in Descargas \cup {Nadie}
          /\ m \in listo' => m \in listo
      BY <1>1, <2>2 DEF Inv, TypeOK
    <3> QED BY <1>2, <2>2, <3>1 DEF Inv, Hilos
  <2> QED BY <2>1, <2>2
<1>6. ASSUME NEW e \in Descargas PROVE Flujo(e)'
  <2>0. Casa(<< >>, 0, {Hueco}) /\ Len(<< >>) = 0 /\ 0 - 0 = 0
    BY CasaVacia, ContenidoTipo, SeqVacia
  <2>1. /\ Len(datos'[e]) <= leidos'[e]
        /\ Casa(datos'[e], leidos'[e] - Len(datos'[e]), {Hueco})
    <3>1. CASE De[e] = n
      <4>1. datos'[e] = << >> /\ leidos'[e] = 0
        BY <1>2, <3>1
      <4> QED BY <2>0, <4>1
    <3>2. CASE De[e] # n
      BY <1>2, <3>2 DEF Inv, Flujo
    <3> QED BY <3>1, <3>2
  <2>2. Casa(canal'[e], escritos'[e], {Hueco})
    BY <2>0 DEF Inv, Flujo
  <2>3. dpc'[e] # "conectada" => canal'[e] = << >> /\ escritos'[e] = 0
    BY DEF Inv, Flujo
  <2>4. srv'[e] \in {"no", "cola"} =>
           leidos'[e] = 0 /\ datos'[e] = << >> /\ canal'[e] = << >> /\ escritos'[e] = 0
    BY <1>2 DEF Inv, Flujo
  <2>5. dpc'[e] = "conectada" /\ srv'[e] = "leida" =>
           escritos'[e] + Len(canal'[e]) + Len(datos'[e]) = leidos'[e]
    <3> SUFFICES ASSUME dpc'[e] = "conectada", srv'[e] = "leida"
                 PROVE  escritos'[e] + Len(canal'[e]) + Len(datos'[e]) = leidos'[e]
      OBVIOUS
    <3>1. De[e] # n
      BY <1>2
    <3>2. /\ dpc'[e] = dpc[e] /\ canal'[e] = canal[e] /\ escritos'[e] = escritos[e]
          /\ datos'[e] = datos[e] /\ leidos'[e] = leidos[e] /\ srv'[e] = srv[e]
      BY <1>2, <3>1
    <3> QED BY <3>2 DEF Inv, Flujo
  <2> QED BY <2>1, <2>2, <2>3, <2>4, <2>5 DEF Flujo
<1>7. ASSUME NEW e \in Descargas PROVE Conexion(e)'
  <2>0. Conexion(e) /\ dpc'[e] \in {"muerta", dpc[e]} /\ disco' = disco
    BY DEF Inv
  <2>1. CASE De[e] = n
    <3>1. hilo'[De[e]] \in Fin /\ (srv'[e] = IF srv[e] = "no" THEN "no" ELSE "cerrada")
      BY <1>1, <1>2, <2>1 DEF Inv, TypeOK
    <3> QED BY <2>0, <3>1 DEF Conexion
  <2>2. CASE De[e] # n
    <3>1. hilo'[De[e]] = hilo[De[e]] /\ srv'[e] = srv[e]
      BY <1>1, <1>2, <2>2 DEF Inv, TypeOK
    <3>2. CASE dpc'[e] = dpc[e]
      BY <2>0, <3>1, <3>2 DEF Conexion
    <3>3. CASE dpc'[e] = "muerta"
      BY <2>0, <3>1, <3>3 DEF Conexion
    <3> QED BY <2>0, <3>2, <3>3
  <2> QED BY <2>1, <2>2
<1> QED BY <1>3, <1>4, <1>5, <1>6, <1>7 DEF Inv

LEMMA HiloCaeInv ==
  ASSUME Inv, (\E d \in Descargas : WriteFalla(d)) \/ (\E n \in Nodos : CreaFalla(n))
  PROVE  Inv'
<1>1. PICK n \in Nodos, fin \in Fin :
         AcabaHilo(n, fin) /\ UNCHANGED <<vivos, disco, canal, dpc, escritos>>
  BY Lugares DEF WriteFalla, CreaFalla, descarga
<1>2. /\ vivos' \subseteq Nodos
      /\ dpc' \in [Descargas -> {"no", "truncada", "conectada", "acabada", "excepcion", "muerta"}]
      /\ canal' \in [Descargas -> Seq(Unidades)] /\ escritos' \in [Descargas -> Nat]
  BY <1>1 DEF Inv, TypeOK
<1> QED BY <1>1, <1>2, AcabaHiloInv

LEMMA AcabaProcesoInv ==
  ASSUME Inv, NEW n \in Nodos, AcabaProceso(n)
  PROVE  Inv'
<1>1. AcabaHilo(n, "acabada") /\ UNCHANGED disco /\ vivos' \subseteq Nodos
  BY DEF AcabaProceso, Inv, TypeOK
<1>2. /\ dpc' \in [Descargas -> {"no", "truncada", "conectada", "acabada", "excepcion", "muerta"}]
      /\ canal' \in [Descargas -> Seq(Unidades)] /\ escritos' \in [Descargas -> Nat]
  BY SeqVacia DEF AcabaProceso, Inv, TypeOK
<1>3. ASSUME NEW e \in Descargas
      PROVE  \/ dpc'[e] = dpc[e] /\ canal'[e] = canal[e] /\ escritos'[e] = escritos[e]
             \/ /\ canal'[e] = << >> /\ escritos'[e] = 0
                /\ dpc'[e] \in {"muerta", dpc[e]} /\ dpc'[e] # "conectada"
  BY DEF AcabaProceso
<1> QED BY <1>1, <1>2, <1>3, AcabaHiloInv

----------------------------------------------------------------------------
(* The steps of the downloading thread.                                    *)

\* A download ends, or does not begin: what it had not written is gone.
LEMMA AcabaDescargaInv ==
  ASSUME Inv, NEW d \in Descargas,
         NEW como \in {"acabada", "excepcion"}, dpc' = [dpc EXCEPT ![d] = como],
         canal' \in [Descargas -> Seq(Unidades)], escritos' \in [Descargas -> Nat],
         canal'[d] = << >>, escritos'[d] = 0,
         \A e \in Descargas \ {d} : canal'[e] = canal[e] /\ escritos'[e] = escritos[e],
         como = "acabada" => srv[d] = "cerrada" /\ disco[Destino(d)] # Ausente,
         UNCHANGED <<vivos, disco, hilo, listo, ocupado, srv, datos, leidos>>
  PROVE  Inv'
<1>1. dpc'[d] = como /\ \A e \in Descargas \ {d} : dpc'[e] = dpc[e]
  BY DEF Inv, TypeOK
<1>2. TypeOK'
  BY DEF Inv, TypeOK
<1>3. Ficheros' /\ Hilos'
  BY DEF Inv, Ficheros, Hilos
<1>4. ASSUME NEW e \in Descargas PROVE Conexion(e)'
  <2>1. CASE e = d
    BY <1>1, <2>1 DEF Inv, Conexion
  <2>2. CASE e # d
    <3>1. dpc'[e] = dpc[e]
      BY <1>1, <2>2
    <3> QED BY <3>1 DEF Inv, Conexion
  <2> QED BY <2>1, <2>2
<1>5. ASSUME NEW e \in Descargas PROVE Flujo(e)'
  <2>1. CASE e = d
    <3>1. Casa(canal'[d], escritos'[d], {Hueco})
      BY CasaVacia, ContenidoTipo
    <3>2. /\ Len(datos[d]) <= leidos[d]
          /\ Casa(datos[d], leidos[d] - Len(datos[d]), {Hueco})
          /\ srv[d] \in {"no", "cola"} => leidos[d] = 0 /\ datos[d] = << >>
      BY DEF Inv, Flujo
    <3> QED BY <1>1, <2>1, <3>1, <3>2 DEF Flujo
  <2>2. CASE e # d
    BY <1>1, <2>2, FlujoIgual DEF Inv
  <2> QED BY <2>1, <2>2
<1> QED BY <1>2, <1>3, <1>4, <1>5 DEF Inv

LEMMA FinInv ==
  ASSUME Inv, NEW d \in Descargas,
         NoEmpieza(d) \/ ConnectFalla(d) \/ DoWriteFalla(d) \/ FinDescarga(d)
  PROVE  Inv'
<1> USE DEF servidora, conexion, descarga
<1>1. canal \in [Descargas -> Seq(Unidades)] /\ escritos \in [Descargas -> Nat]
  BY DEF Inv, TypeOK
<1>2. CASE NoEmpieza(d) \/ ConnectFalla(d)
  <2>1. /\ dpc[d] # "conectada" /\ dpc' = [dpc EXCEPT ![d] = "excepcion"]
        /\ UNCHANGED <<vivos, disco, hilo, listo, ocupado, srv, datos, leidos, canal, escritos>>
    BY <1>2 DEF NoEmpieza, ConnectFalla, Va
  <2>2. canal[d] = << >> /\ escritos[d] = 0
    BY <2>1 DEF Inv, Flujo
  <2> QED BY <1>1, <2>1, <2>2, AcabaDescargaInv
<1>3. CASE DoWriteFalla(d)
  <2>1. /\ dpc' = [dpc EXCEPT ![d] = "excepcion"] /\ canal' = [canal EXCEPT ![d] = << >>]
        /\ escritos' = [escritos EXCEPT ![d] = 0]
        /\ UNCHANGED <<vivos, disco, hilo, listo, ocupado, srv, datos, leidos>>
    BY <1>3 DEF DoWriteFalla, AcabaDescarga, Va
  <2>2. /\ canal' \in [Descargas -> Seq(Unidades)] /\ escritos' \in [Descargas -> Nat]
        /\ canal'[d] = << >> /\ escritos'[d] = 0
        /\ \A e \in Descargas \ {d} : canal'[e] = canal[e] /\ escritos'[e] = escritos[e]
    BY <1>1, <2>1, SeqVacia
  <2> QED BY <2>1, <2>2, AcabaDescargaInv
<1>4. CASE FinDescarga(d)
  <2>1. /\ dpc[d] = "conectada" /\ canal[d] = << >> /\ srv[d] = "cerrada"
        /\ dpc' = [dpc EXCEPT ![d] = "acabada"] /\ escritos' = [escritos EXCEPT ![d] = 0]
        /\ UNCHANGED <<vivos, disco, hilo, listo, ocupado, srv, datos, leidos, canal>>
    BY <1>4 DEF FinDescarga, AcabaDescarga, Va
  <2>2. /\ escritos' \in [Descargas -> Nat] /\ escritos'[d] = 0
        /\ \A e \in Descargas \ {d} : escritos'[e] = escritos[e]
    BY <1>1, <2>1
  <2>3. disco[Destino(d)] # Ausente
    BY <2>1 DEF Inv, Conexion
  <2> QED BY <1>1, <2>1, <2>2, <2>3, AcabaDescargaInv
<1> QED BY <1>2, <1>3, <1>4

\* A step that writes to the file of folder c.
LEMMA FicheroNuevo ==
  ASSUME Inv, NEW c \in Carpetas, NEW f \in Seq(Unidades), Casa(f, 0, {Hueco}),
         disco' = [disco EXCEPT ![c] = f]
  PROVE  /\ disco' \in [Carpetas -> {Ausente} \cup Seq(Unidades)]
         /\ disco'[c] = f /\ disco'[c] # Ausente
         /\ \A k \in Carpetas \ {c} : disco'[k] = disco[k]
         /\ \A k \in Carpetas : disco[k] # Ausente => disco'[k] # Ausente
         /\ Ficheros'
<1>1. /\ disco' \in [Carpetas -> {Ausente} \cup Seq(Unidades)] /\ disco'[c] = f
      /\ \A k \in Carpetas \ {c} : disco'[k] = disco[k]
  BY DEF Inv, TypeOK
<1>2. disco'[c] # Ausente
  BY <1>1, NoAusente
<1> QED BY <1>1, <1>2 DEF Inv, Ficheros

LEMMA TruncaInv ==
  ASSUME Inv, NEW d \in Descargas, Trunca(d)
  PROVE  Inv'
<1> USE DEF servidora, conexion
<1>1. /\ dpc[d] = "no" /\ dpc' = [dpc EXCEPT ![d] = "truncada"]
      /\ disco' = [disco EXCEPT ![Destino(d)] = << >>]
      /\ UNCHANGED <<vivos, hilo, listo, ocupado, srv, datos, leidos, canal, escritos>>
  BY DEF Trunca, Va
<1>2. /\ disco' \in [Carpetas -> {Ausente} \cup Seq(Unidades)]
      /\ disco'[Destino(d)] # Ausente
      /\ \A k \in Carpetas : disco[k] # Ausente => disco'[k] # Ausente
      /\ Ficheros'
  <2>1. << >> \in Seq(Unidades) /\ Casa(<< >>, 0, {Hueco}) /\ Destino(d) \in Carpetas
    BY SeqVacia, CasaVacia, ContenidoTipo, Lugares
  <2> QED BY <1>1, <2>1, FicheroNuevo
<1>3. dpc'[d] = "truncada" /\ \A e \in Descargas \ {d} : dpc'[e] = dpc[e]
  BY <1>1 DEF Inv, TypeOK
<1>4. TypeOK'
  BY <1>1, <1>2 DEF Inv, TypeOK
<1>5. Hilos'
  BY <1>1, <1>2, Lugares DEF Inv, Hilos
<1>6. ASSUME NEW e \in Descargas PROVE Flujo(e)' /\ Conexion(e)'
  <2>1. CASE e = d
    <3>1. Flujo(d)'
      BY <1>1, <1>3 DEF Inv, Flujo
    <3>2. Conexion(d)'
      BY <1>1, <1>2, <1>3, Lugares DEF Inv, Conexion
    <3> QED BY <2>1, <3>1, <3>2
  <2>2. CASE e # d
    <3>1. Flujo(e)'
      BY <1>1, <1>3, <2>2, FlujoIgual DEF Inv
    <3>2. Conexion(e)'
      BY <1>1, <1>2, <1>3, <2>2, Lugares DEF Inv, Conexion
    <3> QED BY <3>1, <3>2
  <2> QED BY <2>1, <2>2
<1> QED BY <1>2, <1>4, <1>5, <1>6 DEF Inv

LEMMA ConnectInv ==
  ASSUME Inv, NEW d \in Descargas, Connect(d)
  PROVE  Inv'
<1> USE DEF servidora
<1>1. /\ dpc[d] = "truncada" /\ hilo[De[d]] = "escucha" /\ srv[d] = "no"
      /\ dpc' = [dpc EXCEPT ![d] = "conectada"] /\ srv' = [srv EXCEPT ![d] = "cola"]
      /\ UNCHANGED <<vivos, disco, hilo, listo, ocupado, datos, leidos, canal, escritos>>
  BY DEF Connect, Va, Inv, Conexion
<1>2. /\ dpc'[d] = "conectada" /\ srv'[d] = "cola"
      /\ \A e \in Descargas \ {d} : dpc'[e] = dpc[e] /\ srv'[e] = srv[e]
  BY <1>1 DEF Inv, TypeOK
<1>3. TypeOK'
  BY <1>1 DEF Inv, TypeOK
<1>4. Ficheros'
  BY <1>1 DEF Inv, Ficheros
<1>5. Hilos'
  BY <1>1, <1>2 DEF Inv, TypeOK, Hilos
<1>6. ASSUME NEW e \in Descargas PROVE Flujo(e)' /\ Conexion(e)'
  <2>1. CASE e = d
    <3>1. Flujo(d)'
      BY <1>1, <1>2 DEF Inv, Flujo
    <3>2. Conexion(d)'
      BY <1>1, <1>2 DEF Inv, Conexion
    <3> QED BY <2>1, <3>1, <3>2
  <2>2. CASE e # d
    <3>1. Flujo(e)'
      BY <1>1, <1>2, <2>2, FlujoIgual DEF Inv
    <3>2. Conexion(e)'
      BY <1>1, <1>2, <2>2 DEF Inv, Conexion
    <3> QED BY <3>1, <3>2
  <2> QED BY <2>1, <2>2
<1> QED BY <1>3, <1>4, <1>5, <1>6 DEF Inv

\* do_write, with the number k of units it found in the socket.
DoWriteK(d, k) ==
    /\ dpc[d] = "conectada" /\ k \in 1 .. Len(canal[d])
    /\ disco' = [disco EXCEPT ![Destino(d)] =
                   Pon(disco[Destino(d)], escritos[d], SubSeq(canal[d], 1, k))]
    /\ escritos' = [escritos EXCEPT ![d] = escritos[d] + k]
    /\ canal' = [canal EXCEPT ![d] = SubSeq(canal[d], k + 1, Len(canal[d]))]
    /\ UNCHANGED <<vivos, hilo, listo, ocupado, srv, datos, leidos, dpc>>

LEMMA DoWritePick ==
  ASSUME Inv, NEW d \in Descargas, DoWrite(d)
  PROVE  \E k \in Nat : DoWriteK(d, k)
<1>1. Len(canal[d]) \in Nat /\ Tam \in Nat
  BY LenProperties, TransferenciaAssumption DEF Inv, TypeOK
<1>2. 1 .. Menor(Tam, Len(canal[d])) \subseteq 1 .. Len(canal[d])
  BY <1>1 DEF Menor
<1>3. \A k \in 1 .. Len(canal[d]) : k \in Nat
  BY <1>1
<1> QED BY <1>2, <1>3 DEF DoWrite, DoWriteK, servidora

\* The units go from the socket to the place in the file where they belong.
LEMMA DoWriteFlujo ==
  ASSUME Inv, NEW d \in Descargas, NEW k \in Nat, DoWriteK(d, k)
  PROVE  /\ canal' \in [Descargas -> Seq(Unidades)] /\ escritos' \in [Descargas -> Nat]
         /\ escritos'[d] = escritos[d] + k /\ Len(canal'[d]) = Len(canal[d]) - k
         /\ Len(canal[d]) \in Nat /\ k >= 1
         /\ \A e \in Descargas \ {d} : canal'[e] = canal[e] /\ escritos'[e] = escritos[e]
         /\ Flujo(d)'
<1>0. dpc[d] = "conectada" /\ srv[d] \notin {"no", "cola"}
  <2>1. dpc[d] = "conectada" /\ canal[d] # << >>
    BY SeqVacia DEF DoWriteK
  <2> QED BY <2>1 DEF Inv, Flujo
<1>1. /\ canal[d] \in Seq(Unidades) /\ escritos[d] \in Nat /\ k \in 1 .. Len(canal[d])
      /\ Casa(canal[d], escritos[d], {Hueco}) /\ Len(canal[d]) \in Nat
  BY LenProperties DEF Inv, TypeOK, Flujo, DoWriteK
<1> DEFINE r == SubSeq(canal[d], k + 1, Len(canal[d]))
<1>2. r \in Seq(Unidades) /\ Len(r) = Len(canal[d]) - k /\ Casa(r, escritos[d] + k, {Hueco})
  BY <1>1, CasaParte
<1>3. /\ canal' = [canal EXCEPT ![d] = r] /\ escritos' = [escritos EXCEPT ![d] = escritos[d] + k]
      /\ UNCHANGED <<srv, datos, leidos, dpc>>
  BY DEF DoWriteK
<1> HIDE DEF r
<1>4. /\ canal' \in [Descargas -> Seq(Unidades)] /\ escritos' \in [Descargas -> Nat]
      /\ canal'[d] = r /\ escritos'[d] = escritos[d] + k
      /\ \A e \in Descargas \ {d} : canal'[e] = canal[e] /\ escritos'[e] = escritos[e]
  BY <1>1, <1>2, <1>3 DEF Inv, TypeOK
<1>5. Casa(canal'[d], escritos'[d], {Hueco})
  BY <1>2, <1>4
<1>6. srv[d] = "leida" => escritos'[d] + Len(canal'[d]) + Len(datos[d]) = leidos[d]
  <2>1. escritos'[d] + Len(canal'[d]) = escritos[d] + Len(canal[d])
    BY <1>1, <1>2, <1>4
  <2> QED BY <1>0, <2>1 DEF Inv, Flujo
<1>7. /\ Len(datos[d]) <= leidos[d]
      /\ Casa(datos[d], leidos[d] - Len(datos[d]), {Hueco})
  BY DEF Inv, Flujo
<1>8. Flujo(d)'
  BY <1>0, <1>3, <1>5, <1>6, <1>7 DEF Flujo
<1> QED BY <1>1, <1>2, <1>4, <1>8

LEMMA DoWriteInv ==
  ASSUME Inv, NEW d \in Descargas, DoWrite(d)
  PROVE  Inv'
<1>0. PICK k \in Nat : DoWriteK(d, k)
  BY DoWritePick
<1>1. /\ canal' \in [Descargas -> Seq(Unidades)] /\ escritos' \in [Descargas -> Nat]
      /\ \A e \in Descargas \ {d} : canal'[e] = canal[e] /\ escritos'[e] = escritos[e]
      /\ Flujo(d)'
  BY <1>0, DoWriteFlujo
<1>2. UNCHANGED <<vivos, hilo, listo, ocupado, srv, datos, leidos, dpc>> /\ dpc[d] = "conectada"
  BY <1>0 DEF DoWriteK
<1>3. /\ disco' \in [Carpetas -> {Ausente} \cup Seq(Unidades)]
      /\ \A c \in Carpetas : disco[c] # Ausente => disco'[c] # Ausente
      /\ Ficheros'
  <2> DEFINE f == disco[Destino(d)]
             g == SubSeq(canal[d], 1, k)
             h == Pon(f, escritos[d], g)
  <2>1. Destino(d) \in Carpetas /\ f # Ausente
    BY <1>2, Lugares DEF Inv, Conexion
  <2>2. f \in Seq(Unidades) /\ Casa(f, 0, {Hueco})
    BY <2>1 DEF Inv, TypeOK, Ficheros
  <2>3. /\ canal[d] \in Seq(Unidades) /\ escritos[d] \in Nat /\ k \in 1 .. Len(canal[d])
        /\ Casa(canal[d], escritos[d], {Hueco})
    BY <1>0 DEF Inv, TypeOK, Flujo, DoWriteK
  <2>4. g \in Seq(Unidades) /\ Casa(g, escritos[d], {Hueco})
    BY <2>3, CasaParte
  <2> HIDE DEF f, g
  <2>5. h \in Seq(Unidades)
    BY <2>2, <2>3, <2>4, PonValor
  <2>6. Casa(h, 0, {Hueco})
    BY <2>2, <2>3, <2>4, PonCasa
  <2>7. disco' = [disco EXCEPT ![Destino(d)] = h]
    BY <1>0 DEF DoWriteK, f, g
  <2> HIDE DEF h
  <2> QED BY <2>1, <2>5, <2>6, <2>7, FicheroNuevo
<1>4. TypeOK'
  BY <1>1, <1>2, <1>3 DEF Inv, TypeOK
<1>5. Hilos'
  BY <1>2, <1>3, Lugares DEF Inv, Hilos
<1>6. ASSUME NEW e \in Descargas PROVE Flujo(e)' /\ Conexion(e)'
  <2>1. Flujo(e)'
    <3>1. CASE e = d
      BY <1>1, <3>1
    <3>2. CASE e # d
      BY <1>1, <1>2, <3>2, FlujoIgual DEF Inv
    <3> QED BY <3>1, <3>2
  <2>2. Conexion(e)'
    BY <1>2, <1>3, Lugares DEF Inv, Conexion
  <2> QED BY <2>1, <2>2
<1> QED BY <1>3, <1>4, <1>5, <1>6 DEF Inv

----------------------------------------------------------------------------
(* The theorems.                                                           *)

LEMMA PasoInv == Inv /\ [Next]_vars => Inv'
<1> SUFFICES ASSUME Inv, [Next]_vars PROVE Inv'
  OBVIOUS
<1>1. CASE UNCHANGED vars
  BY <1>1 DEF vars, servidora, conexion, descarga, Inv, TypeOK, Ficheros, Hilos, Flujo, Conexion
<1>2. ASSUME NEW n \in Nodos, Lanza(n) \/ PasoHilo(n) \/ Sale(n) \/ Muere(n)
      PROVE  Inv'
  <2>1. CASE Lanza(n) \/ Escucha(n) \/ NoEscucha(n)
    BY <2>1, LanzaInv
  <2>2. CASE Crea(n) \/ CreaFalla(n)
    BY <2>2, CreaInv, HiloCaeInv
  <2>3. ASSUME NEW d \in Descargas,
               \/ DoAccept(d) \/ EmpiezaWrite(d) \/ Write(d) \/ AcabaWrite(d)
               \/ FinFichero(d) \/ WriteFalla(d)
        PROVE  Inv'
    BY <2>3, DoAcceptInv, EmpiezaWriteInv, WriteInv, AcabaWriteInv, FinFicheroInv, HiloCaeInv
  <2>4. CASE Sale(n) \/ Muere(n)
    BY <2>4, AcabaProcesoInv DEF Sale, Muere
  <2> QED BY <1>2, <2>1, <2>2, <2>3, <2>4 DEF PasoHilo
<1>3. ASSUME NEW d \in Descargas, NoEmpieza(d) \/ Trunca(d) \/ PasoDescarga(d)
      PROVE  Inv'
  BY <1>3, FinInv, TruncaInv, ConnectInv, DoWriteInv DEF PasoDescarga
<1> QED BY <1>1, <1>2, <1>3 DEF Next

LEMMA InvSiempre == Spec => []Inv
BY InitInv, PasoInv, PTL DEF Spec

\* The transfer keeps its types, for any processes, folders, downloads,
\* file and buffer sizes.
THEOREM TipoTransferencia == Spec => []TypeOK
<1>1. Inv => TypeOK
  BY DEF Inv
<1> QED BY <1>1, InvSiempre, PTL

\* However many threads of however many processes read from and write to the
\* same file, and wherever any of them stops, FileService never puts a unit
\* at another position than the one it has in the shared file.
THEOREM PosicionCorrectaSiempre == Spec => []PosicionCorrecta
<1>1. Inv => PosicionCorrecta
  <2> SUFFICES ASSUME Inv, NEW c \in Carpetas, disco[c] # Ausente
               PROVE  /\ Len(disco[c]) <= Len(Contenido)
                      /\ \A i \in 1 .. Len(disco[c]) : disco[c][i] \in {Contenido[i], Hueco}
    BY DEF PosicionCorrecta
  <2>1. Casa(disco[c], 0, {Hueco}) /\ Len(disco[c]) \in Nat
    BY LenProperties DEF Inv, TypeOK, Ficheros
  <2>2. \A i \in 1 .. Len(disco[c]) : 0 + i = i
    BY <2>1
  <2> QED BY <2>1, <2>2, ContenidoTipo DEF Casa
<1> QED BY <1>1, InvSiempre, PTL

\* What one step can do to the ends of connections and to serving threads.
LEMMA PasoExtremos ==
  ASSUME Inv, Next
  PROVE  /\ \A d \in Descargas : dpc[d] \in {"excepcion", "muerta"} => dpc'[d] = dpc[d]
         /\ \A d \in Descargas : srv'[d] # "no" => srv[d] # "no" \/ hilo[De[d]] = "escucha"
         /\ \A d \in Descargas : srv[d] = "cerrada" => srv'[d] = "cerrada"
         /\ \A n \in vivos' : hilo'[n] = "acabada" =>
               \/ hilo[n] \in {"acabada", "arranca"}
               \/ \E d \in Descargas : De[d] = n /\ WriteFalla(d)
         /\ vivos' \subseteq vivos
<1> USE DEF servidora, conexion, descarga, Inv, TypeOK
<1>1. ASSUME NEW n \in Nodos, Lanza(n) \/ Escucha(n) \/ NoEscucha(n) \/ Crea(n)
      PROVE  /\ UNCHANGED <<vivos, srv, dpc>>
             /\ \A m \in Nodos : hilo'[m] = "acabada" => hilo[m] \in {"acabada", "arranca"}
  BY <1>1 DEF Lanza, Escucha, NoEscucha, Crea
<1>2. ASSUME NEW d \in Descargas, DoAccept(d) \/ EmpiezaWrite(d) \/ Write(d) \/ AcabaWrite(d)
                                  \/ FinFichero(d)
      PROVE  /\ UNCHANGED <<vivos, hilo, dpc>>
             /\ \A e \in Descargas : /\ srv'[e] # "no" => srv[e] # "no"
                                     /\ srv[e] = "cerrada" => srv'[e] = "cerrada"
  <2>1. CASE DoAccept(d) \/ FinFichero(d)
    BY <2>1 DEF DoAccept, FinFichero
  <2>2. CASE EmpiezaWrite(d) \/ Write(d) \/ AcabaWrite(d)
    BY <2>2 DEF EmpiezaWrite, Write, AcabaWrite
  <2> QED BY <1>2, <2>1, <2>2
<1>3. ASSUME NEW n \in Nodos, NEW fin \in Fin, AcabaHilo(n, fin)
      PROVE  /\ \A e \in Descargas : /\ srv'[e] # "no" => srv[e] # "no"
                                     /\ srv[e] = "cerrada" => srv'[e] = "cerrada"
             /\ \A m \in Nodos \ {n} : hilo'[m] = hilo[m]
             /\ hilo'[n] = fin
  BY <1>3 DEF AcabaHilo
<1>4. ASSUME NEW d \in Descargas, WriteFalla(d)
      PROVE  UNCHANGED <<vivos, dpc>> /\ AcabaHilo(De[d], "acabada") /\ De[d] \in Nodos
             /\ hilo[De[d]] = "escucha"
  BY <1>4, Lugares, OcupadoDe DEF WriteFalla
<1>5. ASSUME NEW n \in Nodos, AcabaProceso(n)
      PROVE  /\ AcabaHilo(n, "acabada") /\ vivos' = vivos \ {n}
             /\ \A d \in Descargas : dpc[d] \in {"excepcion", "muerta"} => dpc'[d] = dpc[d]
  BY <1>5 DEF AcabaProceso
<1>6. ASSUME NEW d \in Descargas, NoEmpieza(d) \/ Trunca(d) \/ PasoDescarga(d)
      PROVE  /\ UNCHANGED <<vivos, hilo>>
             /\ \A e \in Descargas : dpc[e] \in {"excepcion", "muerta"} => dpc'[e] = dpc[e]
             /\ \A e \in Descargas : /\ srv'[e] # "no" => srv[e] # "no" \/ hilo[De[e]] = "escucha"
                                     /\ srv[e] = "cerrada" => srv'[e] = "cerrada"
  <2>1. CASE Connect(d)
    <3>1. srv[d] = "no"
      BY <2>1 DEF Connect, Conexion
    <3> QED BY <2>1, <3>1 DEF Connect, Va
  <2>2. CASE NoEmpieza(d) \/ Trunca(d) \/ ConnectFalla(d)
    BY <2>2 DEF NoEmpieza, Trunca, ConnectFalla, Va
  <2>3. CASE DoWrite(d) \/ DoWriteFalla(d) \/ FinDescarga(d)
    BY <2>3 DEF DoWrite, DoWriteFalla, FinDescarga, AcabaDescarga, Va
  <2> QED BY <1>6, <2>1, <2>2, <2>3 DEF PasoDescarga
<1>7. ASSUME NEW n \in Nodos, Sale(n) \/ Muere(n) PROVE AcabaProceso(n)
  BY <1>7 DEF Sale, Muere
<1>8. \/ \E n \in Nodos : Lanza(n) \/ Escucha(n) \/ NoEscucha(n) \/ Crea(n)
      \/ \E n \in Nodos : CreaFalla(n)
      \/ \E n \in Nodos : AcabaProceso(n)
      \/ \E d \in Descargas : DoAccept(d) \/ EmpiezaWrite(d) \/ Write(d) \/ AcabaWrite(d) \/ FinFichero(d)
      \/ \E d \in Descargas : WriteFalla(d)
      \/ \E d \in Descargas : NoEmpieza(d) \/ Trunca(d) \/ PasoDescarga(d)
  BY <1>7 DEF Next, PasoHilo
<1>9. CASE \E n \in Nodos : AcabaProceso(n)
  BY <1>3, <1>5, <1>9, Lugares
<1>10. CASE \E d \in Descargas : WriteFalla(d)
  <2>1. PICK d \in Descargas : WriteFalla(d)
    BY <1>10
  <2>2. /\ UNCHANGED <<vivos, dpc>> /\ AcabaHilo(De[d], "acabada") /\ De[d] \in Nodos
        /\ "acabada" \in Fin
    BY <1>4, <2>1
  <2>3. /\ \A e \in Descargas : /\ srv'[e] # "no" => srv[e] # "no"
                                /\ srv[e] = "cerrada" => srv'[e] = "cerrada"
        /\ \A m \in Nodos \ {De[d]} : hilo'[m] = hilo[m]
    BY <1>3, <2>2
  <2> QED BY <2>1, <2>2, <2>3
<1>11. CASE \E n \in Nodos : CreaFalla(n)
  <2>1. PICK n \in Nodos : AcabaHilo(n, "sin_fichero") /\ UNCHANGED <<vivos, dpc>>
    BY <1>11 DEF CreaFalla
  <2> QED BY <1>3, <2>1
<1> QED BY <1>1, <1>2, <1>6, <1>8, <1>9, <1>10, <1>11, Lugares

\* A serving thread that has had connections ends, in a process that runs,
\* only because the file could not be opened for the next peer, or through
\* one of its own peers whose download failed or was killed: the blocking
\* write never throws for a peer that goes on or has got the whole file.
THEOREM HebraCaePorUnParSiempre == Spec => []HebraCaePorUnPar
<1>1. Init => HebraCaePorUnPar
  BY DEF Init, HebraCaePorUnPar
<1>2. Inv /\ HebraCaePorUnPar /\ [Next]_vars => HebraCaePorUnPar'
  <2> SUFFICES ASSUME Inv, HebraCaePorUnPar, [Next]_vars PROVE HebraCaePorUnPar'
    OBVIOUS
  <2>1. CASE UNCHANGED vars
    BY <2>1 DEF HebraCaePorUnPar, vars, servidora, conexion, descarga
  <2>2. CASE Next
    <3> SUFFICES ASSUME NEW n \in vivos', hilo'[n] = "acabada",
                        NEW d \in Descargas, De[d] = n, srv'[d] # "no"
                 PROVE  \E e \in Descargas :
                           De[e] = n /\ srv'[e] = "cerrada" /\ dpc'[e] \in {"excepcion", "muerta"}
      BY DEF HebraCaePorUnPar
    <3>1. /\ \A e \in Descargas : dpc[e] \in {"excepcion", "muerta"} => dpc'[e] = dpc[e]
          /\ \A e \in Descargas : srv[e] = "cerrada" => srv'[e] = "cerrada"
          /\ srv[d] # "no" \/ hilo[n] = "escucha"
          /\ \/ hilo[n] \in {"acabada", "arranca"}
             \/ \E e \in Descargas : De[e] = n /\ WriteFalla(e)
          /\ n \in vivos
      BY <2>2, PasoExtremos
    <3>2. CASE \E e \in Descargas : De[e] = n /\ WriteFalla(e)
      <4>1. PICK e \in Descargas : De[e] = n /\ WriteFalla(e)
        BY <3>2
      <4>2. srv[e] = "leida" /\ dpc[e] # "conectada"
        BY <4>1, OcupadoDe DEF WriteFalla
      <4>3. dpc[e] \in {"excepcion", "muerta"}
        BY <4>2 DEF Inv, TypeOK, Conexion
      <4>4. srv'[e] = "cerrada"
        BY <4>1, <4>2 DEF WriteFalla, AcabaHilo
      <4> QED BY <3>1, <4>1, <4>3, <4>4
    <3>3. CASE hilo[n] = "arranca"
      BY <3>1, <3>3 DEF Inv, Conexion
    <3>4. CASE hilo[n] = "acabada"
      <4>1. srv[d] # "no"
        BY <3>1, <3>4
      <4>2. PICK e \in Descargas :
               De[e] = n /\ srv[e] = "cerrada" /\ dpc[e] \in {"excepcion", "muerta"}
        BY <3>1, <3>4, <4>1 DEF HebraCaePorUnPar
      <4> QED BY <3>1, <4>2
    <3> QED BY <3>1, <3>2, <3>3, <3>4
  <2> QED BY <2>1, <2>2
<1> QED BY <1>1, <1>2, InvSiempre, PTL DEF Spec
=============================================================================
