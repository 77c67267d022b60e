--------------------------- MODULE AlmacenProofs ---------------------------
(***************************************************************************)
(* Facts about the operators of Almacen, for every choice of names, IP and *)
(* port texts: what the conversions return, what the table operations      *)
(* preserve, and what a line of the backup file looks like.                *)
(***************************************************************************)
EXTENDS Almacen, SequenceTheorems, TLAPS

\* Texts are tokens: a numeral or NoNum, and a string.
LEMMA TextosTipo == /\ Textos \subseteq Tokens
                    /\ \A t \in Textos : t.num \in Nat \cup {NoNum} /\ t.resto \in STRING
<1>1. \A i \in DOMAIN Orden : Orden[i] \in Tokens
  <2> TAKE i \in DOMAIN Orden
  <2>1. i \in 1 .. Len(Orden)
    BY OrdenAssumption, LenProperties
  <2> QED BY <2>1, OrdenAssumption, ElementOfSeq
<1> QED BY <1>1 DEF Textos, Tokens

\* The numbers a text can spell are those whose numeral is a text.
LEMMA EscritosDef ==
  ASSUME NEW U, NEW n
  PROVE  n \in Escritos(U) <=> n \in U /\ Numeral(n) \in Textos
<1>1. ASSUME n \in Escritos(U) PROVE n \in U /\ Numeral(n) \in Textos
  <2>1. PICK t \in Textos : t.num = n /\ n \in U /\ t.resto = ""
    BY <1>1 DEF Escritos
  <2>2. t = Numeral(n)
    BY <2>1, TextosTipo DEF Tokens, Numeral
  <2> QED BY <2>1, <2>2
<1>2. ASSUME n \in U, Numeral(n) \in Textos PROVE n \in Escritos(U)
  <2>1. Numeral(n).num = n /\ Numeral(n).resto = ""
    BY DEF Numeral
  <2> QED BY <1>2, <2>1 DEF Escritos
<1> QED BY <1>1, <1>2

\* A 16-bit number and its two bytes.
LEMMA Bytes ==
  ASSUME NEW p \in Int, 0 <= p, p <= 65535
  PROVE  \E x \in Int, y \in Int : /\ 0 <= x /\ x <= 255 /\ 0 <= y /\ y <= 255
                                   /\ x = p % 256 /\ y = p \div 256
                                   /\ p = y * 256 + x
<1>1. p % 256 \in Int /\ 0 <= p % 256 /\ p % 256 <= 255
  BY SMT
<1>2. p \div 256 \in 0 .. 255
  BY SMT
<1>3. PICK x \in Int, y \in Int : x = p % 256 /\ y = p \div 256
  BY <1>1, <1>2, SMT
<1>4. p = y * 256 + x
  BY <1>3, SMT
<1> QED BY <1>1, <1>2, <1>3, <1>4

\* Two bytes put together, and taken apart again.
LEMMA Junta ==
  ASSUME NEW x \in Int, NEW y \in Int, 0 <= x, x <= 255, 0 <= y, y <= 255,
         NEW q \in Int, q = x * 256 + y
  PROVE  /\ 0 <= q /\ q <= 65535 /\ q % 65536 = q
         /\ q % 256 = y /\ q \div 256 = x
<1>1. 0 <= q /\ q <= 65535
  BY SMT
<1>2. q % 65536 = q
  BY <1>1, SMT
<1>3. q % 256 = y /\ q \div 256 = x
  BY SMT
<1> QED BY <1>1, <1>2, <1>3

\* htons swaps the bytes of the low half of its argument.
LEMMA HtonsBytes ==
  ASSUME NEW n \in Int
  PROVE  \E x \in Int, y \in Int : /\ 0 <= x /\ x <= 255 /\ 0 <= y /\ y <= 255
                                   /\ n % 65536 = y * 256 + x
                                   /\ Htons(n) = x * 256 + y
<1>1. PICK p \in Int : p = n % 65536 /\ 0 <= p /\ p <= 65535
  BY SMT
<1>2. Htons(n) = (p % 256) * 256 + (p \div 256)
  BY <1>1, SMT DEF Htons
<1>3. PICK x \in Int, y \in Int : /\ 0 <= x /\ x <= 255 /\ 0 <= y /\ y <= 255
                                  /\ x = p % 256 /\ y = p \div 256
                                  /\ p = y * 256 + x
  BY <1>1, Bytes, SMT
<1>4. Htons(n) = x * 256 + y
  BY <1>2, <1>3, SMT
<1>5. n % 65536 = y * 256 + x
  BY <1>1, <1>3, SMT
<1> QED BY <1>3, <1>4, <1>5, SMT

LEMMA MaxU16Tipo == MaxU16 \in Nat /\ MaxU16 <= MaxU32 /\ MaxU32 \in Nat
BY NumAssumption, SMT DEF MaxU16

LEMMA EnU16 ==
  ASSUME NEW q \in Int, 0 <= q, q <= 65535
  PROVE  q \in U16
<1>1. q <= MaxU16
  BY SMT DEF MaxU16
<1> QED BY <1>1, MaxU16Tipo, SMT DEF U16

\* htons and ntohs return 16 bits whatever std::stoi returned.
LEMMA HtonsTipo == \A n \in Int : Htons(n) \in U16
<1> TAKE n \in Int
<1>1. PICK x \in Int, y \in Int : /\ 0 <= x /\ x <= 255 /\ 0 <= y /\ y <= 255
                                  /\ n % 65536 = y * 256 + x
                                  /\ Htons(n) = x * 256 + y
  BY HtonsBytes, SMT
<1>2. PICK q \in Int : q = x * 256 + y
  BY <1>1, SMT
<1>3. 0 <= q /\ q <= 65535
  BY <1>1, <1>2, Junta, SMT
<1>4. Htons(n) = q
  BY <1>1, <1>2, SMT
<1>5. q \in U16
  BY <1>3, EnU16
<1> QED BY <1>4, <1>5

\* Converting to network order and back gives the port modulo 2^16, which is
\* what the conversion to uint16_t of the serving thread gives as well.
THEOREM HtonsInvolutiva == \A n \in Int : Htons(Htons(n)) = n % 65536
<1> TAKE n \in Int
<1>1. PICK x \in Int, y \in Int : /\ 0 <= x /\ x <= 255 /\ 0 <= y /\ y <= 255
                                  /\ n % 65536 = y * 256 + x
                                  /\ Htons(n) = x * 256 + y
  BY HtonsBytes, SMT
<1>2. PICK q \in Int : q = x * 256 + y
  BY <1>1, SMT
<1>3. q % 65536 = q /\ q % 256 = y /\ q \div 256 = x
  BY <1>1, <1>2, Junta, SMT
<1>4. Htons(q) = y * 256 + x
  BY <1>3, SMT DEF Htons
<1> QED BY <1>1, <1>2, <1>4, SMT

\* What agregar_cliente gets out of an acceptable registration.
LEMMA SepararTipo ==
  ASSUME NEW d \in Datos, SepararOk(d)
  PROVE  SepararString(d) \in Altas
<1>1. d.nombre \in Textos /\ d.ip \in TextosIp /\ d.puerto \in TextosPuerto
  BY CamposAssumption DEF Datos
<1>2. d.puerto.num \in Int
  BY <1>1, CamposAssumption DEF SepararOk, Stoi
<1>3. Htons(Stoi(d.puerto)) \in U16 /\ InetAddr[d.ip] \in U32
  BY <1>1, <1>2, HtonsTipo, CamposAssumption DEF Stoi
<1>4. Numeral(Htons(Stoi(d.puerto))) \in Textos /\ Numeral(InetAddr[d.ip]) \in Textos
  BY <1>1, CierreAssumption DEF SepararOk
<1> QED BY <1>1, <1>3, <1>4, EscritosDef DEF SepararString, Altas

\* What agregar_cliente does to the table.
LEMMA AgregarTipo ==
  ASSUME NEW t \in [Textos -> Seq(Direccion)], NEW a \in Altas
  PROVE  /\ AgregarCliente(t, a) \in [Textos -> Seq(Direccion)]
         /\ \A f \in Textos \ {a.fichero} : AgregarCliente(t, a)[f] = t[f]
         /\ AgregarCliente(t, a)[a.fichero]
              = Append(t[a.fichero], [ip |-> a.ip, puerto |-> a.puerto])
<1>1. a.fichero \in Textos /\ [ip |-> a.ip, puerto |-> a.puerto] \in Direccion
  BY DEF Altas, Direccion
<1>2. Append(t[a.fichero], [ip |-> a.ip, puerto |-> a.puerto]) \in Seq(Direccion)
  BY <1>1, AppendProperties
<1> QED BY <1>1, <1>2 DEF AgregarCliente

\* Odd and even positions of a line.
LEMMA Paridad ==
  ASSUME NEW i \in Int
  PROVE  /\ (2 * i - 1) % 2 = 1 /\ ((2 * i - 1) + 1) \div 2 = i
         /\ (2 * i) % 2 = 0 /\ (2 * i) \div 2 = i
BY SMT

LEMMA ParImpar ==
  ASSUME NEW n \in Nat, NEW j \in 1 .. 2 * n
  PROVE  \E i \in 1 .. n : j = 2 * i - 1 \/ j = 2 * i
<1>1. CASE j % 2 = 0
  <2>1. (j \div 2) \in 1 .. n /\ j = 2 * (j \div 2)
    BY <1>1, SMT
  <2> QED BY <2>1
<1>2. CASE j % 2 = 1
  <2>1. ((j + 1) \div 2) \in 1 .. n /\ j = 2 * ((j + 1) \div 2) - 1
    BY <1>2, SMT
  <2> QED BY <2>1
<1>3. j % 2 = 0 \/ j % 2 = 1
  BY SMT
<1> QED BY <1>1, <1>2, <1>3

\* The shape of a line of salvar_datos: a name unless it is empty, and then
\* the numerals of IP and port of each address in turn.
LEMMA LineaForma ==
  ASSUME NEW f \in Textos, NEW ds \in Seq(Direccion),
         NEW k \in Nat, k = IF f = Vacio THEN 0 ELSE 1
  PROVE  /\ Linea(f, ds) \in Seq(Textos)
         /\ Len(Linea(f, ds)) = k + 2 * Len(ds)
         /\ f # Vacio => Linea(f, ds)[1] = f
         /\ \A i \in 1 .. Len(ds) :
               /\ Linea(f, ds)[k + (2 * i - 1)] = Numeral(ds[i].ip)
               /\ Linea(f, ds)[k + 2 * i] = Numeral(ds[i].puerto)
<1> DEFINE n == Len(ds)
           g == [i \in 1 .. 2 * n |->
                   Numeral(IF i % 2 = 1 THEN ds[(i + 1) \div 2].ip
                                        ELSE ds[i \div 2].puerto)]
           h == IF f = Vacio THEN <<>> ELSE <<f>>
<1>1. n \in Nat /\ \A i \in 1 .. n : ds[i] \in Direccion
  BY LenProperties, ElementOfSeq
<1>2. \A i \in 1 .. n : g[2 * i - 1] = Numeral(ds[i].ip) /\ g[2 * i] = Numeral(ds[i].puerto)
  <2> TAKE i \in 1 .. n
  <2>1. 2 * i - 1 \in 1 .. 2 * n /\ 2 * i \in 1 .. 2 * n /\ i \in Int
    BY <1>1, SMT
  <2>2. /\ (2 * i - 1) % 2 = 1 /\ ((2 * i - 1) + 1) \div 2 = i
        /\ (2 * i) % 2 = 0 /\ (2 * i) \div 2 = i
    BY <2>1, Paridad
  <2> QED BY <2>1, <2>2
<1>3. \A j \in 1 .. 2 * n : g[j] \in Textos
  <2> TAKE j \in 1 .. 2 * n
  <2>1. PICK i \in 1 .. n : j = 2 * i - 1 \/ j = 2 * i
    BY <1>1, ParImpar
  <2>2. Numeral(ds[i].ip) \in Textos /\ Numeral(ds[i].puerto) \in Textos
    BY <1>1, EscritosDef DEF Direccion
  <2> QED BY <1>2, <2>1, <2>2
<1>4. g \in Seq(Textos) /\ Len(g) = 2 * n
  <2>1. 2 * n \in Nat /\ g \in [1 .. 2 * n -> Textos]
    BY <1>1, <1>3
  <2>2. g \in Seq(Textos)
    BY <2>1, SeqDef
  <2>3. DOMAIN g = 1 .. 2 * n /\ DOMAIN g = 1 .. Len(g) /\ Len(g) \in Nat
    BY <2>2, LenProperties
  <2> QED BY <2>1, <2>2, <2>3
<1>5. h \in Seq(Textos) /\ Len(h) = k /\ (f # Vacio => h[1] = f)
  OBVIOUS
<1>6. Linea(f, ds) = h \o g
  BY DEF Linea
<1> HIDE DEF g, h
<1>7. /\ h \o g \in Seq(Textos)
      /\ Len(h \o g) = k + 2 * n
      /\ \A j \in 1 .. k + 2 * n :
            (h \o g)[j] = IF j <= k THEN h[j] ELSE g[j - k]
  <2>1. /\ h \o g \in Seq(Textos)
        /\ Len(h \o g) = Len(h) + Len(g)
        /\ \A j \in 1 .. Len(h) + Len(g) :
              (h \o g)[j] = IF j <= Len(h) THEN h[j] ELSE g[j - Len(h)]
    BY <1>4, <1>5, ConcatProperties, Zenon
  <2> QED BY <1>4, <1>5, <2>1, Zenon
<1>8. f # Vacio => (h \o g)[1] = f
  BY <1>1, <1>5, <1>7
<1>9. \A i \in 1 .. n : /\ (h \o g)[k + (2 * i - 1)] = g[2 * i - 1]
                        /\ (h \o g)[k + 2 * i] = g[2 * i]
  <2> TAKE i \in 1 .. n
  <2>1. /\ k + (2 * i - 1) \in 1 .. k + 2 * n /\ ~(k + (2 * i - 1) <= k)
        /\ k + 2 * i \in 1 .. k + 2 * n /\ ~(k + 2 * i <= k)
        /\ (k + (2 * i - 1)) - k = 2 * i - 1 /\ (k + 2 * i) - k = 2 * i
    BY <1>1, SMT
  <2> QED BY <1>7, <2>1
<1> QED BY <1>2, <1>6, <1>7, <1>8, <1>9

\* What one successful extraction of recuperar_datos yields and leaves.
LEMMA LeidoTipo ==
  ASSUME NEW s \in Seq(Textos), Legible(s)
  PROVE  /\ LeidoDe(s) \in Altas
         /\ RestoDe(s) \in Seq(Textos)
<1>1. Len(s) \in Nat /\ 3 <= Len(s) /\ \A i \in 1 .. Len(s) : s[i] \in Textos
  BY LenProperties, ElementOfSeq DEF Legible
<1>2. s[1] \in Textos /\ s[2] \in Textos /\ s[3] \in Textos
  BY <1>1
<1>3. s[2].num \in U32 /\ s[3].num \in U16
  BY DEF Legible
<1>4. s[2].num # NoNum /\ s[3].num # NoNum
  BY <1>3, NumAssumption, MaxU16Tipo DEF U32, U16
<1>5. s[2].num \in Escritos(U32) /\ s[3].num \in Escritos(U16)
  BY <1>2, <1>3, <1>4, CierreAssumption, EscritosDef
<1>6. LeidoDe(s) \in Altas
  BY <1>2, <1>5 DEF LeidoDe, Altas
<1>7. SubSeq(s, 4, Len(s)) \in Seq(Textos)
  BY <1>1, SubSeqProperties
<1>8. (IF s[3].resto = "" THEN <<>> ELSE <<Palabra(s[3].resto)>>) \in Seq(Textos)
  <2>1. CASE s[3].resto = ""
    <3>1. << >> \in Seq(Textos)
      BY EmptySeq
    <3> QED BY <2>1, <3>1, Zenon
  <2>2. CASE s[3].resto # ""
    <3>1. Palabra(s[3].resto) \in Textos
      BY <1>2, <2>2, CierreAssumption
    <3>2. <<Palabra(s[3].resto)>> \in Seq(Textos)
      BY <3>1
    <3> QED BY <2>2, <3>2
  <2> QED BY <2>1, <2>2
<1> QED BY <1>6, <1>7, <1>8, ConcatProperties DEF RestoDe
=============================================================================
