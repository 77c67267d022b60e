------------------------- MODULE ConcurrenteProofs -------------------------
(***************************************************************************)
(* What agregar_cliente keeps without a lock, for any number of threads,   *)
(* files and registrations, as long as no two accesses collide.            *)
(***************************************************************************)
EXTENDS AlmacenConcurrente, FiniteSetTheorems, SequenceTheorems, TLAPS

EnAlta == {"busca", "esta", "falta", "empuja", "inserta"}

\* A registration of f that is confirmed and not stored, or whose thread has
\* seen no entry for f: it is lost, or will be.
EnDeuda(f) ==
    { a \in Altas : /\ FicheroDe[a] = f
                    /\ \/ a \in confirmadas /\ ~Guardada(a)
                       \/ \E h \in Hebras : pc[h] \in {"falta", "inserta"} /\ que[h] = a }

\* The debt of a file is fixed when its first entry is made, and includes
\* at most one registration of every other thread.
InvConc ==
    /\ TypeOKConc
    /\ \A h \in Hebras : pc[h] \in EnAlta => que[h] \in Altas
    /\ ListadoCompleto
    /\ ~carrera => \A f \in Ficheros : tabla[f] # << >> =>
          IsFiniteSet(EnDeuda(f)) /\ Cardinality(EnDeuda(f)) < Cardinality(Hebras)

LEMMA HebrasFinito ==
  /\ IsFiniteSet(Hebras)
  /\ \A h \in Hebras : /\ IsFiniteSet(Hebras \ {h})
                       /\ Cardinality(Hebras \ {h}) < Cardinality(Hebras)
<1>1. IsFiniteSet(Hebras)
  BY ConcurrenteAssumption, FS_AddElement DEF Hebras
<1>2. Cardinality(Hebras) \in Nat
  BY <1>1, FS_CardinalityType
<1>3. ASSUME NEW h \in Hebras
      PROVE  IsFiniteSet(Hebras \ {h}) /\ Cardinality(Hebras \ {h}) = Cardinality(Hebras) - 1
  BY <1>1, FS_RemoveElement
<1> QED BY <1>1, <1>2, <1>3

\* What each thread but one has in hand are fewer things than threads.
LEMMA EnManos ==
  ASSUME NEW h \in Hebras, NEW v, NEW S, \A a \in S : \E k \in Hebras \ {h} : v[k] = a
  PROVE  IsFiniteSet(S) /\ Cardinality(S) < Cardinality(Hebras)
<1> DEFINE H == Hebras \ {h}
           w == [k \in H |-> v[k]]
           T == { v[k] : k \in H }
<1>1. IsFiniteSet(H) /\ Cardinality(H) < Cardinality(Hebras) /\ Cardinality(Hebras) \in Nat
  BY HebrasFinito, FS_CardinalityType
<1>2. w \in Surjection(H, T)
  BY DEF Surjection
<1>3. IsFiniteSet(T) /\ Cardinality(T) <= Cardinality(H)
  BY <1>1, <1>2, FS_Surjection
<1>4. S \subseteq T
  OBVIOUS
<1>5. IsFiniteSet(S) /\ Cardinality(S) <= Cardinality(T)
  BY <1>3, <1>4, FS_Subset
<1>6. Cardinality(S) \in Nat /\ Cardinality(T) \in Nat /\ Cardinality(H) \in Nat
  BY <1>1, <1>3, <1>5, FS_CardinalityType
<1> QED BY <1>1, <1>3, <1>5, <1>6

LEMMA MenosDeuda ==
  ASSUME NEW S, NEW T, T \subseteq S,
         IsFiniteSet(S), Cardinality(S) < Cardinality(Hebras)
  PROVE  IsFiniteSet(T) /\ Cardinality(T) < Cardinality(Hebras)
<1>1. IsFiniteSet(T) /\ Cardinality(T) <= Cardinality(S)
  BY FS_Subset
<1>2. Cardinality(S) \in Nat /\ Cardinality(T) \in Nat /\ Cardinality(Hebras) \in Nat
  BY <1>1, HebrasFinito, FS_CardinalityType
<1> QED BY <1>1, <1>2

LEMMA InitInvConc == InitConc => InvConc
<1> SUFFICES ASSUME InitConc PROVE InvConc
  OBVIOUS
<1>1. \A f \in Ficheros : tabla[f] = << >> /\ << >> \in Seq(Altas)
  BY DEF InitConc
<1>2. TypeOKConc
  BY <1>1 DEF InitConc, TypeOKConc
<1>3. ListadoCompleto /\ \A h \in Hebras : pc[h] \notin EnAlta
  BY DEF InitConc, ListadoCompleto, EnAlta
<1> QED BY <1>1, <1>2, <1>3 DEF InvConc

\* A thread moves on and the table stays: nothing but find can add to a debt,
\* and find adds only to the debt of a file that is not there.
LEMMA PasoSinTabla ==
  ASSUME InvConc, NEW h \in Hebras, NEW p \in {"libre", "esta", "falta"} \cup Accesos,
         NEW q \in Altas \cup Ficheros \cup {Nada}, Va(h, p, q),
         p \in EnAlta => q \in Altas,
         p = "falta" => tabla[FicheroDe[q]] = << >>,
         p = "inserta" => pc[h] = "falta" /\ q = que[h],
         UNCHANGED <<tabla, confirmadas>>
  PROVE  InvConc'
<1>1. TypeOKConc' /\ (\A k \in Hebras : pc'[k] \in EnAlta => que'[k] \in Altas)
  BY DEF Va, InvConc, TypeOKConc
<1>2. ListadoCompleto'
  BY DEF Va, InvConc, ListadoCompleto
<1>3. ASSUME ~carrera', NEW f \in Ficheros, tabla'[f] # << >>
      PROVE  IsFiniteSet(EnDeuda(f)') /\ Cardinality(EnDeuda(f)') < Cardinality(Hebras)
  <2>1. ~carrera /\ tabla[f] # << >>
    BY <1>3 DEF Va
  <2>2. ASSUME NEW a \in EnDeuda(f)' PROVE a \in EnDeuda(f)
    <3>1. a \in Altas /\ FicheroDe[a] = f
      BY <2>2 DEF EnDeuda
    <3>2. CASE a \in confirmadas' /\ ~Guardada(a)'
      BY <3>1, <3>2 DEF EnDeuda, Guardada
    <3>3. CASE \E k \in Hebras : pc'[k] \in {"falta", "inserta"} /\ que'[k] = a
      <4>1. PICK k \in Hebras : pc'[k] \in {"falta", "inserta"} /\ que'[k] = a
        BY <3>3
      <4>2. CASE k # h
        BY <3>1, <4>1, <4>2 DEF EnDeuda, Va, InvConc, TypeOKConc
      <4>3. CASE k = h
        <5>1. p \in {"falta", "inserta"} /\ q = a
          BY <4>1, <4>3 DEF Va, InvConc, TypeOKConc
        <5>2. p # "falta"
          BY <2>1, <3>1, <5>1
        <5> QED BY <3>1, <5>1, <5>2 DEF EnDeuda
      <4> QED BY <4>2, <4>3
    <3> QED BY <2>2, <3>2, <3>3 DEF EnDeuda
  <2>3. EnDeuda(f)' \subseteq EnDeuda(f)
    BY <2>2
  <2>4. IsFiniteSet(EnDeuda(f)) /\ Cardinality(EnDeuda(f)) < Cardinality(Hebras)
    BY <2>1 DEF InvConc
  <2> QED BY <2>3, <2>4, MenosDeuda
<1> QED BY <1>1, <1>2, <1>3 DEF InvConc

\* agregar_cliente returns: the table keeps what it held, and holds the new
\* registration unless another one came first.
LEMMA PasoConfirma ==
  ASSUME InvConc, NEW h \in Hebras, FinPushBack(h) \/ FinEmplace(h)
  PROVE  InvConc'
<1>0. PICK a0 \in Altas, f0 \in Ficheros : a0 = que[h] /\ f0 = FicheroDe[a0]
  BY ConcurrenteAssumption DEF InvConc, EnAlta, FinPushBack, FinEmplace
<1>1. a0 \in Altas /\ f0 \in Ficheros /\ pc[h] \in {"empuja", "inserta"}
  BY DEF FinPushBack, FinEmplace
<1>2. /\ pc' = [pc EXCEPT ![h] = "libre"] /\ que' = [que EXCEPT ![h] = Nada]
      /\ confirmadas' = confirmadas \cup {a0}
      /\ carrera => carrera'
      /\ carrera' \in BOOLEAN /\ activo' \in BOOLEAN
  BY <1>0 DEF FinPushBack, FinEmplace, Confirma, Va, InvConc, TypeOKConc
<1>3. tabla[f0] \in Seq(Altas)
  BY <1>1 DEF InvConc, TypeOKConc
<1>4. /\ tabla' \in [Ficheros -> Seq(Altas)]
      /\ \A f \in Ficheros \ {f0} : tabla'[f] = tabla[f]
      /\ \/ tabla'[f0] = Append(tabla[f0], a0)
         \/ pc[h] = "inserta" /\ tabla[f0] # << >> /\ tabla'[f0] = tabla[f0]
  <2>1. Append(tabla[f0], a0) \in Seq(Altas) /\ Append(<< >>, a0) = <<a0>>
    BY <1>1, <1>3, AppendProperties
  <2>0. ASSUME NEW v \in Seq(Altas), tabla' = [tabla EXCEPT ![f0] = v]
        PROVE  /\ tabla' \in [Ficheros -> Seq(Altas)] /\ tabla'[f0] = v
               /\ \A f \in Ficheros \ {f0} : tabla'[f] = tabla[f]
    BY <2>0 DEF InvConc, TypeOKConc
  <2>2. CASE FinPushBack(h)
    <3>1. tabla' = [tabla EXCEPT ![f0] = Append(tabla[f0], a0)]
      BY <1>0, <2>2 DEF FinPushBack
    <3>2. PICK v \in Seq(Altas) : v = Append(tabla[f0], a0)
      BY <2>1
    <3>3. /\ tabla' \in [Ficheros -> Seq(Altas)] /\ tabla'[f0] = v
          /\ \A f \in Ficheros \ {f0} : tabla'[f] = tabla[f]
      BY <2>0, <3>1, <3>2
    <3> QED BY <3>2, <3>3, Zenon
  <2>3. CASE FinEmplace(h)
    <3>1. pc[h] = "inserta"
          /\ tabla' = [tabla EXCEPT ![f0] = IF tabla[f0] = << >> THEN <<a0>> ELSE tabla[f0]]
      BY <1>0, <2>3 DEF FinEmplace
    <3>2. CASE tabla[f0] = << >>
      <4>1. tabla' = [tabla EXCEPT ![f0] = Append(tabla[f0], a0)]
        BY <2>1, <3>1, <3>2
      <4>2. PICK v \in Seq(Altas) : v = Append(tabla[f0], a0)
        BY <2>1
      <4>3. /\ tabla' \in [Ficheros -> Seq(Altas)] /\ tabla'[f0] = v
            /\ \A f \in Ficheros \ {f0} : tabla'[f] = tabla[f]
        BY <2>0, <4>1, <4>2
      <4> QED BY <4>2, <4>3, Zenon
    <3>3. CASE tabla[f0] # << >>
      <4>1. tabla' = [tabla EXCEPT ![f0] = tabla[f0]]
        BY <3>1, <3>3
      <4> QED BY <1>3, <2>0, <3>1, <3>3, <4>1
    <3> QED BY <3>2, <3>3
  <2> QED BY <2>2, <2>3
<1>5. /\ DOMAIN tabla[f0] = 1 .. Len(tabla[f0]) /\ Len(tabla[f0]) \in Nat
      /\ DOMAIN Append(tabla[f0], a0) = 1 .. Len(tabla[f0]) + 1
      /\ \A i \in 1 .. Len(tabla[f0]) : Append(tabla[f0], a0)[i] = tabla[f0][i]
      /\ Append(tabla[f0], a0)[Len(tabla[f0]) + 1] = a0
      /\ Append(tabla[f0], a0) # << >>
  BY <1>1, <1>3, AppendProperties, LenProperties
<1>6. \A a \in Altas : Guardada(a) => Guardada(a)'
  <2> SUFFICES ASSUME NEW a \in Altas, Guardada(a) PROVE Guardada(a)'
    OBVIOUS
  <2>0. FicheroDe[a] \in Ficheros
    BY ConcurrenteAssumption
  <2>1. CASE FicheroDe[a] # f0
    <3>1. tabla'[FicheroDe[a]] = tabla[FicheroDe[a]]
      BY <1>4, <2>0, <2>1
    <3> QED BY <3>1 DEF Guardada
  <2>2. CASE FicheroDe[a] = f0 /\ tabla'[f0] = tabla[f0]
    BY <2>2 DEF Guardada
  <2>3. CASE FicheroDe[a] = f0 /\ tabla'[f0] = Append(tabla[f0], a0)
    <3>1. PICK i \in DOMAIN tabla[f0] : tabla[f0][i] = a
      BY <2>3 DEF Guardada
    <3>2. i \in DOMAIN tabla'[f0] /\ tabla'[f0][i] = a
      BY <1>5, <2>3, <3>1
    <3> QED BY <2>3, <3>2 DEF Guardada
  <2> QED BY <1>4, <2>1, <2>2, <2>3
<1>7. tabla'[f0] = Append(tabla[f0], a0) => Guardada(a0)'
  <2> SUFFICES ASSUME tabla'[f0] = Append(tabla[f0], a0) PROVE Guardada(a0)'
    OBVIOUS
  <2>1. Len(tabla[f0]) + 1 \in DOMAIN tabla'[f0] /\ tabla'[f0][Len(tabla[f0]) + 1] = a0
    BY <1>5
  <2>2. FicheroDe[a0] = f0
    BY <1>0
  <2>3. \E i \in DOMAIN tabla'[FicheroDe[a0]] : tabla'[FicheroDe[a0]][i] = a0
    BY <2>1, <2>2
  <2> QED BY <2>3 DEF Guardada
<1>8. tabla'[f0] # << >> /\ \A f \in Ficheros : tabla[f] # << >> => tabla'[f] # << >>
  BY <1>4, <1>5
<1>9. TypeOKConc' /\ (\A k \in Hebras : pc'[k] \in EnAlta => que'[k] \in Altas)
  BY <1>1, <1>2, <1>4 DEF InvConc, TypeOKConc, EnAlta
<1>10. ListadoCompleto'
  <2> SUFFICES ASSUME ~carrera', NEW a \in confirmadas' PROVE tabla'[FicheroDe[a]] # << >>
    BY DEF ListadoCompleto
  <2>1. CASE a = a0
    BY <1>0, <1>8, <2>1
  <2>2. CASE a \in confirmadas
    <3>1. a \in Altas /\ FicheroDe[a] \in Ficheros
      BY <2>2, ConcurrenteAssumption DEF InvConc, TypeOKConc
    <3>2. tabla[FicheroDe[a]] # << >>
      BY <1>2, <2>2 DEF InvConc, ListadoCompleto
    <3> QED BY <1>8, <3>1, <3>2
  <2> QED BY <1>2, <2>1, <2>2
<1>11. ASSUME ~carrera', NEW f \in Ficheros, tabla'[f] # << >>
       PROVE  IsFiniteSet(EnDeuda(f)') /\ Cardinality(EnDeuda(f)') < Cardinality(Hebras)
  <2>1. CASE tabla[f] # << >>
    <3>1. ASSUME NEW a \in EnDeuda(f)' PROVE a \in EnDeuda(f)
      <4>1. a \in Altas /\ FicheroDe[a] = f
        BY <3>1 DEF EnDeuda
      <4>2. CASE a \in confirmadas /\ ~Guardada(a)'
        BY <1>6, <4>1, <4>2 DEF EnDeuda
      <4>3. CASE a = a0 /\ ~Guardada(a)'
        <5>1. pc[h] = "inserta"
          BY <1>4, <1>7, <4>3
        <5> QED BY <1>0, <4>1, <4>3, <5>1 DEF EnDeuda
      <4>4. CASE \E k \in Hebras : pc'[k] \in {"falta", "inserta"} /\ que'[k] = a
        <5>1. PICK k \in Hebras : pc'[k] \in {"falta", "inserta"} /\ que'[k] = a
          BY <4>4
        <5>2. k # h /\ pc[k] = pc'[k] /\ que[k] = que'[k]
          BY <1>2, <5>1 DEF InvConc, TypeOKConc
        <5> QED BY <4>1, <5>1, <5>2 DEF EnDeuda
      <4> QED BY <1>2, <3>1, <4>2, <4>3, <4>4 DEF EnDeuda
    <3>2. IsFiniteSet(EnDeuda(f)) /\ Cardinality(EnDeuda(f)) < Cardinality(Hebras)
      BY <1>2, <1>11, <2>1 DEF InvConc
    <3>3. EnDeuda(f)' \subseteq EnDeuda(f)
      BY <3>1
    <3> QED BY <3>2, <3>3, MenosDeuda
  <2>2. CASE tabla[f] = << >>
    <3>1. f = f0 /\ tabla'[f0] = Append(tabla[f0], a0)
      BY <1>4, <1>11, <2>2
    <3>2. ASSUME NEW a \in EnDeuda(f)' PROVE \E k \in Hebras \ {h} : que[k] = a
      <4>1. a \in Altas /\ FicheroDe[a] = f
        BY <3>2 DEF EnDeuda
      <4>2. a \notin confirmadas
        BY <1>2, <1>11, <2>2, <4>1 DEF InvConc, ListadoCompleto
      <4>3. ~(a \in confirmadas' /\ ~Guardada(a)')
        <5>1. a \in confirmadas' => a = a0
          BY <1>2, <4>2
        <5> QED BY <1>7, <3>1, <5>1
      <4>4. PICK k \in Hebras : pc'[k] \in {"falta", "inserta"} /\ que'[k] = a
        BY <3>2, <4>3 DEF EnDeuda
      <4>5. k # h /\ que[k] = que'[k]
        BY <1>2, <4>4 DEF InvConc, TypeOKConc
      <4> QED BY <4>4, <4>5
    <3> QED BY <3>2, EnManos
  <2> QED BY <2>1, <2>2
<1> QED BY <1>9, <1>10, <1>11 DEF InvConc

LEMMA PasoInvConc == InvConc /\ [NextConc]_varsConc => InvConc'
<1> SUFFICES ASSUME InvConc, [NextConc]_varsConc PROVE InvConc'
  OBVIOUS
<1>1. ASSUME NEW h \in Hebras, NEW a \in Altas, Busca(h, a) PROVE InvConc'
  BY <1>1, PasoSinTabla DEF Busca, Accesos
<1>2. ASSUME NEW h \in Hebras, FinBusca(h) PROVE InvConc'
  <2>1. que[h] \in Altas
    BY <1>2 DEF FinBusca, InvConc, EnAlta
  <2>2. CASE tabla[FicheroDe[que[h]]] = << >>
    <3>1. Va(h, "falta", que[h]) /\ UNCHANGED <<tabla, confirmadas>>
      BY <1>2, <2>2 DEF FinBusca
    <3> QED BY <2>1, <2>2, <3>1, PasoSinTabla
  <2>3. CASE tabla[FicheroDe[que[h]]] # << >>
    <3>1. Va(h, "esta", que[h]) /\ UNCHANGED <<tabla, confirmadas>>
      BY <1>2, <2>3 DEF FinBusca
    <3> QED BY <2>1, <3>1, PasoSinTabla
  <2> QED BY <2>2, <2>3
<1>3. ASSUME NEW h \in Hebras, PushBack(h) \/ Emplace(h) PROVE InvConc'
  <2>1. que[h] \in Altas
    BY <1>3 DEF PushBack, Emplace, InvConc, EnAlta
  <2> QED BY <1>3, <2>1, PasoSinTabla DEF PushBack, Emplace, Accesos
<1>4. ASSUME NEW h \in Hebras, FinPushBack(h) \/ FinEmplace(h) PROVE InvConc'
  BY <1>4, PasoConfirma
<1>5. ASSUME NEW h \in Hebras, ToHtml(h) \/ FinLectura(h) PROVE InvConc'
  BY <1>5, PasoSinTabla DEF ToHtml, FinLectura, Accesos, EnAlta
<1>6. CASE ObtenerFicheros
  <2>1. Principal \in Hebras
    BY DEF Hebras
  <2> QED BY <1>6, <2>1, PasoSinTabla DEF ObtenerFicheros, Accesos, EnAlta
<1>7. ASSUME NEW f \in Ficheros, ObtenerCliente(f) PROVE InvConc'
  <2>1. Principal \in Hebras
    BY DEF Hebras
  <2> QED BY <1>7, <2>1, PasoSinTabla DEF ObtenerCliente, Accesos, EnAlta
<1>8. CASE Primero
  <2>1. Principal \in Hebras /\ que[Principal] \in Altas \cup Ficheros \cup {Nada}
    BY DEF Hebras, InvConc, TypeOKConc
  <2> QED BY <1>8, <2>1, PasoSinTabla DEF Primero, Accesos, EnAlta
<1>9. CASE Dana
  <2>1. carrera' /\ carrera
    BY <1>9 DEF Dana
  <2>2. tabla' \in [Ficheros -> Seq(Altas)]
    BY <1>9 DEF Dana, InvConc, TypeOKConc
  <2> QED BY <1>9, <2>1, <2>2 DEF Dana, InvConc, TypeOKConc, ListadoCompleto
<1>10. CASE Cae
  <2>1. carrera' /\ carrera
    BY <1>10 DEF Cae
  <2> QED BY <1>10, <2>1 DEF Cae, InvConc, TypeOKConc, ListadoCompleto
<1>11. CASE UNCHANGED varsConc
  <2>1. ListadoCompleto' = ListadoCompleto /\ \A f \in Ficheros : EnDeuda(f)' = EnDeuda(f)
    BY <1>11 DEF varsConc, ListadoCompleto, EnDeuda, Guardada
  <2> QED BY <1>11, <2>1 DEF varsConc, InvConc, TypeOKConc
<1> QED
  BY <1>1, <1>2, <1>3, <1>4, <1>5, <1>6, <1>7, <1>8, <1>9, <1>10, <1>11 DEF NextConc

LEMMA InvAcota == InvConc => PerdidasAcotadas
<1> SUFFICES ASSUME InvConc, ~carrera, NEW f \in Ficheros
             PROVE  Cardinality(Perdidas(f)) < Cardinality(Hebras)
  BY DEF PerdidasAcotadas
<1>1. Perdidas(f) \subseteq EnDeuda(f)
  BY DEF Perdidas, EnDeuda, InvConc, TypeOKConc
<1>2. CASE tabla[f] # << >>
  BY <1>1, <1>2, MenosDeuda DEF InvConc
<1>3. CASE tabla[f] = << >>
  <2>1. Perdidas(f) = {}
    BY <1>3 DEF Perdidas, InvConc, ListadoCompleto
  <2>2. Cardinality(Perdidas(f)) = 0
    BY <2>1, FS_EmptySet
  <2>3. Principal \in Hebras
    BY DEF Hebras
  <2>4. Cardinality(Hebras \ {Principal}) < Cardinality(Hebras)
    BY <2>3, HebrasFinito
  <2>5. Cardinality(Hebras \ {Principal}) \in Nat /\ Cardinality(Hebras) \in Nat
    BY <2>3, HebrasFinito, FS_CardinalityType
  <2> QED BY <2>2, <2>4, <2>5
<1> QED BY <1>2, <1>3

\* For any number of threads: a file of which a registration was confirmed
\* stays on the list, as long as no two accesses have collided.
THEOREM ListadoCompletoSiempre == SpecConc => []ListadoCompleto
<1>1. InvConc => ListadoCompleto
  BY DEF InvConc
<1> QED BY <1>1, InitInvConc, PasoInvConc, PTL DEF SpecConc

\* For any number of threads and registrations: of each file fewer confirmed
\* registrations are lost than there are threads, for ever.
THEOREM PerdidasAcotadasSiempre == SpecConc => []PerdidasAcotadas
BY InitInvConc, PasoInvConc, InvAcota, PTL DEF SpecConc

\* For any number of threads, also after a collision has damaged the table: the
\* types of the shared table and of what every thread is doing with it.
THEOREM TipoConcurrente == SpecConc => []TypeOKConc
<1>1. InvConc => TypeOKConc
  BY DEF InvConc
<1> QED BY <1>1, InitInvConc, PasoInvConc, PTL DEF SpecConc
=============================================================================
