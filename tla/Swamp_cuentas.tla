----------------------------- MODULE Swamp_cuentas -----------------------------
(***************************************************************************)
(* What swamp and memoria count on their own, and never disagree about:    *)
(* the space of each file and its free frames, the frames of a process     *)
(* with fixed assignment, and the pages of a process in swamp and in the   *)
(* page table of memoria.                                                  *)
(***************************************************************************)
EXTENDS Swamp_proofs, Conteo

-----------------------------------------------------------------------------
\* Sets and lists.

Imagen(s, n) == {s[i] : i \in 1 .. n}

Creciente(l) == \A i, j \in 1 .. Len(l) : i < j => l[i] < l[j]

Siguiente(l) == IF l = <<>> THEN 0 ELSE Last(l) + 1

\* A list without repetitions has as many elements as places.
LEMMA CardImagen ==
    ASSUME NEW n \in Nat, NEW s, \A i, j \in 1 .. n : s[i] = s[j] => i = j
    PROVE  IsFiniteSet(Imagen(s, n)) /\ Cardinality(Imagen(s, n)) = n
<1>. DEFINE B == Imagen(s, n)
            f == [i \in 1 .. n |-> s[i]]
<1>1. f \in [1 .. n -> B] /\ \A i, j \in 1 .. n : f[i] = f[j] => i = j
  BY DEF Imagen
<1>2. \A b \in B : \E i \in 1 .. n : f[i] = b
  BY DEF Imagen
<1>3. f \in Bijection(1 .. n, B)
  <2>. HIDE DEF f, B
  <2>. QED
    BY <1>1, <1>2 DEF Bijection, Injection, Surjection, IsInjective
<1>4. ExistsBijection(1 .. n, B)
  <2>. HIDE DEF f, B
  <2>. QED
    BY <1>3 DEF ExistsBijection
<1>5. IsFiniteSet(1 .. n) /\ Cardinality(1 .. n) = n
  BY FS_Interval
<1>6. IsFiniteSet(B) /\ Cardinality(B) = n
  <2>. HIDE DEF f, B
  <2>. QED
    BY <1>4, <1>5, FS_Bijection
<1>. QED
  BY <1>6

\* Taking n elements out of a set leaves n less.
LEMMA SinImagen ==
    ASSUME NEW S, IsFiniteSet(S), NEW n \in Nat, NEW s \in [1 .. n -> S],
           \A i, j \in 1 .. n : s[i] = s[j] => i = j
    PROVE  /\ Cardinality(S) \in Nat /\ n <= Cardinality(S)
           /\ Cardinality(S \ Imagen(s, n)) = Cardinality(S) - n
<1>1. Imagen(s, n) \subseteq S /\ S \cap Imagen(s, n) = Imagen(s, n)
  BY DEF Imagen
<1>2. IsFiniteSet(Imagen(s, n)) /\ Cardinality(Imagen(s, n)) = n
  BY CardImagen
<1>3. Cardinality(S) \in Nat
  BY FS_CardinalityType
<1>4. n <= Cardinality(S)
  <2>1. Imagen(s, n) \in SUBSET S
    BY <1>1
  <2>. QED
    BY <1>2, <2>1, FS_Subset
<1>5. Cardinality(S \ Imagen(s, n)) = Cardinality(S) - Cardinality(S \cap Imagen(s, n))
  BY FS_Difference
<1>. QED
  BY <1>1, <1>2, <1>3, <1>4, <1>5

\* A set with one element at most.
LEMMA UnoOCero ==
    ASSUME NEW S, \A x, y \in S : x = y
    PROVE  Cardinality(S) = IF S = {} THEN 0 ELSE 1
<1>1. CASE S = {}
  BY <1>1, FS_EmptySet
<1>2. CASE S # {}
  <2>1. PICK x \in S : TRUE
    BY <1>2
  <2>2. S = {x}
    BY <2>1
  <2>. QED
    BY <1>2, <2>2, FS_Singleton
<1>. QED
  BY <1>1, <1>2

\* In increasing order, an element that is taken away is not there any more.
LEMMA QuitarCreciente ==
    ASSUME NEW l \in Seq(Nat), Creciente(l), NEW i \in 1 .. Len(l)
    PROVE  /\ Creciente(RemoveAt(l, i))
           /\ ToSet(RemoveAt(l, i)) = ToSet(l) \ {l[i]}
<1>. DEFINE r == RemoveAt(l, i)
<1>1. r \in Seq(Nat) /\ SinEl(i, l, r)
  BY ContarRemoveAt
<1>2. /\ Len(l) \in Nat /\ Len(r) \in Nat /\ Len(r) = Len(l) - 1
      /\ DOMAIN r = 1 .. Len(r) /\ DOMAIN l = 1 .. Len(l)
      /\ \A j \in 1 .. Len(l) : l[j] \in Nat
  BY <1>1, LenProperties, ElementOfSeq DEF SinEl
<1>. HIDE DEF r
<1>3. ASSUME NEW j \in 1 .. Len(r)
      PROVE  r[j] = l[IF j < i THEN j ELSE j + 1]
  <2>1. CASE j < i
    <3>1. j \in 1 .. i - 1
      BY <1>2, <2>1
    <3>. QED
      BY <1>1, <2>1, <3>1 DEF SinEl
  <2>2. CASE ~(j < i)
    <3>1. j \in i .. Len(r)
      BY <1>2, <2>2
    <3>. QED
      BY <1>1, <2>2, <3>1 DEF SinEl
  <2>. QED
    BY <2>1, <2>2
<1>4. ASSUME NEW j \in 1 .. Len(r), NEW k \in 1 .. Len(r), j < k
      PROVE  r[j] < r[k]
  <2>. DEFINE a == IF j < i THEN j ELSE j + 1
              b == IF k < i THEN k ELSE k + 1
  <2>1. a \in 1 .. Len(l) /\ b \in 1 .. Len(l) /\ a < b
    BY <1>2, <1>4
  <2>2. r[j] = l[a] /\ r[k] = l[b]
    BY <1>3
  <2>. HIDE DEF a, b
  <2>. QED
    BY <2>1, <2>2 DEF Creciente
<1>5. ASSUME NEW j \in 1 .. Len(r)  PROVE r[j] # l[i]
  <2>. DEFINE a == IF j < i THEN j ELSE j + 1
  <2>1. a \in 1 .. Len(l) /\ (a < i \/ i < a)
    BY <1>2
  <2>2. r[j] = l[a]
    BY <1>3
  <2>. HIDE DEF a
  <2>3. l[a] < l[i] \/ l[i] < l[a]
    BY <2>1 DEF Creciente
  <2>. QED
    BY <1>2, <2>1, <2>2, <2>3
<1>6. ToSet(l) = ToSet(r) \cup {l[i]}
  BY <1>1, MiembrosSinEl
<1>7. l[i] \notin ToSet(r)
  BY <1>2, <1>5 DEF ToSet
<1>8. Creciente(r)
  BY <1>4 DEF Creciente
<1>. QED
  BY <1>6, <1>7, <1>8 DEF r

\* The number that follows a list in increasing order is above all of it.
LEMMA SiguienteArriba ==
    ASSUME NEW l \in Seq(Nat), Creciente(l)
    PROVE  /\ Siguiente(l) \in Nat
           /\ \A x \in ToSet(l) : x < Siguiente(l)
           /\ l # <<>> => Siguiente(l) - 1 \in ToSet(l)
<1>1. Len(l) \in Nat /\ DOMAIN l = 1 .. Len(l) /\ \A j \in 1 .. Len(l) : l[j] \in Nat
  BY LenProperties, ElementOfSeq
<1>2. CASE l = <<>>
  <2>1. ToSet(l) = {}
    BY <1>2 DEF ToSet
  <2>. QED
    BY <1>2, <2>1 DEF Siguiente
<1>3. CASE l # <<>>
  <2>1. Len(l) \in 1 .. Len(l)
    BY <1>1, <1>3, EmptySeq
  <2>2. Siguiente(l) = l[Len(l)] + 1 /\ l[Len(l)] \in Nat
    BY <1>1, <1>3, <2>1 DEF Siguiente, Last
  <2>3. ASSUME NEW j \in 1 .. Len(l)  PROVE l[j] <= l[Len(l)]
    <3>1. CASE j = Len(l)
      BY <1>1, <2>2, <3>1
    <3>2. CASE j < Len(l)
      <4>1. l[j] < l[Len(l)]
        BY <2>1, <3>2 DEF Creciente
      <4>2. l[j] \in Nat
        BY <1>1
      <4>3. l[Len(l)] \in Nat
        BY <2>2
      <4>. QED
        BY <4>1, <4>2, <4>3
    <3>3. j = Len(l) \/ j < Len(l)
      <4>1. Len(l) \in Nat
        BY <1>1
      <4>. QED
        BY <4>1
    <3>. QED
      BY <3>1, <3>2, <3>3
  <2>4. \A x \in ToSet(l) : x \in Nat /\ x <= l[Len(l)]
    BY <1>1, <2>3 DEF ToSet
  <2>5. l[Len(l)] \in ToSet(l)
    BY <1>1, <2>1 DEF ToSet
  <2>. QED
    BY <2>2, <2>4, <2>5
<1>. QED
  BY <1>2, <1>3

\* New pages after a list in increasing order.
LEMMA AgregarCreciente ==
    ASSUME NEW l \in Seq(Nat), Creciente(l), NEW n \in Nat, NEW k, k = Siguiente(l),
           NEW e, e = [i \in 1 .. n |-> k + i - 1]
    PROVE  /\ l \o e \in Seq(Nat)
           /\ Creciente(l \o e)
           /\ ToSet(l \o e) = ToSet(l) \cup (k .. k + n - 1)
<1>1. k \in Nat /\ \A x \in ToSet(l) : x < k
  BY SiguienteArriba
<1>2. e \in Seq(Nat) /\ Len(e) = n /\ \A i \in 1 .. n : e[i] = k + i - 1
  <2>1. \A i \in 1 .. n : k + i - 1 \in Nat
    BY <1>1
  <2>. QED
    BY <2>1
<1>3. Len(l) \in Nat /\ DOMAIN l = 1 .. Len(l) /\ \A j \in 1 .. Len(l) : l[j] \in Nat /\ l[j] < k
  <2>1. Len(l) \in Nat /\ DOMAIN l = 1 .. Len(l) /\ \A j \in 1 .. Len(l) : l[j] \in Nat
    BY LenProperties, ElementOfSeq
  <2>. QED
    BY <1>1, <2>1 DEF ToSet
<1>. DEFINE c == l \o e
<1>4. /\ c \in Seq(Nat) /\ Len(c) = Len(l) + n
      /\ \A i \in 1 .. Len(l) + n : c[i] = IF i <= Len(l) THEN l[i] ELSE e[i - Len(l)]
  BY <1>2, ConcatProperties
<1>. HIDE DEF c
<1>5. DOMAIN c = 1 .. Len(l) + n
  BY <1>4, LenProperties
<1>6. ASSUME NEW i \in 1 .. Len(l) + n
      PROVE  c[i] = IF i <= Len(l) THEN l[i] ELSE k + (i - Len(l)) - 1
  <2>1. ~(i <= Len(l)) => i - Len(l) \in 1 .. n
    BY <1>3
  <2>. QED
    BY <1>2, <1>4, <2>1
<1>7. ASSUME NEW i \in 1 .. Len(l) + n, NEW j \in 1 .. Len(l) + n, i < j
      PROVE  c[i] < c[j]
  <2>1. CASE j <= Len(l)
    <3>1. c[i] = l[i] /\ c[j] = l[j] /\ i \in 1 .. Len(l) /\ j \in 1 .. Len(l)
      BY <1>3, <1>6, <1>7, <2>1
    <3>. QED
      BY <1>7, <3>1 DEF Creciente
  <2>2. CASE i <= Len(l) /\ ~(j <= Len(l))
    <3>1. c[i] = l[i] /\ c[j] = k + (j - Len(l)) - 1 /\ i \in 1 .. Len(l)
      BY <1>3, <1>6, <2>2
    <3>2. l[i] \in Nat /\ l[i] < k
      BY <1>3, <3>1
    <3>. QED
      BY <1>1, <1>3, <2>2, <3>1, <3>2
  <2>3. CASE ~(i <= Len(l))
    <3>1. c[i] = k + (i - Len(l)) - 1 /\ c[j] = k + (j - Len(l)) - 1
      BY <1>3, <1>6, <1>7, <2>3
    <3>. QED
      BY <1>1, <1>3, <1>7, <3>1
  <2>. QED
    BY <2>1, <2>2, <2>3
<1>8. ASSUME NEW x \in ToSet(c)  PROVE x \in ToSet(l) \cup (k .. k + n - 1)
  <2>1. PICK i \in 1 .. Len(l) + n : c[i] = x
    BY <1>5 DEF ToSet
  <2>2. CASE i <= Len(l)
    <3>1. x = l[i] /\ i \in 1 .. Len(l)
      BY <1>3, <1>6, <2>1, <2>2
    <3>. QED
      BY <1>3, <3>1 DEF ToSet
  <2>3. CASE ~(i <= Len(l))
    <3>1. x = k + (i - Len(l)) - 1
      BY <1>6, <2>1, <2>3
    <3>. QED
      BY <1>1, <1>3, <2>3, <3>1
  <2>. QED
    BY <2>2, <2>3
<1>9. ASSUME NEW x \in ToSet(l)  PROVE x \in ToSet(c)
  <2>1. PICK i \in 1 .. Len(l) : l[i] = x
    BY <1>3 DEF ToSet
  <2>2. i \in 1 .. Len(l) + n /\ c[i] = x
    BY <1>3, <1>6, <2>1
  <2>. QED
    BY <1>5, <2>2 DEF ToSet
<1>10. ASSUME NEW x \in k .. k + n - 1  PROVE x \in ToSet(c)
  <2>1. Len(l) + (x - k + 1) \in 1 .. Len(l) + n
    BY <1>1, <1>3
  <2>2. c[Len(l) + (x - k + 1)] = x
    BY <1>1, <1>3, <1>6, <2>1, SMTT(40)
  <2>. QED
    BY <1>5, <2>1, <2>2 DEF ToSet
<1>11. Creciente(c)
  BY <1>4, <1>7 DEF Creciente
<1>. QED
  BY <1>4, <1>8, <1>9, <1>10, <1>11 DEF c

-----------------------------------------------------------------------------
\* What each side knows of the pages of a process.

FramesOcupados(p) == {f \in Marcos : marco[f].ocupado /\ marco[f].pid = p}

\* The pages of p swamp has.
PaginasDe(p) == {marco[f].pag : f \in FramesOcupados(p)}

\* The pages of p memoria has: in its table, released and still in the socket,
\* or granted by an answer that is not read yet.
EnTabla(p) == ToSet(tabla[p])

EsLiberacion(r, p) == r.op = "LIBERAR_PAGINA" /\ r.pid = p

Liberaciones(p) == {i \in DOMAIN canal : EsLiberacion(canal[i], p)}

PorLiberar(p) == {canal[i].pag : i \in Liberaciones(p)}

SeAgregan(p) ==
    /\ respuesta.op = "RESERVAR_ESPACIO"
    /\ respuesta.pid = p
    /\ respuesta.ok \/ (Fija /\ tabla[p] # <<>>)

Otorgadas(p) ==
    IF SeAgregan(p) THEN PrimeraNueva(p) .. PrimeraNueva(p) + respuesta.cant - 1 ELSE {}

Conocidas(p) == EnTabla(p) \cup PorLiberar(p) \cup Otorgadas(p)

-----------------------------------------------------------------------------
\* The parts of the inductive invariant.

\* With dynamic assignment a free frame is nobody's.
LibresDeNadie ==
    marcosMax < 0 => \A f \in Marcos : ~marco[f].ocupado => marco[f].pid = Nadie

EspacioContado == marcosMax # 0 => EspacioExacto

\* swamp answers a request only after all that were sent before it.
CanalVacio == respuesta # Nada => canal = <<>>

TablaOrdenada == \A p \in Procesos : Creciente(tabla[p])

\* A released page is in no table, and is released once.
LiberacionesOK ==
    \A p \in Procesos :
        /\ PorLiberar(p) \cap EnTabla(p) = {}
        /\ \A i, j \in Liberaciones(p) : canal[i].pag = canal[j].pag => i = j

\* A page that is thrown or brought is in the table, unless its release is
\* behind.
ReferidasOK ==
    \A i \in DOMAIN canal :
        canal[i].op \in {"TIRAR_A_SWAP", "TRAER_DE_SWAP"} =>
            \/ canal[i].pag \in EnTabla(canal[i].pid)
            \/ \E j \in Liberaciones(canal[i].pid) : i < j /\ canal[j].pag = canal[i].pag

\* The pages asked for are numbered up to MaxPagina.
Cabe(r) == r.op = "RESERVAR_ESPACIO" => PrimeraNueva(r.pid) + r.cant - 1 <= MaxPagina

PedidosCaben == Cabe(respuesta) /\ \A i \in DOMAIN canal : Cabe(canal[i])

\* Both sides have the same pages; with fixed assignment, where memoria adds
\* pages that swamp refused, one of memoria's may be above all of swamp's.
Acuerdo(p) ==
    \/ PaginasDe(p) = Conocidas(p)
    \/ Fija /\ \E g \in Conocidas(p) : \A h \in PaginasDe(p) : h < g

NoCae == marcosMax < 0 => ~caido

IndCuentas ==
    /\ Inv /\ TypeOK
    /\ CuotaFija
    /\ LibresDeNadie /\ EspacioContado
    /\ CanalVacio /\ TablaOrdenada /\ LiberacionesOK /\ ReferidasOK /\ PedidosCaben
    /\ \A p \in Procesos : Acuerdo(p)
    /\ NoCae

-----------------------------------------------------------------------------
\* The requests of memoria.

\* The page table of a process and the number its next page gets.
LEMMA Tabla ==
    ASSUME IndCuentas, NEW p \in Procesos
    PROVE  /\ tabla[p] \in Seq(0 .. MaxPagina) /\ tabla[p] \in Seq(Nat) /\ Creciente(tabla[p])
           /\ PrimeraNueva(p) = Siguiente(tabla[p]) /\ PrimeraNueva(p) \in Nat
           /\ \A x \in EnTabla(p) : x \in Nat /\ x < PrimeraNueva(p)
           /\ \A i \in 1 .. Len(tabla[p]) : tabla[p][i] \in EnTabla(p) /\ tabla[p][i] \in 0 .. MaxPagina
<1>1. /\ tabla[p] \in Seq(0 .. MaxPagina) /\ tabla[p] \in Seq(Nat) /\ Creciente(tabla[p])
  BY DEF IndCuentas, TypeOK, Inv, Tipos, TablaOrdenada
<1>2. PrimeraNueva(p) = Siguiente(tabla[p])
  BY DEF PrimeraNueva, Siguiente
<1>3. Siguiente(tabla[p]) \in Nat /\ \A x \in EnTabla(p) : x < Siguiente(tabla[p])
  BY <1>1, SiguienteArriba DEF EnTabla
<1>4. DOMAIN tabla[p] = 1 .. Len(tabla[p])
  BY <1>1, LenProperties
<1>5. \A i \in 1 .. Len(tabla[p]) : tabla[p][i] \in EnTabla(p) /\ tabla[p][i] \in 0 .. MaxPagina
  BY <1>1, <1>4, ElementOfSeq DEF EnTabla, ToSet
<1>6. \A x \in EnTabla(p) : x \in Nat
  BY <1>1, <1>4, ElementOfSeq DEF EnTabla, ToSet
<1>. QED
  BY <1>1, <1>2, <1>3, <1>5, <1>6

\* Steps of memoria leave alone what is said of the frames.
LEMMA FramesQuietos ==
    ASSUME IndCuentas, UNCHANGED <<marcosMax, discos, caido>>
    PROVE  /\ CuotaFija' /\ LibresDeNadie' /\ EspacioContado' /\ NoCae'
           /\ Fija' = Fija
           /\ \A p : PaginasDe(p)' = PaginasDe(p)
<1>1. marcosMax' = marcosMax /\ marco' = marco /\ espacio' = espacio /\ caido' = caido
  BY DEF discos
<1>2. Fija' = Fija /\ \A p : FramesDelProceso(p)' = FramesDelProceso(p)
  BY <1>1 DEF Fija, FramesDelProceso
<1>3. \A a : FramesLibresDelArchivo(a)' = FramesLibresDelArchivo(a)
  BY <1>1 DEF FramesLibresDelArchivo
<1>4. CuotaFija'
  BY <1>1, <1>2 DEF IndCuentas, CuotaFija
<1>5. LibresDeNadie' /\ NoCae'
  BY <1>1 DEF IndCuentas, LibresDeNadie, NoCae
<1>6. EspacioContado'
  BY <1>1, <1>3 DEF IndCuentas, EspacioContado, EspacioExacto
<1>7. \A p : PaginasDe(p)' = PaginasDe(p)
  BY <1>1 DEF PaginasDe, FramesOcupados
<1>. QED
  BY <1>2, <1>4, <1>5, <1>6, <1>7

\* Whoever may send has no answer to wait for, and its request goes last.
LEMMA EnviarCola ==
    ASSUME IndCuentas, NEW r \in PedidosPosibles, Enviar(r)
    PROVE  /\ respuesta = Nada /\ canal' \in Seq(PedidosPosibles)
           /\ Len(canal) \in Nat /\ DOMAIN canal = 1 .. Len(canal)
           /\ DOMAIN canal' = 1 .. Len(canal) + 1
           /\ \A i \in 1 .. Len(canal) : canal'[i] = canal[i] /\ canal[i].op # "RESERVAR_ESPACIO"
           /\ canal'[Len(canal) + 1] = r
<1>1. /\ canal' = Append(canal, r) /\ respuesta = Nada
      /\ \A i \in DOMAIN canal : canal[i].op \notin PedidosConRespuesta
  BY DEF Enviar, Esperando
<1>2. canal \in Seq(PedidosPosibles)
  BY DEF IndCuentas, TypeOK
<1>3. Len(canal) \in Nat /\ DOMAIN canal = 1 .. Len(canal)
  BY <1>2, LenProperties
<1>4. /\ canal' \in Seq(PedidosPosibles) /\ Len(canal') = Len(canal) + 1
      /\ \A i \in 1 .. Len(canal) : canal'[i] = canal[i]
      /\ canal'[Len(canal) + 1] = r
  BY <1>1, <1>2, AppendProperties
<1>5. DOMAIN canal' = 1 .. Len(canal) + 1
  BY <1>4, LenProperties
<1>. QED
  BY <1>1, <1>3, <1>4, <1>5 DEF PedidosConRespuesta

\* The releases in the socket after a request is sent.
LEMMA EnviarLiberaciones ==
    ASSUME IndCuentas, NEW r \in PedidosPosibles, Enviar(r), NEW p
    PROVE  /\ ~EsLiberacion(r, p) => /\ Liberaciones(p)' = Liberaciones(p)
                                     /\ PorLiberar(p)' = PorLiberar(p)
           /\ EsLiberacion(r, p) => /\ Liberaciones(p)' = Liberaciones(p) \cup {Len(canal) + 1}
                                    /\ PorLiberar(p)' = PorLiberar(p) \cup {r.pag}
<1>. DEFINE n == Len(canal)
<1>1. /\ n \in Nat /\ DOMAIN canal = 1 .. n /\ DOMAIN canal' = 1 .. n + 1
      /\ \A i \in 1 .. n : canal'[i] = canal[i]
      /\ canal'[n + 1] = r
  BY EnviarCola
<1>. HIDE DEF n
<1>2. 1 .. n + 1 = (1 .. n) \cup {n + 1} /\ n + 1 \notin 1 .. n
  BY <1>1
<1>3. Liberaciones(p) = {i \in 1 .. n : EsLiberacion(canal[i], p)}
  BY <1>1 DEF Liberaciones
<1>4. Liberaciones(p)' = {i \in 1 .. n + 1 : EsLiberacion(canal'[i], p)}
  BY <1>1 DEF Liberaciones, EsLiberacion
<1>5. CASE EsLiberacion(r, p)
  <2>1. Liberaciones(p)' = Liberaciones(p) \cup {n + 1}
    BY <1>1, <1>2, <1>3, <1>4, <1>5
  <2>2. PorLiberar(p)' = {canal'[i].pag : i \in Liberaciones(p)'}
    BY DEF PorLiberar
  <2>3. \A i \in Liberaciones(p) : canal'[i] = canal[i]
    BY <1>1, <1>3
  <2>4. PorLiberar(p)' = PorLiberar(p) \cup {r.pag}
    BY <1>1, <2>1, <2>2, <2>3 DEF PorLiberar
  <2>. QED
    BY <1>5, <2>1, <2>4 DEF n
<1>6. CASE ~EsLiberacion(r, p)
  <2>1. Liberaciones(p)' = Liberaciones(p)
    BY <1>1, <1>2, <1>3, <1>4, <1>6
  <2>2. PorLiberar(p)' = {canal'[i].pag : i \in Liberaciones(p)'}
    BY DEF PorLiberar
  <2>3. \A i \in Liberaciones(p) : canal'[i] = canal[i]
    BY <1>1, <1>3
  <2>4. PorLiberar(p)' = PorLiberar(p)
    BY <2>1, <2>2, <2>3 DEF PorLiberar
  <2>. QED
    BY <1>6, <2>1, <2>4
<1>. QED
  BY <1>5, <1>6

\* Any request but a release.
LEMMA EnviarOtro ==
    ASSUME IndCuentas, NEW r \in PedidosPosibles, Enviar(r), r.op # "LIBERAR_PAGINA", Cabe(r),
           r.op \in {"TIRAR_A_SWAP", "TRAER_DE_SWAP"} => r.pag \in EnTabla(r.pid),
           UNCHANGED <<marcosMax, discos, respuesta, tabla, caido>>, Inv'
    PROVE  IndCuentas'
<1>. DEFINE n == Len(canal)
<1>1. /\ respuesta = Nada /\ canal' \in Seq(PedidosPosibles) /\ n \in Nat
      /\ DOMAIN canal = 1 .. n /\ DOMAIN canal' = 1 .. n + 1
      /\ \A i \in 1 .. n : canal'[i] = canal[i]
      /\ canal'[n + 1] = r
  BY EnviarCola
<1>. HIDE DEF n
<1>2. /\ CuotaFija' /\ LibresDeNadie' /\ EspacioContado' /\ NoCae'
      /\ Fija' = Fija /\ \A p : PaginasDe(p)' = PaginasDe(p)
  BY FramesQuietos
<1>3. tabla' = tabla /\ respuesta' = respuesta
  OBVIOUS
<1>4. \A p : EnTabla(p)' = EnTabla(p) /\ PrimeraNueva(p)' = PrimeraNueva(p)
  BY <1>3 DEF EnTabla, PrimeraNueva
<1>5. \A p : Liberaciones(p)' = Liberaciones(p) /\ PorLiberar(p)' = PorLiberar(p)
  BY EnviarLiberaciones DEF EsLiberacion
<1>6. TypeOK'
  BY <1>1 DEF IndCuentas, TypeOK, discos
<1>7. CanalVacio' /\ TablaOrdenada'
  BY <1>1, <1>3 DEF IndCuentas, CanalVacio, TablaOrdenada
<1>8. LiberacionesOK'
  <2>1. \A p : \A i \in Liberaciones(p) : canal'[i] = canal[i]
    BY <1>1 DEF Liberaciones
  <2>. QED
    BY <1>4, <1>5, <2>1 DEF IndCuentas, LiberacionesOK
<1>9. ReferidasOK'
  <2>1. \A p : \A i \in Liberaciones(p) : canal'[i] = canal[i]
    BY <1>1 DEF Liberaciones
  <2>2. ASSUME NEW i \in 1 .. n, canal[i].op \in {"TIRAR_A_SWAP", "TRAER_DE_SWAP"}
        PROVE  \/ canal[i].pag \in EnTabla(canal[i].pid)
               \/ \E j \in Liberaciones(canal[i].pid) : i < j /\ canal[j].pag = canal[i].pag
    BY <1>1, <2>2 DEF IndCuentas, ReferidasOK
  <2>3. ASSUME NEW i \in 1 .. n + 1, canal'[i].op \in {"TIRAR_A_SWAP", "TRAER_DE_SWAP"}
        PROVE  \/ canal'[i].pag \in EnTabla(canal'[i].pid)
               \/ \E j \in Liberaciones(canal'[i].pid) : i < j /\ canal'[j].pag = canal'[i].pag
    <3>1. CASE i \in 1 .. n
      BY <1>1, <2>1, <2>2, <2>3, <3>1
    <3>2. CASE i = n + 1
      BY <1>1, <2>3, <3>2
    <3>. QED
      BY <1>1, <3>1, <3>2
  <2>. QED
    BY <1>1, <1>4, <1>5, <2>3 DEF ReferidasOK
<1>10. PedidosCaben'
  <2>1. \A q : Cabe(q)' <=> Cabe(q)
    BY <1>4 DEF Cabe
  <2>2. Cabe(respuesta)'
    BY <1>3, <1>4 DEF IndCuentas, PedidosCaben, Cabe
  <2>3. ASSUME NEW i \in 1 .. n + 1  PROVE Cabe(canal'[i])
    <3>1. CASE i \in 1 .. n
      BY <1>1, <3>1 DEF IndCuentas, PedidosCaben
    <3>2. CASE i = n + 1
      BY <1>1, <3>2
    <3>. QED
      BY <1>1, <3>1, <3>2
  <2>4. \A i \in DOMAIN canal' : Cabe(canal[i])'
    BY <1>1, <1>4, <2>3 DEF Cabe
  <2>. QED
    BY <2>2, <2>4 DEF PedidosCaben
<1>11. \A p : Conocidas(p)' = Conocidas(p)
  <2>1. \A p : SeAgregan(p)' <=> SeAgregan(p)
    BY <1>2, <1>3 DEF SeAgregan
  <2>2. \A p : Otorgadas(p)' = Otorgadas(p)
    BY <1>3, <1>4, <2>1 DEF Otorgadas
  <2>. QED
    BY <1>4, <1>5, <2>2 DEF Conocidas
<1>12. \A p \in Procesos : Acuerdo(p)'
  BY <1>2, <1>11 DEF IndCuentas, Acuerdo
<1>. QED
  BY <1>2, <1>6, <1>7, <1>8, <1>9, <1>10, <1>12 DEF IndCuentas

\* New pages are asked for, and fit.
LEMMA PedirReservaCuentas ==
    ASSUME IndCuentas, NEW p \in Procesos, NEW n \in 1 .. MaxPedido, PedirReserva(p, n)
    PROVE  IndCuentas'
<1>. DEFINE r == [op |-> "RESERVAR_ESPACIO", pid |-> p, cant |-> n]
<1>1. /\ PrimeraNueva(p) + n - 1 <= MaxPagina /\ Enviar(r)
      /\ UNCHANGED <<marcosMax, discos, respuesta, tabla, caido>>
  BY DEF PedirReserva
<1>2. r \in PedidosPosibles
  BY DEF PedidosPosibles
<1>3. Cabe(r)
  BY <1>1 DEF Cabe
<1>4. r.op = "RESERVAR_ESPACIO"
  OBVIOUS
<1>5. Inv'
  BY PedirReservaPreserva DEF IndCuentas
<1>. HIDE DEF r
<1>. QED
  BY <1>1, <1>2, <1>3, <1>4, <1>5, EnviarOtro

\* A page of the table is thrown.
LEMMA PedirTirarCuentas ==
    ASSUME IndCuentas, NEW p \in Procesos, NEW i, NEW d \in Datos, PedirTirar(p, i, d)
    PROVE  IndCuentas'
<1>. DEFINE r == [op |-> "TIRAR_A_SWAP", pid |-> p, pag |-> tabla[p][i], dato |-> d]
<1>1. /\ i \in DOMAIN tabla[p] /\ Enviar(r)
      /\ UNCHANGED <<marcosMax, discos, respuesta, tabla, caido>>
  BY DEF PedirTirar
<1>2. tabla[p][i] \in EnTabla(p) /\ tabla[p][i] \in 0 .. MaxPagina
  <2>1. DOMAIN tabla[p] = 1 .. Len(tabla[p])
    BY Tabla, LenProperties
  <2>. QED
    BY <1>1, <2>1, Tabla
<1>3. r \in PedidosPosibles
  BY <1>2 DEF PedidosPosibles
<1>4. r.op = "TIRAR_A_SWAP" /\ r.pag \in EnTabla(r.pid) /\ Cabe(r)
  BY <1>2 DEF Cabe
<1>5. Inv'
  BY PedirTirarPreserva DEF IndCuentas
<1>. HIDE DEF r
<1>. QED
  BY <1>1, <1>3, <1>4, <1>5, EnviarOtro

\* A page of the table is asked for.
LEMMA PedirTraerCuentas ==
    ASSUME IndCuentas, NEW p \in Procesos, NEW i, PedirTraer(p, i)
    PROVE  IndCuentas'
<1>. DEFINE r == [op |-> "TRAER_DE_SWAP", pid |-> p, pag |-> tabla[p][i]]
<1>1. /\ i \in DOMAIN tabla[p] /\ Enviar(r)
      /\ UNCHANGED <<marcosMax, discos, respuesta, tabla, caido>>
  BY DEF PedirTraer
<1>2. tabla[p][i] \in EnTabla(p) /\ tabla[p][i] \in 0 .. MaxPagina
  <2>1. DOMAIN tabla[p] = 1 .. Len(tabla[p])
    BY Tabla, LenProperties
  <2>. QED
    BY <1>1, <2>1, Tabla
<1>3. r \in PedidosPosibles
  BY <1>2 DEF PedidosPosibles
<1>4. r.op = "TRAER_DE_SWAP" /\ r.pag \in EnTabla(r.pid) /\ Cabe(r)
  BY <1>2 DEF Cabe
<1>5. Inv'
  BY PedirTraerPreserva DEF IndCuentas
<1>. HIDE DEF r
<1>. QED
  BY <1>1, <1>3, <1>4, <1>5, EnviarOtro

\* A list of members of T.
LEMMA ListaDe ==
    ASSUME NEW S, NEW l \in Seq(S), NEW T, ToSet(l) \subseteq T
    PROVE  l \in Seq(T)
<1>1. Len(l) \in Nat /\ DOMAIN l = 1 .. Len(l) /\ l \in [1 .. Len(l) -> S]
  BY LenProperties
<1>2. \A i \in 1 .. Len(l) : l[i] \in T
  BY <1>1 DEF ToSet
<1>3. l \in [1 .. Len(l) -> T]
  BY <1>1, <1>2
<1>. QED
  BY <1>1, <1>3

\* The page goes from the table to the socket.
LEMMA PedirLiberarCuentas ==
    ASSUME IndCuentas, NEW p \in Procesos, NEW k, PedirLiberar(p, k)
    PROVE  IndCuentas'
<1>1. PICK x : x = tabla[p][k]
  OBVIOUS
<1>2. PICK r : r = [op |-> "LIBERAR_PAGINA", pid |-> p, pag |-> x]
  OBVIOUS
<1>3. /\ k \in 1 .. Len(tabla[p]) /\ Enviar(r)
      /\ tabla' = [tabla EXCEPT ![p] = RemoveAt(tabla[p], k)]
      /\ UNCHANGED <<marcosMax, discos, respuesta, caido>>
  <2>1. Len(tabla[p]) \in Nat
    BY Tabla, LenProperties
  <2>. QED
    BY <1>1, <1>2, <2>1 DEF PedirLiberar
<1>4. x \in EnTabla(p) /\ x \in 0 .. MaxPagina
  BY <1>1, <1>3, Tabla
<1>5. /\ r \in PedidosPosibles /\ r.op = "LIBERAR_PAGINA" /\ r.pid = p /\ r.pag = x
  BY <1>2, <1>4 DEF PedidosPosibles
<1>. DEFINE n == Len(canal)
<1>6. /\ respuesta = Nada /\ canal' \in Seq(PedidosPosibles) /\ n \in Nat
      /\ DOMAIN canal = 1 .. n /\ DOMAIN canal' = 1 .. n + 1
      /\ \A i \in 1 .. n : canal'[i] = canal[i] /\ canal[i].op # "RESERVAR_ESPACIO"
      /\ canal'[n + 1] = r
  BY <1>3, <1>5, EnviarCola
<1>7. /\ \A q : q # p => /\ Liberaciones(q)' = Liberaciones(q)
                         /\ PorLiberar(q)' = PorLiberar(q)
      /\ Liberaciones(p)' = Liberaciones(p) \cup {n + 1}
      /\ PorLiberar(p)' = PorLiberar(p) \cup {x}
  BY <1>3, <1>5, EnviarLiberaciones DEF EsLiberacion
<1>. HIDE DEF n
<1>8. /\ tabla \in [Procesos -> Seq(0 .. MaxPagina)]
      /\ RemoveAt(tabla[p], k) \in Seq(0 .. MaxPagina)
      /\ Creciente(RemoveAt(tabla[p], k))
      /\ ToSet(RemoveAt(tabla[p], k)) = EnTabla(p) \ {x}
  <2>1. /\ tabla[p] \in Seq(Nat) /\ tabla[p] \in Seq(0 .. MaxPagina) /\ Creciente(tabla[p])
    BY Tabla
  <2>2. RemoveAt(tabla[p], k) \in Seq(0 .. MaxPagina)
    BY <1>3, <2>1, ContarRemoveAt
  <2>3. /\ Creciente(RemoveAt(tabla[p], k))
        /\ ToSet(RemoveAt(tabla[p], k)) = ToSet(tabla[p]) \ {tabla[p][k]}
    BY <1>3, <2>1, QuitarCreciente
  <2>. QED
    BY <1>1, <2>2, <2>3 DEF EnTabla, IndCuentas, TypeOK
<1>9. /\ tabla' \in [Procesos -> Seq(0 .. MaxPagina)]
      /\ \A q \in Procesos : Creciente(tabla'[q])
      /\ EnTabla(p)' = EnTabla(p) \ {x}
      /\ \A q \in Procesos : q # p => EnTabla(q)' = EnTabla(q)
  <2>1. tabla'[p] = RemoveAt(tabla[p], k) /\ \A q \in Procesos : q # p => tabla'[q] = tabla[q]
    BY <1>3, <1>8
  <2>2. tabla' \in [Procesos -> Seq(0 .. MaxPagina)]
    BY <1>3, <1>8
  <2>3. \A q \in Procesos : Creciente(tabla'[q])
    BY <1>8, <2>1, Tabla
  <2>4. EnTabla(p)' = ToSet(tabla'[p]) /\ \A q \in Procesos : EnTabla(q)' = ToSet(tabla'[q])
    BY DEF EnTabla
  <2>. QED
    BY <1>8, <2>1, <2>2, <2>3, <2>4 DEF EnTabla
<1>10. /\ CuotaFija' /\ LibresDeNadie' /\ EspacioContado' /\ NoCae'
       /\ Fija' = Fija /\ \A q : PaginasDe(q)' = PaginasDe(q)
  BY <1>3, FramesQuietos
<1>11. TypeOK'
  BY <1>3, <1>6, <1>9 DEF IndCuentas, TypeOK, discos
<1>12. CanalVacio' /\ TablaOrdenada'
  BY <1>3, <1>6, <1>9 DEF CanalVacio, TablaOrdenada
<1>13. \A q \in Procesos :
          /\ PorLiberar(q) \cap EnTabla(q) = {}
          /\ \A i, j \in Liberaciones(q) : canal[i].pag = canal[j].pag => i = j
          /\ \A i \in Liberaciones(q) : canal'[i] = canal[i] /\ canal[i].pag \in PorLiberar(q)
  BY <1>6 DEF IndCuentas, LiberacionesOK, PorLiberar, Liberaciones
<1>14. LiberacionesOK'
  <2>1. ASSUME NEW q \in Procesos, q # p
        PROVE  /\ (PorLiberar(q) \cap EnTabla(q))' = {}
               /\ \A i, j \in Liberaciones(q)' : canal'[i].pag = canal'[j].pag => i = j
    BY <1>7, <1>9, <1>13, <2>1
  <2>2. (PorLiberar(p) \cap EnTabla(p))' = {}
    BY <1>7, <1>9, <1>13
  <2>3. ASSUME NEW i \in Liberaciones(p)', NEW j \in Liberaciones(p)',
               canal'[i].pag = canal'[j].pag
        PROVE  i = j
    <3>1. canal'[n + 1].pag = x /\ x \notin PorLiberar(p)
      BY <1>4, <1>5, <1>6, <1>13
    <3>. QED
      BY <1>7, <1>13, <2>3, <3>1
  <2>. QED
    BY <2>1, <2>2, <2>3 DEF LiberacionesOK
<1>15. ReferidasOK'
  <2>1. ASSUME NEW i \in DOMAIN canal', canal'[i].op \in {"TIRAR_A_SWAP", "TRAER_DE_SWAP"},
               NEW q, q = canal'[i].pid
        PROVE  \/ canal'[i].pag \in EnTabla(q)'
               \/ \E j \in Liberaciones(q)' : i < j /\ canal'[j].pag = canal'[i].pag
    <3>1. i \in 1 .. n /\ canal'[i] = canal[i] /\ i < n + 1
      BY <1>5, <1>6, <2>1
    <3>2. q = canal[i].pid
      BY <2>1, <3>1
    <3>3. canal[i] \in PedidosPosibles
      BY <1>6, <3>1, ElementOfSeq DEF IndCuentas, TypeOK
    <3>4. q \in Procesos
      BY <3>2, <3>3 DEF PedidosPosibles
    <3>5. \/ canal[i].pag \in EnTabla(q)
          \/ \E j \in Liberaciones(q) : i < j /\ canal[j].pag = canal[i].pag
      BY <1>6, <2>1, <3>1, <3>2 DEF IndCuentas, ReferidasOK
    <3>6. CASE q # p
      BY <1>7, <1>9, <1>13, <3>1, <3>2, <3>4, <3>5, <3>6
    <3>7. CASE q = p /\ canal[i].pag = x
      <4>1. n + 1 \in Liberaciones(p)' /\ canal'[n + 1].pag = x
        BY <1>5, <1>6, <1>7
      <4>. QED
        BY <3>1, <3>2, <3>7, <4>1
    <3>8. CASE q = p /\ canal[i].pag # x
      BY <1>7, <1>9, <1>13, <3>1, <3>2, <3>5, <3>8
    <3>. QED
      BY <3>6, <3>7, <3>8
  <2>. QED
    BY <2>1 DEF ReferidasOK
<1>16. PedidosCaben'
  <2>1. ASSUME NEW i \in DOMAIN canal'  PROVE canal'[i].op # "RESERVAR_ESPACIO"
    <3>1. i \in 1 .. n \/ i = n + 1
      BY <1>6
    <3>. QED
      BY <1>5, <1>6, <3>1
  <2>2. respuesta'.op # "RESERVAR_ESPACIO"
    BY <1>3, <1>6 DEF Nada
  <2>. QED
    BY <2>1, <2>2 DEF PedidosCaben, Cabe
<1>17. ASSUME NEW q \in Procesos  PROVE Conocidas(q)' = Conocidas(q)
  <2>1. Otorgadas(q) = {} /\ Otorgadas(q)' = {}
    BY <1>3, <1>6 DEF Otorgadas, SeAgregan, Nada
  <2>2. (EnTabla(q) \cup PorLiberar(q))' = EnTabla(q) \cup PorLiberar(q)
    <3>1. CASE q = p
      BY <1>4, <1>7, <1>9, <3>1
    <3>2. CASE q # p
      BY <1>7, <1>9, <3>2
    <3>. QED
      BY <3>1, <3>2
  <2>. QED
    BY <2>1, <2>2 DEF Conocidas
<1>18. \A q \in Procesos : Acuerdo(q)'
  BY <1>10, <1>17 DEF IndCuentas, Acuerdo
<1>19. Inv'
  BY PedirLiberarPreserva DEF IndCuentas
<1>. QED
  BY <1>10, <1>11, <1>12, <1>14, <1>15, <1>16, <1>18, <1>19 DEF IndCuentas

\* With nothing in the socket there is little to say of it.
LEMMA SinCanal ==
    ASSUME canal' = <<>>
    PROVE  /\ canal' \in Seq(PedidosPosibles) /\ DOMAIN canal' = {}
           /\ \A q : Liberaciones(q)' = {} /\ PorLiberar(q)' = {}
           /\ CanalVacio' /\ LiberacionesOK' /\ ReferidasOK'
<1>1. canal' \in Seq(PedidosPosibles) /\ DOMAIN canal' = {}
  OBVIOUS
<1>2. \A q : Liberaciones(q)' = {}
  BY <1>1 DEF Liberaciones
<1>3. \A q : PorLiberar(q)' = {}
  BY <1>2 DEF PorLiberar
<1>4. CanalVacio'
  BY DEF CanalVacio
<1>5. LiberacionesOK'
  BY <1>2, <1>3 DEF LiberacionesOK
<1>6. ReferidasOK'
  BY <1>1 DEF ReferidasOK
<1>. QED
  BY <1>1, <1>2, <1>3, <1>4, <1>5, <1>6

\* While an answer is unread there are no requests.
LEMMA SinPedidos ==
    ASSUME IndCuentas, canal = <<>>
    PROVE  \A q : PorLiberar(q) = {}
BY DEF PorLiberar, Liberaciones

\* The pages of the answer go to the table, which stays in order; with fixed
\* assignment, those of a refused growth too.
LEMMA LeerReservaCuentas ==
    ASSUME IndCuentas, LeerReserva
    PROVE  IndCuentas'
<1>1. PICK p, n : p = respuesta.pid /\ n = respuesta.cant
  OBVIOUS
<1>2. PICK e : e = [i \in 1 .. n |-> PrimeraNueva(p) + i - 1]
  OBVIOUS
<1>3. /\ respuesta.op = "RESERVAR_ESPACIO" /\ respuesta' = Nada
      /\ tabla' = IF respuesta.ok \/ (Fija /\ tabla[p] # <<>>)
                  THEN [tabla EXCEPT ![p] = tabla[p] \o e]
                  ELSE tabla
      /\ UNCHANGED <<marcosMax, discos, canal, caido>>
  BY <1>1, <1>2 DEF LeerReserva
<1>4. /\ respuesta # Nada /\ p \in Procesos /\ n \in 1 .. MaxPedido /\ n \in Nat
      /\ canal = <<>> /\ canal' = <<>>
  <2>1. respuesta # Nada
    BY <1>3 DEF Nada
  <2>2. p \in Procesos /\ n \in 1 .. MaxPedido
    BY <1>1, <1>3 DEF IndCuentas, TypeOK, Respuestas, Nada
  <2>. QED
    BY <1>3, <2>1, <2>2 DEF IndCuentas, CanalVacio
<1>5. /\ CuotaFija' /\ LibresDeNadie' /\ EspacioContado' /\ NoCae'
      /\ Fija' = Fija /\ \A q : PaginasDe(q)' = PaginasDe(q)
  BY <1>3, FramesQuietos
<1>6. /\ canal' \in Seq(PedidosPosibles) /\ DOMAIN canal' = {}
      /\ \A q : Liberaciones(q)' = {} /\ PorLiberar(q)' = {}
      /\ CanalVacio' /\ LiberacionesOK' /\ ReferidasOK'
  BY <1>4, SinCanal
<1>7. \A q : PorLiberar(q) = {}
  BY <1>4, SinPedidos
<1>8. \A q : Otorgadas(q)' = {}
  BY <1>3 DEF Otorgadas, SeAgregan, Nada
<1>9. PedidosCaben'
  BY <1>3, <1>6 DEF PedidosCaben, Cabe, Nada
<1>10. /\ tabla \in [Procesos -> Seq(0 .. MaxPagina)]
       /\ tabla[p] \in Seq(Nat) /\ Creciente(tabla[p])
       /\ PrimeraNueva(p) = Siguiente(tabla[p]) /\ PrimeraNueva(p) \in Nat
       /\ EnTabla(p) \subseteq 0 .. MaxPagina
  <2>1. tabla \in [Procesos -> Seq(0 .. MaxPagina)]
    BY DEF IndCuentas, TypeOK
  <2>2. \A i \in DOMAIN tabla[p] : tabla[p][i] \in 0 .. MaxPagina
    BY <1>4, <2>1, ElementOfSeq, LenProperties
  <2>. QED
    BY <1>4, <2>1, <2>2, Tabla DEF EnTabla, ToSet
<1>11. CASE SeAgregan(p)
  <2>1. Otorgadas(p) = PrimeraNueva(p) .. PrimeraNueva(p) + n - 1
    BY <1>1, <1>11 DEF Otorgadas
  <2>2. PICK l : l = tabla[p] \o e
    OBVIOUS
  <2>3. l \in Seq(Nat) /\ Creciente(l) /\ ToSet(l) = EnTabla(p) \cup Otorgadas(p)
    <3>1. tabla[p] \in Seq(Nat) /\ Creciente(tabla[p]) /\ n \in Nat
      BY <1>4, <1>10
    <3>. QED
      BY <1>2, <1>10, <2>1, <2>2, <3>1, AgregarCreciente DEF EnTabla
  <2>4. tabla' = [tabla EXCEPT ![p] = l]
    BY <1>3, <1>11, <2>2 DEF SeAgregan
  <2>5. PrimeraNueva(p) + n - 1 <= MaxPagina
    BY <1>1, <1>3 DEF IndCuentas, PedidosCaben, Cabe
  <2>6. l \in Seq(0 .. MaxPagina)
    <3>1. MaxPagina \in Nat
      BY TamaniosAssumption
    <3>2. Otorgadas(p) \subseteq 0 .. MaxPagina
      BY <1>4, <1>10, <2>1, <2>5, <3>1
    <3>. QED
      BY <1>10, <2>3, <3>2, ListaDe
  <2>7. tabla'[p] = l /\ \A q \in Procesos : q # p => tabla'[q] = tabla[q]
    BY <1>4, <1>10, <2>4
  <2>8. tabla' \in [Procesos -> Seq(0 .. MaxPagina)]
    BY <1>10, <2>4, <2>6
  <2>9. TypeOK'
    BY <1>3, <1>6, <2>8 DEF IndCuentas, TypeOK, discos, Respuestas
  <2>10. TablaOrdenada'
    BY <2>3, <2>7 DEF IndCuentas, TablaOrdenada
  <2>11. EnTabla(p)' = EnTabla(p) \cup Otorgadas(p)
    BY <2>3, <2>7 DEF EnTabla
  <2>12. Conocidas(p)' = Conocidas(p)
    BY <1>6, <1>7, <1>8, <2>11 DEF Conocidas
  <2>13. ASSUME NEW q \in Procesos, q # p  PROVE Conocidas(q)' = Conocidas(q)
    <3>1. EnTabla(q)' = EnTabla(q)
      BY <2>7, <2>13 DEF EnTabla
    <3>2. Otorgadas(q) = {}
      BY <1>1, <2>13 DEF Otorgadas, SeAgregan
    <3>. QED
      BY <1>6, <1>7, <1>8, <3>1, <3>2 DEF Conocidas
  <2>14. \A q \in Procesos : Acuerdo(q)'
    BY <1>5, <2>12, <2>13 DEF IndCuentas, Acuerdo
  <2>15. Inv'
    BY LeerReservaPreserva DEF IndCuentas
  <2>. QED
    BY <1>5, <1>6, <1>9, <2>9, <2>10, <2>14, <2>15 DEF IndCuentas
<1>12. CASE ~SeAgregan(p)
  <2>1. tabla' = tabla
    BY <1>1, <1>3, <1>12 DEF SeAgregan
  <2>2. \A q : Otorgadas(q) = {}
    BY <1>1, <1>12 DEF Otorgadas, SeAgregan
  <2>3. \A q : EnTabla(q)' = EnTabla(q)
    BY <2>1 DEF EnTabla
  <2>4. \A q : Conocidas(q)' = Conocidas(q)
    BY <1>6, <1>7, <1>8, <2>2, <2>3 DEF Conocidas
  <2>5. \A q \in Procesos : Acuerdo(q)'
    BY <1>5, <2>4 DEF IndCuentas, Acuerdo
  <2>6. TypeOK' /\ TablaOrdenada'
    BY <1>3, <1>6, <2>1 DEF IndCuentas, TypeOK, discos, Respuestas, TablaOrdenada
  <2>7. Inv'
    BY LeerReservaPreserva DEF IndCuentas
  <2>. QED
    BY <1>5, <1>6, <1>9, <2>5, <2>6, <2>7 DEF IndCuentas
<1>. QED
  BY <1>11, <1>12

\* A page that comes back changes no count.
LEMMA LeerPaginaCuentas ==
    ASSUME IndCuentas, LeerPagina
    PROVE  IndCuentas'
<1>1. /\ respuesta.op = "TRAER_DE_SWAP" /\ respuesta' = Nada
      /\ UNCHANGED <<marcosMax, discos, canal, tabla, caido>>
  BY DEF LeerPagina
<1>2. canal = <<>> /\ canal' = <<>>
  <2>1. respuesta # Nada
    BY <1>1 DEF Nada
  <2>. QED
    BY <1>1, <2>1 DEF IndCuentas, CanalVacio
<1>3. /\ CuotaFija' /\ LibresDeNadie' /\ EspacioContado' /\ NoCae'
      /\ Fija' = Fija /\ \A q : PaginasDe(q)' = PaginasDe(q)
  BY <1>1, FramesQuietos
<1>4. /\ canal' \in Seq(PedidosPosibles) /\ DOMAIN canal' = {}
      /\ \A q : Liberaciones(q)' = {} /\ PorLiberar(q)' = {}
      /\ CanalVacio' /\ LiberacionesOK' /\ ReferidasOK'
  BY <1>2, SinCanal
<1>5. \A q : PorLiberar(q) = {}
  BY <1>2, SinPedidos
<1>6. \A q : Otorgadas(q)' = {} /\ Otorgadas(q) = {} /\ EnTabla(q)' = EnTabla(q)
  BY <1>1 DEF Otorgadas, SeAgregan, Nada, EnTabla
<1>7. \A q : Conocidas(q)' = Conocidas(q)
  BY <1>4, <1>5, <1>6 DEF Conocidas
<1>8. \A q \in Procesos : Acuerdo(q)'
  BY <1>3, <1>7 DEF IndCuentas, Acuerdo
<1>9. TypeOK' /\ TablaOrdenada'
  BY <1>1, <1>4 DEF IndCuentas, TypeOK, discos, Respuestas, TablaOrdenada
<1>10. PedidosCaben'
  BY <1>1, <1>4 DEF PedidosCaben, Cabe, Nada
<1>11. Inv'
  BY LeerPaginaPreserva DEF IndCuentas
<1>. QED
  BY <1>3, <1>4, <1>8, <1>9, <1>10, <1>11 DEF IndCuentas

-----------------------------------------------------------------------------
\* The requests swamp serves.

\* The oldest request.
LEMMA PrimerPedido ==
    ASSUME IndCuentas, canal # <<>>
    PROVE  /\ respuesta = Nada
           /\ Head(canal) \in PedidosPosibles /\ Head(canal) = canal[1]
           /\ Len(canal) \in Nat \ {0} /\ DOMAIN canal = 1 .. Len(canal) /\ 1 \in DOMAIN canal
           /\ Tail(canal) \in Seq(PedidosPosibles) /\ DOMAIN Tail(canal) = 1 .. Len(canal) - 1
           /\ Len(Tail(canal)) = Len(canal) - 1
           /\ \A i \in 1 .. Len(canal) - 1 : Tail(canal)[i] = canal[i + 1]
<1>1. respuesta = Nada /\ canal \in Seq(PedidosPosibles)
  BY DEF IndCuentas, CanalVacio, TypeOK
<1>2. Len(canal) \in Nat \ {0} /\ DOMAIN canal = 1 .. Len(canal)
  BY <1>1, LenProperties, EmptySeq
<1>3. /\ Head(canal) \in PedidosPosibles
      /\ Tail(canal) \in Seq(PedidosPosibles) /\ Len(Tail(canal)) = Len(canal) - 1
      /\ \A i \in 1 .. Len(Tail(canal)) : Tail(canal)[i] = canal[i + 1]
  BY <1>1, HeadTailProperties
<1>4. DOMAIN Tail(canal) = 1 .. Len(canal) - 1
  BY <1>3, LenProperties
<1>5. Head(canal) = canal[1] /\ 1 \in DOMAIN canal
  BY <1>1, <1>2
<1>. QED
  BY <1>1, <1>2, <1>3, <1>4, <1>5

\* A request with an answer is the only one in the socket.
LEMMA UltimoPedido ==
    ASSUME IndCuentas, NEW op \in PedidosConRespuesta, Pedido(op), NEW a, Atendido(a)
    PROVE  /\ respuesta = Nada /\ respuesta' = a
           /\ canal' = <<>> /\ tabla' = tabla /\ marcosMax' = marcosMax /\ caido' = caido
           /\ \A q : PorLiberar(q) = {} /\ Otorgadas(q) = {} /\ Conocidas(q) = EnTabla(q)
           /\ \A q : EnTabla(q)' = EnTabla(q) /\ PrimeraNueva(q)' = PrimeraNueva(q)
           /\ \A q : Conocidas(q)' = EnTabla(q) \cup Otorgadas(q)'
           /\ TablaOrdenada'
<1>1. /\ canal # <<>> /\ Head(canal).op = op /\ canal' = Tail(canal) /\ respuesta' = a
      /\ tabla' = tabla /\ marcosMax' = marcosMax /\ caido' = caido
  BY DEF Pedido, Atendido
<1>2. /\ respuesta = Nada /\ Head(canal) = canal[1] /\ 1 \in DOMAIN canal
      /\ Len(canal) \in Nat \ {0} /\ DOMAIN canal = 1 .. Len(canal)
      /\ Tail(canal) \in Seq(PedidosPosibles) /\ Len(Tail(canal)) = Len(canal) - 1
  BY <1>1, PrimerPedido
<1>3. Len(canal) = 1
  BY <1>1, <1>2 DEF IndCuentas, Inv, TurnoOK
<1>4. canal' = <<>>
  <2>1. Len(Tail(canal)) = 0
    BY <1>2, <1>3
  <2>. QED
    BY <1>1, <1>2, <2>1, EmptySeq
<1>5. \A q : PorLiberar(q) = {}
  <2>1. \A i \in DOMAIN canal : canal[i].op # "LIBERAR_PAGINA"
    BY <1>1, <1>2, <1>3 DEF PedidosConRespuesta
  <2>2. \A q : Liberaciones(q) = {}
    BY <2>1 DEF Liberaciones, EsLiberacion
  <2>. QED
    BY <2>2 DEF PorLiberar
<1>6. \A q : Otorgadas(q) = {}
  BY <1>2 DEF Otorgadas, SeAgregan, Nada
<1>7. \A q : EnTabla(q)' = EnTabla(q) /\ PrimeraNueva(q)' = PrimeraNueva(q)
  BY <1>1 DEF EnTabla, PrimeraNueva
<1>8. \A q : Conocidas(q) = EnTabla(q)
  BY <1>5, <1>6 DEF Conocidas
<1>9. \A q : PorLiberar(q)' = {}
  BY <1>4, SinCanal
<1>10. \A q : Conocidas(q)' = EnTabla(q) \cup Otorgadas(q)'
  BY <1>7, <1>9 DEF Conocidas
<1>11. TablaOrdenada'
  BY <1>1 DEF IndCuentas, TablaOrdenada
<1>. QED
  BY <1>1, <1>2, <1>4, <1>5, <1>6, <1>7, <1>8, <1>10, <1>11

\* The messages and the tables after a reservation is answered.
LEMMA ReservaServida ==
    ASSUME IndCuentas, Pedido("RESERVAR_ESPACIO"), NEW r, r = Head(canal), NEW ok \in BOOLEAN,
           Atendido([op |-> "RESERVAR_ESPACIO", pid |-> r.pid, cant |-> r.cant, ok |-> ok])
    PROVE  /\ r.pid \in Procesos /\ r.cant \in 1 .. MaxPedido /\ r.op = "RESERVAR_ESPACIO"
           /\ PrimeraNueva(r.pid) + r.cant - 1 <= MaxPagina
           /\ canal' \in Seq(PedidosPosibles) /\ respuesta' \in Respuestas
           /\ CanalVacio' /\ LiberacionesOK' /\ ReferidasOK' /\ PedidosCaben'
           /\ \A q : q # r.pid => Conocidas(q)' = Conocidas(q)
           /\ Conocidas(r.pid)' = Conocidas(r.pid) \cup
                 (IF ok \/ (Fija /\ tabla[r.pid] # <<>>)
                  THEN PrimeraNueva(r.pid) .. PrimeraNueva(r.pid) + r.cant - 1 ELSE {})
<1>. DEFINE a == [op |-> "RESERVAR_ESPACIO", pid |-> r.pid, cant |-> r.cant, ok |-> ok]
<1>1. a.op = "RESERVAR_ESPACIO" /\ a.pid = r.pid /\ a.cant = r.cant /\ a.ok = ok
  OBVIOUS
<1>2. /\ respuesta' = a /\ canal' = <<>> /\ tabla' = tabla /\ marcosMax' = marcosMax
      /\ \A q : PrimeraNueva(q)' = PrimeraNueva(q)
      /\ \A q : Conocidas(q) = EnTabla(q) /\ Conocidas(q)' = EnTabla(q) \cup Otorgadas(q)'
  <2>1. "RESERVAR_ESPACIO" \in PedidosConRespuesta
    BY DEF PedidosConRespuesta
  <2>2. Atendido(a)
    OBVIOUS
  <2>. HIDE DEF a
  <2>. QED
    BY <2>1, <2>2, UltimoPedido
<1>3. r \in PedidosPosibles /\ r.op = "RESERVAR_ESPACIO" /\ r = canal[1] /\ 1 \in DOMAIN canal
  BY PrimerPedido DEF Pedido
<1>4. r.pid \in Procesos /\ r.cant \in 1 .. MaxPedido
  BY <1>3 DEF PedidosPosibles
<1>5. respuesta' \in Respuestas
  BY <1>2, <1>4 DEF Respuestas
<1>6. PrimeraNueva(r.pid) + r.cant - 1 <= MaxPagina
  BY <1>3 DEF IndCuentas, PedidosCaben, Cabe
<1>. HIDE DEF a
<1>7. /\ canal' \in Seq(PedidosPosibles) /\ DOMAIN canal' = {}
      /\ CanalVacio' /\ LiberacionesOK' /\ ReferidasOK'
  BY <1>2, SinCanal
<1>8. PedidosCaben'
  BY <1>1, <1>2, <1>6, <1>7 DEF PedidosCaben, Cabe
<1>9. Fija' = Fija
  BY <1>2 DEF Fija
<1>10. \A q : q # r.pid => Otorgadas(q)' = {}
  BY <1>1, <1>2 DEF Otorgadas, SeAgregan
<1>11. Otorgadas(r.pid)' = IF ok \/ (Fija /\ tabla[r.pid] # <<>>)
                           THEN PrimeraNueva(r.pid) .. PrimeraNueva(r.pid) + r.cant - 1 ELSE {}
  <2>1. SeAgregan(r.pid)' <=> ok \/ (Fija /\ tabla[r.pid] # <<>>)
    BY <1>1, <1>2, <1>9 DEF SeAgregan
  <2>2. PrimeraNueva(r.pid)' = PrimeraNueva(r.pid) /\ respuesta'.cant = r.cant
    BY <1>1, <1>2
  <2>. QED
    BY <2>1, <2>2 DEF Otorgadas
<1>. QED
  BY <1>2, <1>3, <1>4, <1>5, <1>6, <1>7, <1>8, <1>10, <1>11

\* The messages and the tables after a request without answer is served.
LEMMA AtenderSinRespuesta ==
    ASSUME IndCuentas, NEW op, Pedido(op), op \in {"TIRAR_A_SWAP", "LIBERAR_PAGINA"},
           Atendido(respuesta), NEW r, r = Head(canal)
    PROVE  /\ r.pid \in Procesos /\ r.pag \in 0 .. MaxPagina /\ r.op = op /\ respuesta = Nada
           /\ r.op = "TIRAR_A_SWAP" => r.dato \in Datos
           /\ canal' \in Seq(PedidosPosibles) /\ respuesta' = respuesta
           /\ tabla' = tabla /\ marcosMax' = marcosMax /\ caido' = caido
           /\ CanalVacio' /\ TablaOrdenada' /\ LiberacionesOK' /\ ReferidasOK' /\ PedidosCaben'
           /\ \A q \in Procesos : ~EsLiberacion(r, q) => Conocidas(q)' = Conocidas(q)
           /\ \A q \in Procesos : EsLiberacion(r, q) =>
                 r.pag \in Conocidas(q) /\ Conocidas(q)' = Conocidas(q) \ {r.pag}
<1>. DEFINE n == Len(canal)
<1>1. /\ canal # <<>> /\ r.op = op /\ canal' = Tail(canal) /\ respuesta' = respuesta
      /\ tabla' = tabla /\ marcosMax' = marcosMax /\ caido' = caido
  BY DEF Pedido, Atendido
<1>2. /\ respuesta = Nada /\ r \in PedidosPosibles /\ r = canal[1]
      /\ n \in Nat \ {0} /\ DOMAIN canal = 1 .. n
      /\ canal' \in Seq(PedidosPosibles) /\ DOMAIN canal' = 1 .. n - 1
      /\ \A i \in 1 .. n - 1 : canal'[i] = canal[i + 1]
  BY <1>1, PrimerPedido
<1>. HIDE DEF n
<1>3. r.pid \in Procesos /\ r.pag \in 0 .. MaxPagina /\ (r.op = "TIRAR_A_SWAP" => r.dato \in Datos)
  BY <1>1, <1>2 DEF PedidosPosibles
<1>4. CanalVacio' /\ TablaOrdenada'
  BY <1>1, <1>2 DEF IndCuentas, CanalVacio, TablaOrdenada
<1>5. \A i \in 1 .. n - 1 : i + 1 \in DOMAIN canal /\ i + 1 # 1
  BY <1>2
<1>6. ASSUME NEW q
      PROVE  /\ \A i \in Liberaciones(q)' : i \in 1 .. n - 1 /\ i + 1 \in Liberaciones(q)
             /\ \A i \in Liberaciones(q) : i # 1 => i - 1 \in 1 .. n - 1 /\ i - 1 \in Liberaciones(q)'
             /\ 1 \in Liberaciones(q) <=> EsLiberacion(r, q)
  <2>1. Liberaciones(q)' = {i \in 1 .. n - 1 : EsLiberacion(canal[i + 1], q)}
    BY <1>2 DEF Liberaciones, EsLiberacion
  <2>2. Liberaciones(q) = {i \in 1 .. n : EsLiberacion(canal[i], q)}
    BY <1>2 DEF Liberaciones
  <2>3. \A i \in Liberaciones(q)' : i \in 1 .. n - 1 /\ i + 1 \in Liberaciones(q)
    BY <1>2, <2>1, <2>2
  <2>4. ASSUME NEW i \in Liberaciones(q), i # 1
        PROVE  i - 1 \in 1 .. n - 1 /\ i - 1 \in Liberaciones(q)'
    <3>1. i - 1 \in 1 .. n - 1 /\ (i - 1) + 1 = i
      BY <1>2, <2>2, <2>4
    <3>. QED
      BY <2>1, <2>2, <3>1
  <2>5. 1 \in Liberaciones(q) <=> EsLiberacion(r, q)
    BY <1>2, <2>2
  <2>. QED
    BY <2>3, <2>4, <2>5
<1>7. ASSUME NEW q \in Procesos
      PROVE  /\ PorLiberar(q) \cap EnTabla(q) = {}
             /\ \A i, j \in Liberaciones(q) : canal[i].pag = canal[j].pag => i = j
  BY DEF IndCuentas, LiberacionesOK
<1>8. \A q : PorLiberar(q)' = {canal'[i].pag : i \in Liberaciones(q)'}
  BY DEF PorLiberar
<1>9. ASSUME NEW q  PROVE PorLiberar(q)' \subseteq PorLiberar(q)
  <2>1. ASSUME NEW i \in Liberaciones(q)'  PROVE canal'[i].pag \in PorLiberar(q)
    <3>1. i \in 1 .. n - 1 /\ i + 1 \in Liberaciones(q)
      BY <1>6
    <3>2. canal'[i] = canal[i + 1]
      BY <1>2, <3>1
    <3>. QED
      BY <3>1, <3>2 DEF PorLiberar
  <2>. QED
    BY <1>8, <2>1
<1>10. ASSUME NEW q, NEW i \in Liberaciones(q), i # 1
       PROVE  canal[i].pag \in PorLiberar(q)'
  <2>1. i - 1 \in 1 .. n - 1 /\ i - 1 \in Liberaciones(q)'
    BY <1>6, <1>10
  <2>2. canal'[i - 1] = canal[i]
    <3>1. (i - 1) + 1 = i
      BY <1>2, <1>10 DEF Liberaciones
    <3>. QED
      BY <1>2, <2>1, <3>1
  <2>. QED
    BY <1>8, <2>1, <2>2
<1>11. ASSUME NEW q \in Procesos, ~EsLiberacion(r, q)
       PROVE  PorLiberar(q)' = PorLiberar(q)
  <2>1. \A i \in Liberaciones(q) : i # 1
    BY <1>6, <1>11
  <2>. QED
    BY <1>9, <1>10, <2>1 DEF PorLiberar
<1>12. ASSUME NEW q \in Procesos, EsLiberacion(r, q)
       PROVE  /\ r.pag \in PorLiberar(q) /\ r.pag \notin EnTabla(q)
              /\ PorLiberar(q)' = PorLiberar(q) \ {r.pag}
  <2>1. 1 \in Liberaciones(q)
    BY <1>6, <1>12
  <2>2. r.pag \in PorLiberar(q)
    BY <1>2, <2>1 DEF PorLiberar
  <2>3. ASSUME NEW i \in Liberaciones(q)'  PROVE canal'[i].pag # r.pag
    <3>1. i \in 1 .. n - 1 /\ i + 1 \in Liberaciones(q) /\ i + 1 # 1
      BY <1>5, <1>6
    <3>2. canal'[i] = canal[i + 1]
      BY <1>2, <3>1
    <3>. QED
      BY <1>2, <1>7, <2>1, <3>1, <3>2
  <2>4. r.pag \notin PorLiberar(q)'
    BY <1>8, <2>3
  <2>5. PorLiberar(q) \ {r.pag} \subseteq PorLiberar(q)'
    <3>1. ASSUME NEW i \in Liberaciones(q), canal[i].pag # r.pag
          PROVE  canal[i].pag \in PorLiberar(q)'
      BY <1>2, <1>10, <3>1
    <3>. QED
      BY <3>1 DEF PorLiberar
  <2>. QED
    BY <1>7, <1>9, <2>2, <2>4, <2>5
<1>13. \A q : EnTabla(q)' = EnTabla(q) /\ PrimeraNueva(q)' = PrimeraNueva(q)
  BY <1>1 DEF EnTabla, PrimeraNueva
<1>14. \A q : Otorgadas(q) = {} /\ Otorgadas(q)' = {}
  BY <1>1, <1>2 DEF Otorgadas, SeAgregan, Nada
<1>15. \A q \in Procesos : ~EsLiberacion(r, q) => Conocidas(q)' = Conocidas(q)
  BY <1>11, <1>13, <1>14 DEF Conocidas
<1>16. \A q \in Procesos : EsLiberacion(r, q) =>
           r.pag \in Conocidas(q) /\ Conocidas(q)' = Conocidas(q) \ {r.pag}
  BY <1>12, <1>13, <1>14 DEF Conocidas
<1>17. LiberacionesOK'
  <2>1. ASSUME NEW q \in Procesos, NEW i \in Liberaciones(q)', NEW j \in Liberaciones(q)',
               canal'[i].pag = canal'[j].pag
        PROVE  i = j
    <3>1. /\ i \in 1 .. n - 1 /\ i + 1 \in Liberaciones(q)
          /\ j \in 1 .. n - 1 /\ j + 1 \in Liberaciones(q)
      BY <1>6
    <3>2. canal[i + 1].pag = canal[j + 1].pag
      BY <1>2, <2>1, <3>1
    <3>3. i + 1 = j + 1
      BY <1>7, <3>1, <3>2
    <3>. QED
      BY <3>1, <3>3
  <2>2. \A q \in Procesos : (PorLiberar(q) \cap EnTabla(q))' = {}
    BY <1>7, <1>9, <1>13
  <2>. QED
    BY <2>1, <2>2 DEF LiberacionesOK
<1>18. ReferidasOK'
  <2>1. ASSUME NEW i \in DOMAIN canal', canal'[i].op \in {"TIRAR_A_SWAP", "TRAER_DE_SWAP"},
               NEW q, q = canal'[i].pid
        PROVE  \/ canal'[i].pag \in EnTabla(q)'
               \/ \E j \in Liberaciones(q)' : i < j /\ canal'[j].pag = canal'[i].pag
    <3>1. i \in 1 .. n - 1 /\ canal'[i] = canal[i + 1] /\ i + 1 \in DOMAIN canal
      BY <1>2, <1>5
    <3>2. \/ canal[i + 1].pag \in EnTabla(q)
          \/ \E j \in Liberaciones(q) : i + 1 < j /\ canal[j].pag = canal[i + 1].pag
      BY <2>1, <3>1 DEF IndCuentas, ReferidasOK
    <3>3. CASE canal[i + 1].pag \in EnTabla(q)
      BY <1>13, <3>1, <3>3
    <3>4. CASE \E j \in Liberaciones(q) : i + 1 < j /\ canal[j].pag = canal[i + 1].pag
      <4>1. PICK j \in Liberaciones(q) : i + 1 < j /\ canal[j].pag = canal[i + 1].pag
        BY <3>4
      <4>2. j \in Int /\ j # 1 /\ i < j - 1 /\ (j - 1) + 1 = j
        BY <1>2, <3>1, <4>1 DEF Liberaciones
      <4>3. j - 1 \in 1 .. n - 1 /\ j - 1 \in Liberaciones(q)'
        BY <1>6, <4>2
      <4>4. canal'[j - 1] = canal[j]
        BY <1>2, <4>2, <4>3
      <4>. QED
        BY <3>1, <4>1, <4>2, <4>3, <4>4
    <3>. QED
      BY <3>2, <3>3, <3>4
  <2>. QED
    BY <2>1 DEF ReferidasOK
<1>19. PedidosCaben'
  <2>1. \A q : Cabe(q)' <=> Cabe(q)
    BY <1>13 DEF Cabe
  <2>2. respuesta'.op # "RESERVAR_ESPACIO"
    BY <1>1, <1>2 DEF Nada
  <2>3. ASSUME NEW i \in DOMAIN canal'  PROVE Cabe(canal'[i])
    <3>1. canal'[i] = canal[i + 1] /\ i + 1 \in DOMAIN canal
      BY <1>2, <1>5
    <3>. QED
      BY <3>1 DEF IndCuentas, PedidosCaben
  <2>4. \A i \in DOMAIN canal' : Cabe(canal[i])'
    BY <1>13, <2>3 DEF Cabe
  <2>. QED
    BY <2>2, <2>4 DEF PedidosCaben, Cabe
<1>. QED
  BY <1>1, <1>2, <1>3, <1>4, <1>15, <1>16, <1>17, <1>18, <1>19

-----------------------------------------------------------------------------
\* Reservations.

Paginas(m, p) == {m[f].pag : f \in {g \in Marcos : m[g].ocupado /\ m[g].pid = p}}

Libres(m, a) == {f \in Marcos : ~m[f].ocupado /\ f[1] = a /\ m[f].pid = Nadie}

DelProceso(m, p) == {f \in Marcos : m[f].pid = p}

\* The files have finitely many frames.
LEMMA MarcosFinitos == IsFiniteSet(Marcos)
<1>1. NumArchivos \in Int /\ MarcosPorArchivo \in Int
  BY TamaniosAssumption
<1>2. IsFiniteSet(1 .. NumArchivos) /\ IsFiniteSet(1 .. MarcosPorArchivo)
  BY <1>1, FS_Interval
<1>. QED
  BY <1>2, FS_Product DEF Marcos, Archivos

\* The assigned frames of a process are those its pages occupy.
LEMMA AsignadosOcupados ==
    ASSUME Inv, NEW p \in Procesos
    PROVE  Asignados(p) = FramesOcupados(p)
BY DEF Inv, FramesOK, FrameOK, Asignados, FramesDelProceso, FramesOcupados, SinPagina

\* New pages in free frames: the process has those too, the others the same.
LEMMA CrecerPaginas ==
    ASSUME NEW m, NEW q \in Nat, NEW n \in 0 .. q, NEW s \in [1 .. q -> Marcos],
           NEW p, NEW u \in Int, \A i, j \in 1 .. q : s[i] = s[j] => i = j,
           \A i \in 1 .. n : ~m[s[i]].ocupado,
           NEW c, c = ConPaginas(m, s, n, p, u)
    PROVE  /\ Paginas(c, p) = Paginas(m, p) \cup (u + 1 .. u + n)
           /\ \A o : o # p => Paginas(c, o) = Paginas(m, o)
<1>1. /\ \A i \in 1 .. n : c[s[i]] = [pid |-> p, pag |-> u + i, ocupado |-> TRUE]
      /\ \A f \in Marcos : (\A i \in 1 .. n : s[i] # f) => c[f] = m[f]
  BY ConPaginasDe
<1>2. \A i \in 1 .. n : i \in 1 .. q /\ s[i] \in Marcos
  OBVIOUS
<1>3. ASSUME NEW o, NEW f \in Marcos, m[f].ocupado, m[f].pid = o
      PROVE  m[f].pag \in Paginas(c, o)
  <2>1. c[f] = m[f]
    BY <1>1, <1>3
  <2>. QED
    BY <1>3, <2>1 DEF Paginas
<1>4. ASSUME NEW f \in Marcos, c[f].ocupado, NEW o, c[f].pid = o
      PROVE  c[f].pag \in Paginas(m, o) \cup (IF o = p THEN u + 1 .. u + n ELSE {})
  <2>1. CASE \A i \in 1 .. n : s[i] # f
    BY <1>1, <1>4, <2>1 DEF Paginas
  <2>2. CASE \E i \in 1 .. n : s[i] = f
    <3>1. PICK i \in 1 .. n : s[i] = f
      BY <2>2
    <3>2. c[f].pid = p /\ c[f].pag = u + i
      <4>1. c[s[i]] = [pid |-> p, pag |-> u + i, ocupado |-> TRUE]
        BY <1>1
      <4>2. c[f] = [pid |-> p, pag |-> u + i, ocupado |-> TRUE]
        BY <3>1, <4>1
      <4>. QED
        BY <4>2
    <3>3. u + i \in u + 1 .. u + n
      BY <3>1
    <3>. QED
      BY <1>4, <3>2, <3>3
  <2>. QED
    BY <2>1, <2>2
<1>5. ASSUME NEW x \in u + 1 .. u + n  PROVE x \in Paginas(c, p)
  <2>1. x - u \in 1 .. n /\ u + (x - u) = x
    OBVIOUS
  <2>2. c[s[x - u]] = [pid |-> p, pag |-> x, ocupado |-> TRUE] /\ s[x - u] \in Marcos
    BY <1>1, <1>2, <2>1
  <2>. QED
    BY <2>2 DEF Paginas
<1>6. \A o : Paginas(m, o) \subseteq Paginas(c, o)
  BY <1>3 DEF Paginas
<1>7. \A o : Paginas(c, o) \subseteq Paginas(m, o) \cup (IF o = p THEN u + 1 .. u + n ELSE {})
  BY <1>4 DEF Paginas
<1>. QED
  BY <1>5, <1>6, <1>7

\* c is m with the n frames s lists, free and of the file a, occupied.
Ocupa(m, a, n, s, c) ==
    /\ n \in Nat
    /\ s \in [1 .. n -> Libres(m, a)]
    /\ \A i, j \in 1 .. n : s[i] = s[j] => i = j
    /\ \A i \in 1 .. n : c[s[i]].ocupado
    /\ \A f \in Marcos : (\A i \in 1 .. n : s[i] # f) => c[f] = m[f]

\* Frames that were free and are taken: the file has that many less.
LEMMA OcuparLibres ==
    ASSUME NEW m, NEW a, NEW n, NEW s, NEW c, Ocupa(m, a, n, s, c)
    PROVE  /\ Cardinality(Libres(m, a)) \in Nat
           /\ Cardinality(Libres(c, a)) = Cardinality(Libres(m, a)) - n
           /\ \A b : b # a => Libres(c, b) = Libres(m, b)
<1>0. /\ n \in Nat /\ s \in [1 .. n -> Libres(m, a)]
      /\ \A i, j \in 1 .. n : s[i] = s[j] => i = j
      /\ \A i \in 1 .. n : c[s[i]].ocupado
      /\ \A f \in Marcos : (\A i \in 1 .. n : s[i] # f) => c[f] = m[f]
  BY DEF Ocupa
<1>. USE <1>0
<1>1. IsFiniteSet(Libres(m, a))
  <2>1. Libres(m, a) \in SUBSET Marcos
    BY DEF Libres
  <2>. QED
    BY <2>1, MarcosFinitos, FS_Subset
<1>2. \A i \in 1 .. n : s[i] \in Marcos /\ s[i][1] = a
  BY DEF Libres
<1>3. \A f \in Marcos : f \in Imagen(s, n) => c[f].ocupado
  BY DEF Imagen
<1>4. \A f \in Marcos : f \notin Imagen(s, n) => c[f] = m[f]
  BY DEF Imagen
<1>5. \A f \in Imagen(s, n) : f[1] = a
  BY <1>2 DEF Imagen
<1>6. Libres(c, a) = Libres(m, a) \ Imagen(s, n)
  BY <1>3, <1>4 DEF Libres
<1>7. \A b : b # a => Libres(c, b) = Libres(m, b)
  BY <1>3, <1>4, <1>5 DEF Libres
<1>. QED
  BY <1>1, <1>6, <1>7, SinImagen

\* Both sides number the new pages alike, or memoria above swamp.
LEMMA AcuerdoReserva ==
    ASSUME IndCuentas, Pedido("RESERVAR_ESPACIO"), NEW r, r = Head(canal),
           Atendido(ReservaAceptada(r)), NEW u \in PaginasDe(r.pid) \cup {-1},
           \A g \in PaginasDe(r.pid) : g <= u,
           PaginasDe(r.pid)' = PaginasDe(r.pid) \cup (u + 1 .. u + r.cant),
           \A q : q # r.pid => PaginasDe(q)' = PaginasDe(q)
    PROVE  /\ u + r.cant <= MaxPagina
           /\ \A q \in Procesos : Acuerdo(q)'
<1>1. PICK p, n, k : p = r.pid /\ n = r.cant /\ k = PrimeraNueva(p)
  OBVIOUS
<1>2. PICK S, K : S = PaginasDe(p) /\ K = EnTabla(p)
  OBVIOUS
<1>3. /\ Atendido([op |-> "RESERVAR_ESPACIO", pid |-> r.pid, cant |-> r.cant, ok |-> TRUE])
      /\ r.op = "RESERVAR_ESPACIO"
  BY DEF ReservaAceptada, Pedido
<1>4. /\ p \in Procesos /\ n \in 1 .. MaxPedido /\ k + n - 1 <= MaxPagina
      /\ \A q : q # p => Conocidas(q)' = Conocidas(q)
      /\ Conocidas(p)' = Conocidas(p) \cup (k .. k + n - 1)
  BY <1>1, <1>3, ReservaServida
<1>5. Conocidas(p) = K /\ marcosMax' = marcosMax
  <2>1. "RESERVAR_ESPACIO" \in PedidosConRespuesta
    BY DEF PedidosConRespuesta
  <2>. QED
    BY <1>2, <1>3, <2>1, UltimoPedido
<1>6. /\ k \in Nat /\ \A x \in K : x \in Nat /\ x < k
      /\ K # {} => k - 1 \in K
      /\ K = {} => k = 0
  <2>1. /\ tabla[p] \in Seq(Nat) /\ Creciente(tabla[p]) /\ k = Siguiente(tabla[p]) /\ k \in Nat
        /\ \A x \in K : x \in Nat /\ x < k
    BY <1>1, <1>2, <1>4, Tabla
  <2>2. tabla[p] # <<>> => k - 1 \in K
    BY <1>2, <2>1, SiguienteArriba DEF EnTabla
  <2>3. tabla[p] = <<>> => K = {} /\ k = 0
    BY <1>2, <2>1 DEF EnTabla, ToSet, Siguiente
  <2>. QED
    BY <2>1, <2>2, <2>3
<1>7. /\ u \in S \cup {-1} /\ \A g \in S : g <= u
      /\ PaginasDe(p)' = S \cup (u + 1 .. u + n)
  BY <1>1, <1>2
<1>8. MaxPagina \in Int /\ n \in Int /\ n >= 1
  BY <1>4, TamaniosAssumption
<1>9. Fija' = Fija
  BY <1>5 DEF Fija
<1>10. \A q \in Procesos : q # p => Acuerdo(q)'
  BY <1>1, <1>4, <1>9 DEF IndCuentas, Acuerdo
<1>11. S = K \/ (Fija /\ \E y \in K : \A x \in S : x < y)
  BY <1>2, <1>4, <1>5 DEF IndCuentas, Acuerdo
<1>12. CASE S = K
  <2>1. u + 1 = k
    <3>1. CASE K = {}
      BY <1>6, <1>7, <1>12, <3>1
    <3>2. CASE K # {}
      <4>1. k - 1 \in K /\ k - 1 \in Nat /\ k - 1 <= u
        BY <1>6, <1>7, <1>12, <3>2
      <4>2. u \in K /\ u \in Nat /\ u < k
        <5>1. u \in K \/ u = -1
          BY <1>7, <1>12
        <5>2. u \in Int /\ u # -1
          BY <1>6, <4>1, <5>1
        <5>. QED
          BY <1>6, <5>1, <5>2
      <4>. QED
        BY <1>6, <4>1, <4>2
    <3>. QED
      BY <3>1, <3>2
  <2>2. u \in Int /\ u = k - 1 /\ u + n = k + n - 1
    <3>1. u \in Int
      BY <1>6, <1>7, <1>12
    <3>. QED
      BY <1>6, <1>8, <2>1, <3>1
  <2>3. PaginasDe(p)' = Conocidas(p)'
    BY <1>4, <1>5, <1>7, <1>12, <2>1, <2>2
  <2>4. Acuerdo(p)'
    BY <2>3 DEF Acuerdo
  <2>5. u + n <= MaxPagina
    BY <1>4, <2>2
  <2>. QED
    BY <1>1, <1>10, <2>4, <2>5
<1>13. CASE Fija /\ \E y \in K : \A x \in S : x < y
  <2>1. PICK y \in K : \A x \in S : x < y
    BY <1>13
  <2>2. y \in Nat /\ y < k
    BY <1>6
  <2>3. u \in Int /\ u < y
    <3>1. CASE u \in S
      <4>1. u \in Int
        <5>1. PICK f \in FramesOcupados(p) : u = marco[f].pag
          BY <1>2, <3>1 DEF PaginasDe
        <5>. QED
          BY <5>1 DEF IndCuentas, Inv, Tipos, Registros, FramesOcupados
      <4>. QED
        BY <2>1, <3>1, <4>1
    <3>2. CASE u = -1
      BY <2>2, <3>2
    <3>. QED
      BY <1>7, <3>1, <3>2
  <2>4. u + n < k + n - 1 /\ k <= k + n - 1 /\ y < k + n - 1 /\ k + n - 1 \in Int
    BY <1>6, <1>8, <2>2, <2>3
  <2>5. k + n - 1 \in Conocidas(p)'
    BY <1>4, <1>6, <1>8, <2>4
  <2>6. \A x \in PaginasDe(p)' : x < k + n - 1
    <3>1. ASSUME NEW x \in S  PROVE x < k + n - 1
      <4>1. x < y /\ x <= u
        BY <1>7, <2>1
      <4>2. x \in Int
        <5>1. PICK f \in FramesOcupados(p) : x = marco[f].pag
          BY <1>2 DEF PaginasDe
        <5>. QED
          BY <5>1 DEF IndCuentas, Inv, Tipos, Registros, FramesOcupados
      <4>. QED
        BY <2>2, <2>4, <4>1, <4>2
    <3>2. ASSUME NEW x \in u + 1 .. u + n  PROVE x < k + n - 1
      <4>1. x \in Int /\ x <= u + n
        BY <1>8, <2>3
      <4>. QED
        BY <1>8, <2>3, <2>4, <4>1
    <3>. QED
      BY <1>7, <3>1, <3>2
  <2>7. Acuerdo(p)'
    BY <1>9, <1>13, <2>5, <2>6 DEF Acuerdo
  <2>8. u + n <= MaxPagina
    BY <1>4, <1>8, <2>3, <2>4
  <2>. QED
    BY <1>1, <1>10, <2>7, <2>8
<1>. QED
  BY <1>11, <1>12, <1>13

\* Frames as the type invariant wants them.
RegistrosAcotados ==
    [pid : Procesos \cup {Nadie}, pag : SinPagina .. MaxPagina, ocupado : BOOLEAN]

\* The frames s lists take the pages after u, the others stay.
PaginasEn(m, n, s, p, u, c) ==
    /\ m \in [Marcos -> RegistrosAcotados]
    /\ n \in Nat /\ p \in Procesos
    /\ u \in Int /\ u >= -1 /\ u + n <= MaxPagina
    /\ \A i \in 1 .. n : c[s[i]] = [pid |-> p, pag |-> u + i, ocupado |-> TRUE]
    /\ \A f \in Marcos : (\A i \in 1 .. n : s[i] # f) => c[f] = m[f]

\* Frames that take pages keep their type.
LEMMA ConPaginasTipo ==
    ASSUME NEW m, NEW n, NEW s, NEW p, NEW u, NEW c, PaginasEn(m, n, s, p, u, c)
    PROVE  \A f \in Marcos : c[f] \in RegistrosAcotados
<1>. USE DEF PaginasEn
<1>1. ASSUME NEW f \in Marcos  PROVE c[f] \in RegistrosAcotados
  <2>1. CASE \A i \in 1 .. n : s[i] # f
    BY <2>1
  <2>2. CASE \E i \in 1 .. n : s[i] = f
    <3>1. PICK i \in 1 .. n : s[i] = f
      BY <2>2
    <3>2. u + i \in SinPagina .. MaxPagina
      <4>1. i \in Int /\ 1 <= i /\ i <= n /\ n \in Int /\ MaxPagina \in Int
        BY TamaniosAssumption
      <4>2. u + i \in Int /\ -1 <= u + i /\ u + i <= MaxPagina
        BY <4>1
      <4>. QED
        BY <4>1, <4>2 DEF SinPagina
    <3>3. [pid |-> p, pag |-> u + i, ocupado |-> TRUE] \in RegistrosAcotados
      BY <3>2 DEF RegistrosAcotados
    <3>4. c[s[i]] = [pid |-> p, pag |-> u + i, ocupado |-> TRUE]
      OBVIOUS
    <3>. QED
      BY <3>1, <3>3, <3>4
  <2>. QED
    BY <2>1, <2>2
<1>. QED
  BY <1>1

\* The type invariant, once the parts a step changes are known.
LEMMA TiposDePaso ==
    ASSUME IndCuentas, marcosMax' = marcosMax, caido' \in BOOLEAN,
           marco' \in [Marcos -> RegistrosAcotados], espacio' \in [Archivos -> Nat],
           dato' \in [Marcos -> Datos], canal' \in Seq(PedidosPosibles),
           respuesta' \in Respuestas, tabla' = tabla
    PROVE  TypeOK'
BY DEF IndCuentas, TypeOK, RegistrosAcotados

\* reservar_espacio, case 1.
LEMMA ReservarExistenteCuentas ==
    ASSUME IndCuentas, ReservarExistente
    PROVE  IndCuentas'
<1>0. PICK r : r = Head(canal)
  OBVIOUS
<1>1. PICK p, n : p = r.pid /\ n = r.cant
  OBVIOUS
<1>2. Pedido("RESERVAR_ESPACIO") /\ Atendido(ReservaAceptada(r)) /\ dato' = dato
  BY <1>0 DEF ReservarExistente
<1>3. PICK f \in FramesDelProceso(p) :
          /\ HayLugar(f[1], n)
          /\ \E u \in 0 .. MaxPagina, s \in [1 .. n -> FramesParaCrecer(f[1], p)] :
                /\ UltimaPagina(p, u)
                /\ Primeros(s, n, FramesParaCrecer(f[1], p))
                /\ marco' = ConPaginas(marco, s, n, p, u)
          /\ espacio' = [espacio EXCEPT ![f[1]] = @ - n]
  BY <1>0, <1>1 DEF ReservarExistente
<1>4. PICK a : a = f[1]
  OBVIOUS
<1>5. PICK u \in 0 .. MaxPagina, s \in [1 .. n -> FramesParaCrecer(a, p)] :
          /\ UltimaPagina(p, u)
          /\ Primeros(s, n, FramesParaCrecer(a, p))
          /\ marco' = ConPaginas(marco, s, n, p, u)
  BY <1>3, <1>4
<1>6. Atendido([op |-> "RESERVAR_ESPACIO", pid |-> r.pid, cant |-> r.cant, ok |-> TRUE])
  BY <1>0, <1>2 DEF ReservaAceptada, Pedido
<1>7. /\ p \in Procesos /\ n \in 1 .. MaxPedido
      /\ canal' \in Seq(PedidosPosibles) /\ respuesta' \in Respuestas
      /\ CanalVacio' /\ LiberacionesOK' /\ ReferidasOK' /\ PedidosCaben'
  BY <1>0, <1>1, <1>2, <1>6, ReservaServida
<1>8. tabla' = tabla /\ marcosMax' = marcosMax /\ caido' = caido /\ TablaOrdenada'
  <2>1. "RESERVAR_ESPACIO" \in PedidosConRespuesta
    BY DEF PedidosConRespuesta
  <2>. QED
    BY <1>2, <2>1, UltimoPedido
<1>9. /\ n \in Nat /\ n \in 0 .. n /\ u \in Int /\ u >= -1
      /\ a \in Archivos /\ FramesParaCrecer(a, p) \in SUBSET Marcos
      /\ \A g \in FramesParaCrecer(a, p) : ~marco[g].ocupado
  <2>1. n \in Nat /\ n \in 0 .. n /\ u \in Int /\ u >= -1
    BY <1>7, TamaniosAssumption
  <2>2. a \in Archivos
    BY <1>4 DEF FramesDelProceso, Marcos
  <2>. QED
    BY <2>1, <2>2 DEF FramesParaCrecer, FramesLibresDelProceso, FramesLibresDelArchivo
<1>10. /\ s \in [1 .. n -> Marcos] /\ \A i, j \in 1 .. n : s[i] = s[j] => i = j
       /\ \A i \in 1 .. n : ~marco[s[i]].ocupado
  BY <1>5, <1>9, OrdenEstricto
<1>11. /\ marco' = [g \in Marcos |-> marco'[g]]
       /\ \A i \in 1 .. n : marco'[s[i]] = [pid |-> p, pag |-> u + i, ocupado |-> TRUE]
       /\ \A g \in Marcos : (\A i \in 1 .. n : s[i] # g) => marco'[g] = marco[g]
  BY <1>5, <1>9, <1>10, ConPaginasDe, SMTT(40)
<1>12. /\ PaginasDe(p)' = PaginasDe(p) \cup (u + 1 .. u + n)
       /\ \A q : q # p => PaginasDe(q)' = PaginasDe(q)
  <2>1. /\ Paginas(marco', p) = Paginas(marco, p) \cup (u + 1 .. u + n)
        /\ \A q : q # p => Paginas(marco', q) = Paginas(marco, q)
    <3>1. PICK c, m : c = marco' /\ m = marco
      OBVIOUS
    <3>2. c = ConPaginas(m, s, n, p, u) /\ \A i \in 1 .. n : ~m[s[i]].ocupado
      BY <1>5, <1>10, <3>1
    <3>3. /\ Paginas(c, p) = Paginas(m, p) \cup (u + 1 .. u + n)
          /\ \A o : o # p => Paginas(c, o) = Paginas(m, o)
      BY <1>9, <1>10, <3>2, CrecerPaginas, SMTT(40)
    <3>. QED
      BY <3>1, <3>3
  <2>. QED
    BY <2>1 DEF PaginasDe, FramesOcupados, Paginas
<1>13. u \in PaginasDe(p) /\ \A g \in PaginasDe(p) : g <= u
  BY <1>5, <1>7, AsignadosOcupados DEF UltimaPagina, PaginasDe, IndCuentas
<1>14. u + n <= MaxPagina /\ \A q \in Procesos : Acuerdo(q)'
  BY <1>0, <1>1, <1>2, <1>12, <1>13, AcuerdoReserva
<1>15. marco' \in [Marcos -> RegistrosAcotados]
  <2>1. marco \in [Marcos -> RegistrosAcotados]
    BY DEF IndCuentas, TypeOK, RegistrosAcotados
  <2>2. \A g \in Marcos : marco'[g] \in RegistrosAcotados
    <3>1. PaginasEn(marco, n, s, p, u, marco')
      BY <1>7, <1>9, <1>11, <1>14, <2>1 DEF PaginasEn
    <3>. QED
      BY <3>1, ConPaginasTipo
  <2>. QED
    BY <1>11, <2>2
<1>16. /\ espacio \in [Archivos -> Nat] /\ espacio' \in [Archivos -> Nat]
       /\ espacio'[a] = espacio[a] - n
       /\ \A b \in Archivos : b # a => espacio'[b] = espacio[b]
  <2>1. espacio \in [Archivos -> Nat] /\ espacio[a] >= n
    BY <1>3, <1>4 DEF IndCuentas, TypeOK, HayLugar
  <2>2. espacio[a] - n \in Nat
    BY <1>9, <2>1
  <2>. QED
    BY <1>3, <1>4, <1>9, <2>1, <2>2
<1>17. TypeOK'
  BY <1>2, <1>7, <1>8, <1>15, <1>16, TiposDePaso DEF IndCuentas, TypeOK
<1>18. CASE Fija
  <2>1. \A i \in 1 .. n : marco[s[i]].pid = p
    BY <1>5, <1>18 DEF FramesParaCrecer, FramesLibresDelProceso
  <2>2. ASSUME NEW g \in Marcos  PROVE marco'[g].pid = marco[g].pid
    <3>1. CASE \A i \in 1 .. n : s[i] # g
      BY <1>11, <3>1
    <3>2. CASE \E i \in 1 .. n : s[i] = g
      <4>1. PICK i \in 1 .. n : s[i] = g
        BY <3>2
      <4>2. marco'[s[i]] = [pid |-> p, pag |-> u + i, ocupado |-> TRUE] /\ marco[s[i]].pid = p
        BY <1>11, <2>1
      <4>. QED
        BY <4>1, <4>2
    <3>. QED
      BY <3>1, <3>2
  <2>3. \A q : FramesDelProceso(q)' = FramesDelProceso(q)
    BY <2>2 DEF FramesDelProceso
  <2>4. CuotaFija'
    BY <1>8, <2>3 DEF IndCuentas, CuotaFija, Fija
  <2>5. LibresDeNadie' /\ EspacioContado' /\ NoCae'
    BY <1>8, <1>18, ConfiguracionesAssumption
    DEF LibresDeNadie, EspacioContado, EspacioExacto, NoCae, Fija, IndCuentas, TypeOK
  <2>6. Inv'
    BY ReservarExistentePreserva DEF IndCuentas
  <2>. QED
    BY <1>7, <1>8, <1>14, <1>17, <2>4, <2>5, <2>6 DEF IndCuentas
<1>19. CASE ~Fija
  <2>1. s \in [1 .. n -> Libres(marco, a)]
    BY <1>5, <1>19 DEF FramesParaCrecer, FramesLibresDelArchivo, Libres
  <2>2. ASSUME NEW i \in 1 .. n  PROVE marco'[s[i]].ocupado
    <3>1. marco'[s[i]] = [pid |-> p, pag |-> u + i, ocupado |-> TRUE]
      BY <1>11
    <3>. QED
      BY <3>1
  <2>3. /\ Cardinality(Libres(marco, a)) \in Nat
        /\ Cardinality(Libres(marco', a)) = Cardinality(Libres(marco, a)) - n
        /\ \A b : b # a => Libres(marco', b) = Libres(marco, b)
    <3>1. Ocupa(marco, a, n, s, marco')
      BY <1>9, <1>10, <1>11, <2>1, <2>2, Zenon DEF Ocupa
    <3>. QED
      BY <3>1, OcuparLibres
  <2>4. \A b : /\ FramesLibresDelArchivo(b) = Libres(marco, b)
               /\ FramesLibresDelArchivo(b)' = Libres(marco', b)
    BY DEF FramesLibresDelArchivo, Libres
  <2>5. EspacioContado'
    <3>1. ASSUME marcosMax # 0, marcosMax <= 0, NEW b \in Archivos
          PROVE  espacio'[b] = Cardinality(Libres(marco', b))
      <4>1. \A o \in Archivos : espacio[o] = Cardinality(Libres(marco, o))
        BY <2>4, <3>1 DEF IndCuentas, EspacioContado, EspacioExacto
      <4>2. CASE b = a
        BY <1>9, <1>16, <2>3, <4>1, <4>2
      <4>3. CASE b # a
        BY <1>16, <2>3, <4>1, <4>3
      <4>. QED
        BY <4>2, <4>3
    <3>. QED
      BY <1>8, <2>4, <3>1 DEF EspacioContado, EspacioExacto
  <2>6. LibresDeNadie'
    <3>1. ASSUME marcosMax < 0, NEW g \in Marcos, ~marco'[g].ocupado
          PROVE  marco'[g].pid = Nadie
      <4>1. \A i \in 1 .. n : s[i] # g
        BY <2>2, <3>1
      <4>. QED
        BY <1>11, <3>1, <4>1 DEF IndCuentas, LibresDeNadie
    <3>. QED
      BY <1>8, <3>1 DEF LibresDeNadie
  <2>7. CuotaFija' /\ NoCae'
    BY <1>8, <1>19 DEF CuotaFija, NoCae, Fija, IndCuentas
  <2>8. Inv'
    BY ReservarExistentePreserva DEF IndCuentas
  <2>. QED
    BY <1>7, <1>8, <1>14, <1>17, <2>5, <2>6, <2>7, <2>8 DEF IndCuentas
<1>. QED
  BY <1>18, <1>19

\* What reservar_espacio, case 2, does to the frames: the q first ones of the
\* file get an owner, and n of them the pages 0 .. n - 1.
EsNuevo(m, a, q, n, s, p, c) ==
    /\ m \in [Marcos -> RegistrosAcotados]
    /\ p \in Procesos
    /\ q \in Nat
    /\ n \in 0 .. q
    /\ n - 1 <= MaxPagina
    /\ s \in [1 .. q -> Libres(m, a)]
    /\ \A i, j \in 1 .. q : s[i] = s[j] => i = j
    /\ c = ConPaginas(Tomados(m, q, s, p), s, n, p, SinPagina)

\* What is left of it for each frame.
HechoNuevo(m, q, n, s, p, c) ==
    /\ \A i \in 1 .. q : c[s[i]].pid = p
    /\ \A i \in 1 .. n : c[s[i]].ocupado
    /\ \A f \in Marcos : (\A i \in 1 .. q : s[i] # f) => c[f] = m[f]

\* The frames and the pages of a new process; the others keep theirs.
LEMMA FramesDelNuevo ==
    ASSUME NEW m, NEW a, NEW q, NEW n, NEW s, NEW p, NEW c,
           EsNuevo(m, a, q, n, s, p, c)
    PROVE  /\ c \in [Marcos -> RegistrosAcotados]
           /\ HechoNuevo(m, q, n, s, p, c)
           /\ Paginas(c, p) = Paginas(m, p) \cup (0 .. n - 1)
           /\ \A o : o # p => Paginas(c, o) = Paginas(m, o)
<1>0. PICK u : u = -1
  OBVIOUS
<1>01. p \in Procesos
  BY DEF EsNuevo
<1>1. PICK t : t = Tomados(m, q, s, p)
  OBVIOUS
<1>2. /\ q \in Nat /\ n \in 0 .. q /\ n \in Nat
      /\ \A i, j \in 1 .. q : s[i] = s[j] => i = j
      /\ c = ConPaginas(t, s, n, p, u) /\ u \in Int
  BY <1>0, <1>1 DEF EsNuevo, SinPagina
<1>3. s \in [1 .. q -> Libres(m, a)]
  BY DEF EsNuevo
<1>4. s \in [1 .. q -> Marcos] /\ \A i \in 1 .. q : ~m[s[i]].ocupado
  BY <1>3 DEF Libres
<1>5. \A f \in Marcos : (\A i \in 1 .. q : s[i] # f) => t[f] = m[f]
  BY <1>1 DEF Tomados
<1>6. ASSUME NEW i \in 1 .. q
      PROVE  t[s[i]] = [m[s[i]] EXCEPT !.pid = p, !.ocupado = FALSE]
  <2>1. s[i] \in Marcos /\ \E j \in 1 .. q : s[j] = s[i]
    BY <1>4
  <2>. QED
    BY <1>1, <2>1 DEF Tomados
<1>7. ASSUME NEW i \in 1 .. q
      PROVE  /\ t[s[i]] \in RegistrosAcotados
             /\ t[s[i]].pid = p /\ ~t[s[i]].ocupado
  <2>0. m \in [Marcos -> RegistrosAcotados]
    BY DEF EsNuevo
  <2>1. m[s[i]] \in RegistrosAcotados
    BY <1>4, <2>0
  <2>2. t[s[i]] = [pid |-> p, pag |-> m[s[i]].pag, ocupado |-> FALSE]
    BY <1>6, <2>1 DEF RegistrosAcotados
  <2>. QED
    BY <1>01, <2>1, <2>2 DEF RegistrosAcotados
<1>8. t \in [Marcos -> RegistrosAcotados]
  <2>1. ASSUME NEW f \in Marcos  PROVE t[f] \in RegistrosAcotados
    <3>1. CASE \A i \in 1 .. q : s[i] # f
      BY <1>5, <3>1 DEF EsNuevo
    <3>2. CASE \E i \in 1 .. q : s[i] = f
      BY <1>7, <3>2
    <3>. QED
      BY <3>1, <3>2
  <2>2. t = [f \in Marcos |-> t[f]]
    BY <1>1 DEF Tomados
  <2>. QED
    BY <2>1, <2>2
<1>9. /\ \A i \in 1 .. n : c[s[i]] = [pid |-> p, pag |-> u + i, ocupado |-> TRUE]
      /\ \A f \in Marcos : (\A i \in 1 .. n : s[i] # f) => c[f] = t[f]
  <2>0. /\ q \in Nat /\ n \in 0 .. q /\ u \in Int /\ s \in [1 .. q -> Marcos]
        /\ \A i, j \in 1 .. q : s[i] = s[j] => i = j
        /\ c = ConPaginas(t, s, n, p, u)
    BY <1>2, <1>4
  <2>1. ASSUME NEW i \in 1 .. n
        PROVE  c[s[i]] = [pid |-> p, pag |-> u + i, ocupado |-> TRUE]
    <3>1. i \in 1 .. q
      BY <2>0
    <3>2. s[i] \in Marcos /\ \E j \in 1 .. n : s[j] = s[i]
      BY <2>0, <3>1
    <3>3. (CHOOSE j \in 1 .. n : s[j] = s[i]) = i
      <4>1. \A j \in 1 .. n : s[j] = s[i] => j = i
        BY <2>0, <3>1
      <4>. QED
        BY <4>1
    <3>. QED
      BY <2>0, <3>2, <3>3 DEF ConPaginas
  <2>2. \A f \in Marcos : (\A i \in 1 .. n : s[i] # f) => c[f] = t[f]
    BY <1>2, <1>4 DEF ConPaginas
  <2>. QED
    BY <2>1, <2>2
<1>10. c \in [Marcos -> RegistrosAcotados]
  <2>1. u + n <= MaxPagina /\ u >= -1
    BY <1>0, <1>2, TamaniosAssumption DEF EsNuevo
  <2>2. \A f \in Marcos : c[f] \in RegistrosAcotados
    <3>1. PaginasEn(t, n, s, p, u, c)
      BY <1>01, <1>2, <1>8, <1>9, <2>1 DEF PaginasEn
    <3>. QED
      BY <3>1, ConPaginasTipo
  <2>3. c = [f \in Marcos |-> c[f]]
    BY <1>2 DEF ConPaginas
  <2>. QED
    BY <2>2, <2>3
<1>11. \A i \in 1 .. n : i \in 1 .. q
  BY <1>2
<1>12. \A f \in Marcos : (\A i \in 1 .. q : s[i] # f) => c[f] = m[f]
  BY <1>5, <1>9, <1>11
<1>13. ASSUME NEW i \in 1 .. n  PROVE c[s[i]].ocupado /\ c[s[i]].pid = p
  <2>1. c[s[i]] = [pid |-> p, pag |-> u + i, ocupado |-> TRUE]
    BY <1>9
  <2>. QED
    BY <2>1
<1>14. ASSUME NEW i \in 1 .. q  PROVE c[s[i]].pid = p
  <2>1. CASE \E j \in 1 .. n : s[j] = s[i]
    <3>1. PICK j \in 1 .. n : s[j] = s[i]
      BY <2>1
    <3>. QED
      BY <1>13, <3>1
  <2>2. CASE \A j \in 1 .. n : s[j] # s[i]
    <3>1. c[s[i]] = t[s[i]]
      BY <1>4, <1>9, <2>2
    <3>. QED
      BY <1>7, <3>1
  <2>. QED
    BY <2>1, <2>2
<1>15. \A o : Paginas(t, o) = Paginas(m, o)
  <2>1. ASSUME NEW f \in Marcos
        PROVE  /\ t[f].ocupado <=> m[f].ocupado
               /\ m[f].ocupado => t[f] = m[f]
    <3>1. CASE \A i \in 1 .. q : s[i] # f
      BY <1>5, <3>1
    <3>2. CASE \E i \in 1 .. q : s[i] = f
      <4>1. PICK i \in 1 .. q : s[i] = f
        BY <3>2
      <4>2. ~t[s[i]].ocupado /\ ~m[s[i]].ocupado
        BY <1>4, <1>7
      <4>. QED
        BY <4>1, <4>2
    <3>. QED
      BY <3>1, <3>2
  <2>2. ASSUME NEW o
        PROVE  {g \in Marcos : t[g].ocupado /\ t[g].pid = o} = {g \in Marcos : m[g].ocupado /\ m[g].pid = o}
    BY <2>1
  <2>. QED
    BY <2>1, <2>2 DEF Paginas
<1>16. /\ Paginas(c, p) = Paginas(t, p) \cup (u + 1 .. u + n)
       /\ \A o : o # p => Paginas(c, o) = Paginas(t, o)
  <2>1. \A i \in 1 .. n : ~t[s[i]].ocupado
    BY <1>7, <1>11
  <2>. QED
    BY <1>2, <1>4, <2>1, CrecerPaginas, SMTT(40)
<1>17. u + 1 .. u + n = 0 .. n - 1
  BY <1>0, <1>2
<1>18. HechoNuevo(m, q, n, s, p, c)
  BY <1>12, <1>13, <1>14 DEF HechoNuevo
<1>. QED
  BY <1>10, <1>15, <1>16, <1>17, <1>18

\* reservar_espacio, case 2.
LEMMA ReservarNuevoCuentas ==
    ASSUME IndCuentas, ReservarNuevo
    PROVE  IndCuentas'
<1>0. PICK r : r = Head(canal)
  OBVIOUS
<1>1. PICK p, n, q : p = r.pid /\ n = r.cant /\ q = FramesRequeridos(n)
  OBVIOUS
<1>2. /\ Pedido("RESERVAR_ESPACIO") /\ Atendido(ReservaAceptada(r)) /\ dato' = dato
      /\ FramesDelProceso(p) = {} /\ n <= q
  BY <1>0, <1>1 DEF ReservarNuevo
<1>3. PICK a, s, t :
          /\ a \in Archivos /\ HayLugar(a, q)
          /\ espacio' = [espacio EXCEPT ![a] = @ - q]
          /\ s \in [1 .. q -> FramesLibresDelArchivo(a)]
          /\ Primeros(s, q, FramesLibresDelArchivo(a))
          /\ t = Tomados(marco, q, s, r.pid)
          /\ marco' = ConPaginas(t, s, r.cant, r.pid, SinPagina)
  <2>1. PICK k : k = FramesRequeridos(r.cant)
    OBVIOUS
  <2>2. PICK a, s, t :
          /\ a \in Archivos /\ HayLugar(a, k)
          /\ espacio' = [espacio EXCEPT ![a] = @ - k]
          /\ s \in [1 .. k -> FramesLibresDelArchivo(a)]
          /\ Primeros(s, k, FramesLibresDelArchivo(a))
          /\ t = Tomados(marco, k, s, r.pid)
          /\ marco' = ConPaginas(t, s, r.cant, r.pid, SinPagina)
    BY <1>0, <2>1, Zenon DEF ReservarNuevo, Tomados
  <2>3. k = q
    BY <1>1, <2>1
  <2>. QED
    BY <2>2, <2>3, Zenon
<1>4. /\ s \in [1 .. q -> FramesLibresDelArchivo(a)]
      /\ Primeros(s, q, FramesLibresDelArchivo(a))
      /\ marco' = ConPaginas(Tomados(marco, q, s, p), s, n, p, SinPagina)
  BY <1>1, <1>3
<1>6. Atendido([op |-> "RESERVAR_ESPACIO", pid |-> r.pid, cant |-> r.cant, ok |-> TRUE])
  BY <1>0, <1>2 DEF ReservaAceptada, Pedido
<1>7. /\ p \in Procesos /\ n \in 1 .. MaxPedido
      /\ canal' \in Seq(PedidosPosibles) /\ respuesta' \in Respuestas
      /\ CanalVacio' /\ LiberacionesOK' /\ ReferidasOK' /\ PedidosCaben'
  BY <1>0, <1>1, <1>2, <1>6, ReservaServida
<1>8. tabla' = tabla /\ marcosMax' = marcosMax /\ caido' = caido /\ TablaOrdenada'
  <2>1. "RESERVAR_ESPACIO" \in PedidosConRespuesta
    BY DEF PedidosConRespuesta
  <2>. QED
    BY <1>2, <2>1, UltimoPedido
<1>9. q \in Nat /\ n \in 0 .. q /\ n \in Nat
  <2>1. marcosMax \in Int
    BY DEF IndCuentas, Inv, Tipos
  <2>2. n \in Nat /\ q \in Int
    BY <1>1, <1>7, <2>1, TamaniosAssumption DEF FramesRequeridos
  <2>. QED
    BY <1>2, <2>2
<1>10. \A b : /\ FramesLibresDelArchivo(b) = Libres(marco, b)
              /\ FramesLibresDelArchivo(b)' = Libres(marco', b)
  BY DEF FramesLibresDelArchivo, Libres
<1>12. PaginasDe(p) = {}
  BY <1>2 DEF PaginasDe, FramesOcupados, FramesDelProceso
<1>13. \A o : PaginasDe(o) = Paginas(marco, o) /\ PaginasDe(o)' = Paginas(marco', o)
  BY DEF PaginasDe, FramesOcupados, Paginas
<1>14. marco \in [Marcos -> RegistrosAcotados]
  BY DEF IndCuentas, TypeOK, RegistrosAcotados
<1>15. n - 1 <= MaxPagina
  <2>1. PrimeraNueva(p) + n - 1 <= MaxPagina
    BY <1>0, <1>1, <1>2, <1>6, ReservaServida
  <2>. QED
    BY <1>7, <1>9, <2>1, Tabla, TamaniosAssumption
<1>11. EsNuevo(marco, a, q, n, s, p, marco')
  <2>1. FramesLibresDelArchivo(a) \in SUBSET Marcos
    BY DEF FramesLibresDelArchivo
  <2>2. \A i, j \in 1 .. q : s[i] = s[j] => i = j
    BY <1>4, <1>9, <2>1, OrdenEstricto
  <2>. QED
    BY <1>4, <1>7, <1>9, <1>10, <1>14, <1>15, <2>2 DEF EsNuevo
<1>16. /\ marco' \in [Marcos -> RegistrosAcotados]
       /\ \A i \in 1 .. q : marco'[s[i]].pid = p
       /\ \A i \in 1 .. n : marco'[s[i]].ocupado
       /\ \A f \in Marcos : (\A i \in 1 .. q : s[i] # f) => marco'[f] = marco[f]
       /\ Paginas(marco', p) = Paginas(marco, p) \cup (0 .. n - 1)
       /\ \A o : o # p => Paginas(marco', o) = Paginas(marco, o)
  <2>1. PICK c, m : c = marco' /\ m = marco
    OBVIOUS
  <2>2. EsNuevo(m, a, q, n, s, p, c)
    BY <1>11, <2>1
  <2>3. /\ c \in [Marcos -> RegistrosAcotados]
        /\ HechoNuevo(m, q, n, s, p, c)
        /\ Paginas(c, p) = Paginas(m, p) \cup (0 .. n - 1)
        /\ \A o : o # p => Paginas(c, o) = Paginas(m, o)
    BY <2>2, FramesDelNuevo
  <2>. QED
    BY <2>1, <2>3 DEF HechoNuevo
<1>17. \A o \in Procesos : Acuerdo(o)'
  <2>1. PICK u : u = -1
    OBVIOUS
  <2>2. u \in PaginasDe(p) \cup {-1} /\ \A g \in PaginasDe(p) : g <= u
    BY <1>12, <2>1
  <2>3. u + 1 .. u + n = 0 .. n - 1
    BY <1>9, <2>1
  <2>4. /\ PaginasDe(p)' = PaginasDe(p) \cup (u + 1 .. u + n)
        /\ \A o : o # p => PaginasDe(o)' = PaginasDe(o)
    BY <1>13, <1>16, <2>3
  <2>. QED
    BY <1>0, <1>1, <1>2, <2>2, <2>4, AcuerdoReserva
<1>18. /\ espacio \in [Archivos -> Nat] /\ espacio' \in [Archivos -> Nat]
       /\ espacio'[a] = espacio[a] - q
       /\ \A b \in Archivos : b # a => espacio'[b] = espacio[b]
  <2>1. /\ a \in Archivos /\ HayLugar(a, q)
        /\ espacio' = [espacio EXCEPT ![a] = espacio[a] - q]
    BY <1>3
  <2>2. espacio \in [Archivos -> Nat]
    BY DEF IndCuentas, TypeOK
  <2>3. espacio[a] \in Nat /\ espacio[a] >= q
    BY <2>1, <2>2 DEF HayLugar
  <2>4. espacio[a] - q \in Nat
    BY <1>9, <2>3
  <2>. QED
    BY <2>1, <2>2, <2>4
<1>19. TypeOK'
  BY <1>2, <1>7, <1>8, <1>16, <1>18, TiposDePaso DEF IndCuentas, TypeOK
<1>20. Inv'
  BY ReservarNuevoPreserva DEF IndCuentas
<1>21. CASE Fija
  <2>1. q = marcosMax
    BY <1>1, <1>21 DEF FramesRequeridos
  <2>2. s \in [1 .. q -> Libres(marco, a)] /\ \A i, j \in 1 .. q : s[i] = s[j] => i = j
    BY <1>11 DEF EsNuevo
  <2>3. \A i \in 1 .. q : s[i] \in Marcos /\ marco[s[i]].pid = Nadie /\ s[i][1] = a
    BY <2>2 DEF Libres
  <2>4. FramesDelProceso(p)' = Imagen(s, q)
    <3>1. ASSUME NEW f \in Marcos, marco'[f].pid = p  PROVE f \in Imagen(s, q)
      <4>1. marco[f].pid # p
        BY <1>2 DEF FramesDelProceso
      <4>. QED
        BY <1>16, <3>1, <4>1 DEF Imagen
    <3>. QED
      BY <1>16, <2>3, <3>1 DEF FramesDelProceso, Imagen
  <2>5. ASSUME NEW o \in Procesos, o # p
        PROVE  FramesDelProceso(o)' = FramesDelProceso(o)
    <3>1. ASSUME NEW f \in Marcos  PROVE marco'[f].pid = o <=> marco[f].pid = o
      <4>1. CASE \A i \in 1 .. q : s[i] # f
        BY <1>16, <4>1
      <4>2. CASE \E i \in 1 .. q : s[i] = f
        BY <1>16, <2>3, <2>5, <4>2, NadieAssumption
      <4>. QED
        BY <4>1, <4>2
    <3>. QED
      BY <3>1 DEF FramesDelProceso
  <2>6. Cardinality(Imagen(s, q)) = marcosMax
    BY <1>9, <2>1, <2>2, CardImagen
  <2>7. \A f, g \in Imagen(s, q) : f[1] = g[1]
    BY <2>3 DEF Imagen
  <2>8. CuotaFija'
    <3>1. ASSUME NEW o \in Procesos
          PROVE  \/ FramesDelProceso(o)' = {}
                 \/ /\ Cardinality(FramesDelProceso(o)') = marcosMax
                    /\ \A f, g \in FramesDelProceso(o)' : f[1] = g[1]
      <4>1. CASE o = p
        BY <2>4, <2>6, <2>7, <4>1
      <4>2. CASE o # p
        BY <1>21, <2>5, <4>2 DEF IndCuentas, CuotaFija
      <4>. QED
        BY <4>1, <4>2
    <3>. QED
      BY <1>8, <3>1 DEF CuotaFija
  <2>9. LibresDeNadie' /\ EspacioContado' /\ NoCae'
    BY <1>8, <1>21, ConfiguracionesAssumption
    DEF LibresDeNadie, EspacioContado, EspacioExacto, NoCae, Fija, IndCuentas, TypeOK
  <2>. QED
    BY <1>7, <1>8, <1>17, <1>19, <1>20, <2>8, <2>9 DEF IndCuentas
<1>22. CASE ~Fija
  <2>1. q = n
    BY <1>1, <1>22 DEF FramesRequeridos
  <2>2. Ocupa(marco, a, n, s, marco')
    BY <1>9, <1>11, <1>16, <2>1 DEF Ocupa, EsNuevo
  <2>3. /\ Cardinality(Libres(marco, a)) \in Nat
        /\ Cardinality(Libres(marco', a)) = Cardinality(Libres(marco, a)) - n
        /\ \A b : b # a => Libres(marco', b) = Libres(marco, b)
    BY <2>2, OcuparLibres
  <2>4. EspacioContado'
    <3>1. ASSUME marcosMax # 0, marcosMax <= 0, NEW b \in Archivos
          PROVE  espacio'[b] = Cardinality(Libres(marco', b))
      <4>1. \A o \in Archivos : espacio[o] = Cardinality(Libres(marco, o))
        BY <1>10, <3>1 DEF IndCuentas, EspacioContado, EspacioExacto
      <4>2. CASE b = a
        BY <1>9, <1>18, <2>1, <2>3, <4>1, <4>2
      <4>3. CASE b # a
        BY <1>18, <2>3, <4>1, <4>3
      <4>. QED
        BY <4>2, <4>3
    <3>. QED
      BY <1>8, <1>10, <3>1 DEF EspacioContado, EspacioExacto
  <2>5. LibresDeNadie'
    <3>1. ASSUME marcosMax < 0, NEW g \in Marcos, ~marco'[g].ocupado
          PROVE  marco'[g].pid = Nadie
      <4>1. \A i \in 1 .. q : s[i] # g
        BY <1>16, <2>1, <3>1
      <4>. QED
        BY <1>16, <3>1, <4>1 DEF IndCuentas, LibresDeNadie
    <3>. QED
      BY <1>8, <3>1 DEF LibresDeNadie
  <2>6. CuotaFija' /\ NoCae'
    BY <1>8, <1>22 DEF CuotaFija, NoCae, Fija, IndCuentas
  <2>. QED
    BY <1>7, <1>8, <1>17, <1>19, <1>20, <2>4, <2>5, <2>6 DEF IndCuentas
<1>. QED
  BY <1>21, <1>22

\* A refusal: the frames stay; with fixed assignment the pages memoria adds all
\* the same are above those swamp has.
LEMMA RechazarReservaCuentas ==
    ASSUME IndCuentas, RechazarReserva
    PROVE  IndCuentas'
<1>0. PICK r : r = Head(canal)
  OBVIOUS
<1>1. /\ Pedido("RESERVAR_ESPACIO") /\ UNCHANGED discos
      /\ Atendido([op |-> "RESERVAR_ESPACIO", pid |-> r.pid, cant |-> r.cant, ok |-> FALSE])
  BY <1>0 DEF RechazarReserva, ReservaRechazada, Pedido
<1>2. PICK p, n, k : p = r.pid /\ n = r.cant /\ k = PrimeraNueva(p)
  OBVIOUS
<1>3. /\ p \in Procesos /\ n \in 1 .. MaxPedido
      /\ canal' \in Seq(PedidosPosibles) /\ respuesta' \in Respuestas
      /\ CanalVacio' /\ LiberacionesOK' /\ ReferidasOK' /\ PedidosCaben'
      /\ \A q : q # p => Conocidas(q)' = Conocidas(q)
      /\ Conocidas(p)' = Conocidas(p) \cup
            (IF FALSE \/ (Fija /\ tabla[p] # <<>>) THEN k .. k + n - 1 ELSE {})
  BY <1>0, <1>1, <1>2, ReservaServida
<1>4. /\ tabla' = tabla /\ marcosMax' = marcosMax /\ caido' = caido /\ TablaOrdenada'
      /\ \A q : Conocidas(q) = EnTabla(q)
  <2>1. "RESERVAR_ESPACIO" \in PedidosConRespuesta
    BY DEF PedidosConRespuesta
  <2>. QED
    BY <1>1, <2>1, UltimoPedido
<1>5. /\ CuotaFija' /\ LibresDeNadie' /\ EspacioContado' /\ NoCae'
      /\ Fija' = Fija /\ \A q : PaginasDe(q)' = PaginasDe(q)
  BY <1>1, <1>4, FramesQuietos
<1>6. ASSUME NEW q \in Procesos  PROVE Acuerdo(q)'
  <2>1. CASE Conocidas(q)' = Conocidas(q)
    BY <1>5, <2>1 DEF IndCuentas, Acuerdo
  <2>2. CASE q = p /\ Fija /\ tabla[p] # <<>>
    <3>1. /\ k \in Nat /\ \A x \in EnTabla(p) : x \in Nat /\ x < k
          /\ n \in Int /\ 1 <= n
      BY <1>2, <1>3, Tabla, TamaniosAssumption
    <3>2. k + n - 1 \in k .. k + n - 1 /\ k <= k + n - 1
      BY <3>1
    <3>3. k + n - 1 \in Conocidas(p)'
      BY <1>3, <2>2, <3>2
    <3>4. ASSUME NEW h \in PaginasDe(p)  PROVE h < k + n - 1
      <4>1. CASE PaginasDe(p) = Conocidas(p)
        <5>1. h \in Nat /\ h < k
          BY <1>4, <3>1, <4>1
        <5>. QED
          BY <3>1, <3>2, <5>1
      <4>2. CASE \E g \in Conocidas(p) : \A x \in PaginasDe(p) : x < g
        <5>1. PICK g \in EnTabla(p) : h < g
          BY <1>4, <4>2
        <5>2. h \in Int
          <6>1. PICK f \in FramesOcupados(p) : h = marco[f].pag
            BY DEF PaginasDe
          <6>. QED
            BY <6>1 DEF IndCuentas, Inv, Tipos, Registros, FramesOcupados
        <5>3. g \in Nat /\ g < k
          BY <3>1
        <5>. QED
          BY <3>1, <3>2, <5>1, <5>2, <5>3
      <4>. QED
        BY <1>3, <4>1, <4>2 DEF IndCuentas, Acuerdo
    <3>5. \A h \in PaginasDe(q)' : h < k + n - 1
      BY <1>5, <2>2, <3>4
    <3>. QED
      BY <1>5, <2>2, <3>3, <3>5 DEF Acuerdo
  <2>. QED
    BY <1>3, <2>1, <2>2
<1>7. TypeOK'
  BY <1>1, <1>3, <1>4 DEF IndCuentas, TypeOK, discos
<1>8. Inv'
  BY RechazarReservaPreserva DEF IndCuentas
<1>. QED
  BY <1>3, <1>4, <1>5, <1>6, <1>7, <1>8 DEF IndCuentas

\* A page that is written: only what its frame holds changes.
LEMMA TirarCuentas ==
    ASSUME IndCuentas, Tirar
    PROVE  IndCuentas'
<1>0. PICK r : r = Head(canal)
  OBVIOUS
<1>1. Pedido("TIRAR_A_SWAP") /\ Atendido(respuesta) /\ UNCHANGED <<marco, espacio>>
  BY <1>0 DEF Tirar
<1>2. PICK f \in Marcos : dato' = [dato EXCEPT ![f] = r.dato]
  BY <1>0 DEF Tirar
<1>3. /\ r.op = "TIRAR_A_SWAP" /\ r.dato \in Datos
      /\ canal' \in Seq(PedidosPosibles) /\ respuesta' = respuesta
      /\ tabla' = tabla /\ marcosMax' = marcosMax /\ caido' = caido
      /\ CanalVacio' /\ TablaOrdenada' /\ LiberacionesOK' /\ ReferidasOK' /\ PedidosCaben'
      /\ \A q \in Procesos : ~EsLiberacion(r, q) => Conocidas(q)' = Conocidas(q)
  BY <1>0, <1>1, AtenderSinRespuesta
<1>4. \A q \in Procesos : Conocidas(q)' = Conocidas(q)
  BY <1>3 DEF EsLiberacion
<1>5. /\ Fija' = Fija /\ \A q : PaginasDe(q)' = PaginasDe(q)
      /\ \A q : FramesDelProceso(q)' = FramesDelProceso(q)
      /\ \A a : FramesLibresDelArchivo(a)' = FramesLibresDelArchivo(a)
  BY <1>1, <1>3 DEF Fija, PaginasDe, FramesOcupados, FramesDelProceso, FramesLibresDelArchivo
<1>6. CuotaFija' /\ LibresDeNadie' /\ NoCae'
  BY <1>1, <1>3, <1>5 DEF IndCuentas, CuotaFija, LibresDeNadie, NoCae
<1>7. EspacioContado'
  BY <1>1, <1>3, <1>5 DEF IndCuentas, EspacioContado, EspacioExacto
<1>8. \A q \in Procesos : Acuerdo(q)'
  BY <1>4, <1>5 DEF IndCuentas, Acuerdo
<1>9. TypeOK'
  BY <1>1, <1>2, <1>3 DEF IndCuentas, TypeOK
<1>10. Inv'
  BY TirarPreserva DEF IndCuentas
<1>. QED
  BY <1>3, <1>6, <1>7, <1>8, <1>9, <1>10 DEF IndCuentas

\* A page that is read.
LEMMA TraerCuentas ==
    ASSUME IndCuentas, Traer
    PROVE  IndCuentas'
<1>0. PICK r : r = Head(canal)
  OBVIOUS
<1>1. PICK f \in Marcos :
          /\ Pedido("TRAER_DE_SWAP") /\ UNCHANGED discos
          /\ Atendido([op |-> r.op, pid |-> r.pid, pag |-> r.pag, dato |-> dato[f]])
  BY <1>0 DEF Traer
<1>2. PICK a : a = [op |-> r.op, pid |-> r.pid, pag |-> r.pag, dato |-> dato[f]]
  OBVIOUS
<1>3. /\ canal # <<>> /\ r.op = "TRAER_DE_SWAP" /\ r \in PedidosPosibles
  BY <1>0, <1>1, PrimerPedido DEF Pedido
<1>4. /\ respuesta = Nada /\ respuesta' = a
      /\ canal' = <<>> /\ tabla' = tabla /\ marcosMax' = marcosMax /\ caido' = caido
      /\ \A q : Conocidas(q) = EnTabla(q) /\ Conocidas(q)' = EnTabla(q) \cup Otorgadas(q)'
      /\ TablaOrdenada'
  <2>1. "TRAER_DE_SWAP" \in PedidosConRespuesta
    BY DEF PedidosConRespuesta
  <2>2. Atendido(a)
    BY <1>1, <1>2
  <2>. QED
    BY <1>1, <2>1, <2>2, UltimoPedido
<1>5. a.op = "TRAER_DE_SWAP" /\ a \in Respuestas
  <2>1. r.pid \in Procesos /\ r.pag \in 0 .. MaxPagina
    BY <1>3 DEF PedidosPosibles
  <2>2. dato[f] \in Datos
    BY DEF IndCuentas, TypeOK
  <2>. QED
    BY <1>2, <1>3, <2>1, <2>2 DEF Respuestas
<1>6. \A q : Otorgadas(q)' = {}
  BY <1>4, <1>5 DEF Otorgadas, SeAgregan
<1>7. \A q : Conocidas(q)' = Conocidas(q)
  BY <1>4, <1>6
<1>8. /\ CuotaFija' /\ LibresDeNadie' /\ EspacioContado' /\ NoCae'
      /\ Fija' = Fija /\ \A q : PaginasDe(q)' = PaginasDe(q)
  BY <1>1, <1>4, FramesQuietos
<1>9. \A q \in Procesos : Acuerdo(q)'
  BY <1>7, <1>8 DEF IndCuentas, Acuerdo
<1>10. /\ canal' \in Seq(PedidosPosibles) /\ DOMAIN canal' = {}
       /\ CanalVacio' /\ LiberacionesOK' /\ ReferidasOK'
  BY <1>4, SinCanal
<1>11. PedidosCaben'
  BY <1>4, <1>5, <1>10 DEF PedidosCaben, Cabe
<1>12. TypeOK'
  BY <1>1, <1>4, <1>5, <1>10 DEF IndCuentas, TypeOK, discos
<1>13. Inv'
  BY TraerPreserva DEF IndCuentas
<1>. QED
  BY <1>4, <1>8, <1>9, <1>10, <1>11, <1>12, <1>13 DEF IndCuentas

\* c is m with the frame f, the one of its page, empty and of d.
Vacia(m, f, d, c) ==
    /\ f \in Marcos /\ m[f].ocupado
    /\ c[f] = [pid |-> d, pag |-> SinPagina, ocupado |-> FALSE]
    /\ \A g \in Marcos : g # f => c[g] = m[g]
    /\ \A g \in Marcos :
          m[g].ocupado /\ m[g].pid = m[f].pid /\ m[g].pag = m[f].pag => g = f

\* A frame that is emptied: one page less for its process, and one free frame
\* more for its file if it is nobody's now.
LEMMA VaciarCuentas ==
    ASSUME NEW m, NEW f, NEW d, NEW c, Vacia(m, f, d, c)
    PROVE  /\ Paginas(c, m[f].pid) = Paginas(m, m[f].pid) \ {m[f].pag}
           /\ m[f].pag \in Paginas(m, m[f].pid)
           /\ \A o : o # m[f].pid => Paginas(c, o) = Paginas(m, o)
           /\ d = Nadie =>
                 /\ Cardinality(Libres(m, f[1])) \in Nat
                 /\ Cardinality(Libres(c, f[1])) = Cardinality(Libres(m, f[1])) + 1
                 /\ \A a : a # f[1] => Libres(c, a) = Libres(m, a)
<1>. USE DEF Vacia
<1>1. ~c[f].ocupado /\ c[f].pid = d
  OBVIOUS
<1>2. \A o : {g \in Marcos : c[g].ocupado /\ c[g].pid = o}
                 = {g \in Marcos : m[g].ocupado /\ m[g].pid = o} \ {f}
  BY <1>1
<1>3. \A o : Paginas(c, o) = {m[g].pag : g \in {h \in Marcos : m[h].ocupado /\ m[h].pid = o} \ {f}}
  BY <1>2 DEF Paginas
<1>4. Paginas(c, m[f].pid) = Paginas(m, m[f].pid) \ {m[f].pag}
  BY <1>3 DEF Paginas
<1>5. \A o : o # m[f].pid => Paginas(c, o) = Paginas(m, o)
  BY <1>3 DEF Paginas
<1>6. m[f].pag \in Paginas(m, m[f].pid)
  BY DEF Paginas
<1>7. ASSUME d = Nadie
      PROVE  /\ Cardinality(Libres(m, f[1])) \in Nat
             /\ Cardinality(Libres(c, f[1])) = Cardinality(Libres(m, f[1])) + 1
             /\ \A a : a # f[1] => Libres(c, a) = Libres(m, a)
  <2>1. Libres(c, f[1]) = Libres(m, f[1]) \cup {f} /\ f \notin Libres(m, f[1])
    BY <1>1, <1>7 DEF Libres
  <2>2. \A a : a # f[1] => Libres(c, a) = Libres(m, a)
    BY <1>1 DEF Libres
  <2>3. IsFiniteSet(Libres(m, f[1]))
    <3>1. Libres(m, f[1]) \in SUBSET Marcos
      BY DEF Libres
    <3>. QED
      BY <3>1, MarcosFinitos, FS_Subset
  <2>. QED
    BY <2>1, <2>2, <2>3, FS_AddElement, FS_CardinalityType
<1>. QED
  BY <1>4, <1>5, <1>6, <1>7

\* A page that is released.
LEMMA LiberarCuentas ==
    ASSUME IndCuentas, Liberar
    PROVE  IndCuentas'
<1>0. PICK r : r = Head(canal)
  OBVIOUS
<1>1. Pedido("LIBERAR_PAGINA") /\ Atendido(respuesta) /\ dato' = dato
  BY <1>0 DEF Liberar
<1>2. /\ r.pid \in Procesos /\ r.pag \in 0 .. MaxPagina /\ r.op = "LIBERAR_PAGINA"
      /\ canal' \in Seq(PedidosPosibles) /\ respuesta' = respuesta
      /\ tabla' = tabla /\ marcosMax' = marcosMax /\ caido' = caido
      /\ CanalVacio' /\ TablaOrdenada' /\ LiberacionesOK' /\ ReferidasOK' /\ PedidosCaben'
      /\ \A q \in Procesos : ~EsLiberacion(r, q) => Conocidas(q)' = Conocidas(q)
      /\ \A q \in Procesos : EsLiberacion(r, q) =>
            r.pag \in Conocidas(q) /\ Conocidas(q)' = Conocidas(q) \ {r.pag}
  BY <1>0, <1>1, AtenderSinRespuesta
<1>30. PICK f \in Marcos :
          /\ EsPrimero(f, FramesDePagina(r.pid, r.pag))
          /\ espacio' = [espacio EXCEPT ![f[1]] = @ + 1]
          /\ marco' = [marco EXCEPT ![f] = [pid |-> DuenioTrasLiberar(f), pag |-> SinPagina,
                                             ocupado |-> FALSE]]
  BY <1>0 DEF Liberar, DevolverEspacio
<1>3. PICK d :
          /\ EsPrimero(f, FramesDePagina(r.pid, r.pag))
          /\ espacio' = [espacio EXCEPT ![f[1]] = @ + 1]
          /\ d = DuenioTrasLiberar(f)
          /\ marco' = [marco EXCEPT ![f] = [pid |-> d, pag |-> SinPagina, ocupado |-> FALSE]]
  BY <1>30
<1>4. marco[f].ocupado /\ marco[f].pid = r.pid /\ marco[f].pag = r.pag
  <2>1. Inv /\ r.pag \in Nat
    BY <1>2, TamaniosAssumption DEF IndCuentas
  <2>. QED
    BY <1>3, <2>1, PaginaOcupada
<1>5. marco \in [Marcos -> RegistrosAcotados] /\ espacio \in [Archivos -> Nat]
  BY DEF IndCuentas, TypeOK, RegistrosAcotados
<1>6. /\ marco'[f] = [pid |-> d, pag |-> SinPagina, ocupado |-> FALSE]
      /\ \A g \in Marcos : g # f => marco'[g] = marco[g]
  BY <1>3, <1>5
<1>7. \A g \in Marcos : /\ marco[g].ocupado /\ marco[g].pid = marco[f].pid
                        /\ marco[g].pag = marco[f].pag
                        => g = f
  BY <1>4 DEF IndCuentas, Inv, UnFramePorPagina, SinRepetir
<1>8. /\ Paginas(marco', r.pid) = Paginas(marco, r.pid) \ {r.pag}
      /\ r.pag \in Paginas(marco, r.pid)
      /\ \A o : o # r.pid => Paginas(marco', o) = Paginas(marco, o)
      /\ d = Nadie =>
            /\ Cardinality(Libres(marco, f[1])) \in Nat
            /\ Cardinality(Libres(marco', f[1])) = Cardinality(Libres(marco, f[1])) + 1
            /\ \A a : a # f[1] => Libres(marco', a) = Libres(marco, a)
  <2>1. PICK c, m : c = marco' /\ m = marco
    OBVIOUS
  <2>2. /\ m[f].ocupado /\ m[f].pid = r.pid /\ m[f].pag = r.pag
        /\ c[f] = [pid |-> d, pag |-> SinPagina, ocupado |-> FALSE]
        /\ \A g \in Marcos : g # f => c[g] = m[g]
        /\ \A g \in Marcos : /\ m[g].ocupado /\ m[g].pid = m[f].pid
                             /\ m[g].pag = m[f].pag
                             => g = f
    BY <1>4, <1>6, <1>7, <2>1
  <2>3. /\ Paginas(c, m[f].pid) = Paginas(m, m[f].pid) \ {m[f].pag}
        /\ m[f].pag \in Paginas(m, m[f].pid)
        /\ \A o : o # m[f].pid => Paginas(c, o) = Paginas(m, o)
        /\ d = Nadie =>
              /\ Cardinality(Libres(m, f[1])) \in Nat
              /\ Cardinality(Libres(c, f[1])) = Cardinality(Libres(m, f[1])) + 1
              /\ \A a : a # f[1] => Libres(c, a) = Libres(m, a)
    <3>1. Vacia(m, f, d, c)
      BY <2>2 DEF Vacia
    <3>. QED
      BY <3>1, VaciarCuentas
  <2>. QED
    BY <2>1, <2>2, <2>3
<1>9. /\ \A o : PaginasDe(o) = Paginas(marco, o) /\ PaginasDe(o)' = Paginas(marco', o)
      /\ \A a : FramesLibresDelArchivo(a) = Libres(marco, a)
      /\ \A a : FramesLibresDelArchivo(a)' = Libres(marco', a)
  BY DEF PaginasDe, FramesOcupados, Paginas, FramesLibresDelArchivo, Libres
<1>10. Fija' = Fija
  BY <1>2 DEF Fija
<1>11. ASSUME NEW q \in Procesos  PROVE Acuerdo(q)'
  <2>1. CASE q # r.pid
    <3>1. Conocidas(q)' = Conocidas(q) /\ PaginasDe(q)' = PaginasDe(q)
      BY <1>2, <1>8, <1>9, <2>1 DEF EsLiberacion
    <3>. QED
      BY <1>10, <3>1 DEF IndCuentas, Acuerdo
  <2>2. CASE q = r.pid
    <3>1. /\ Conocidas(q)' = Conocidas(q) \ {r.pag}
          /\ PaginasDe(q)' = PaginasDe(q) \ {r.pag}
          /\ r.pag \in PaginasDe(q)
      BY <1>2, <1>8, <1>9, <2>2 DEF EsLiberacion
    <3>2. CASE PaginasDe(q) = Conocidas(q)
      BY <3>1, <3>2 DEF Acuerdo
    <3>3. CASE Fija /\ \E g \in Conocidas(q) : \A h \in PaginasDe(q) : h < g
      <4>1. PICK g \in Conocidas(q) : \A h \in PaginasDe(q) : h < g
        BY <3>3
      <4>2. g # r.pag
        <5>1. r.pag < g /\ r.pag \in Int
          BY <1>2, <3>1, <4>1, TamaniosAssumption
        <5>. QED
          BY <5>1
      <4>3. g \in Conocidas(q)' /\ \A h \in PaginasDe(q)' : h < g
        BY <3>1, <4>1, <4>2
      <4>. QED
        BY <1>10, <3>3, <4>3 DEF Acuerdo
    <3>. QED
      BY <3>2, <3>3 DEF IndCuentas, Acuerdo
  <2>. QED
    BY <2>1, <2>2
<1>12. f[1] \in Archivos
  BY DEF Marcos
<1>13. /\ espacio' \in [Archivos -> Nat] /\ espacio'[f[1]] = espacio[f[1]] + 1
       /\ \A a \in Archivos : a # f[1] => espacio'[a] = espacio[a]
  BY <1>3, <1>5, <1>12
<1>14. d \in Procesos \cup {Nadie} /\ (marcosMax < 0 => d = Nadie) /\ (Fija => d = marco[f].pid)
  <2>1. marco[f].pid \in Procesos
    BY <1>2, <1>4
  <2>2. marcosMax \in Int
    BY DEF IndCuentas, Inv, Tipos
  <2>. QED
    BY <1>3, <2>1, <2>2 DEF DuenioTrasLiberar, Fija
<1>15. marco' \in [Marcos -> RegistrosAcotados]
  <2>1. [pid |-> d, pag |-> SinPagina, ocupado |-> FALSE] \in RegistrosAcotados
    BY <1>14, TamaniosAssumption DEF RegistrosAcotados, SinPagina
  <2>. QED
    BY <1>3, <1>5, <2>1
<1>16. TypeOK'
  BY <1>1, <1>2, <1>13, <1>15, TiposDePaso DEF IndCuentas, TypeOK
<1>17. CuotaFija'
  <2>1. ASSUME Fija  PROVE \A q : FramesDelProceso(q)' = FramesDelProceso(q)
    <3>1. \A g \in Marcos : marco'[g].pid = marco[g].pid
      BY <1>6, <1>14, <2>1
    <3>. QED
      BY <3>1 DEF FramesDelProceso
  <2>. QED
    BY <1>2, <1>10, <2>1 DEF IndCuentas, CuotaFija
<1>18. LibresDeNadie'
  <2>1. ASSUME marcosMax < 0, NEW g \in Marcos, ~marco'[g].ocupado
        PROVE  marco'[g].pid = Nadie
    <3>1. CASE g = f
      BY <1>6, <1>14, <2>1, <3>1
    <3>2. CASE g # f
      BY <1>6, <2>1, <3>2 DEF IndCuentas, LibresDeNadie
    <3>. QED
      BY <3>1, <3>2
  <2>. QED
    BY <1>2, <2>1 DEF LibresDeNadie
<1>19. EspacioContado'
  <2>1. ASSUME marcosMax # 0, marcosMax <= 0, NEW b \in Archivos
        PROVE  espacio'[b] = Cardinality(Libres(marco', b))
    <3>1. \A o \in Archivos : espacio[o] = Cardinality(Libres(marco, o))
      BY <1>9, <2>1 DEF IndCuentas, EspacioContado, EspacioExacto
    <3>2. d = Nadie
      <4>1. marcosMax \in Int
        BY DEF IndCuentas, Inv, Tipos
      <4>. QED
        BY <1>14, <2>1, <4>1
    <3>3. CASE b = f[1]
      BY <1>8, <1>13, <3>1, <3>2, <3>3
    <3>4. CASE b # f[1]
      BY <1>8, <1>13, <3>1, <3>2, <3>4
    <3>. QED
      BY <3>3, <3>4
  <2>. QED
    BY <1>2, <1>9, <2>1 DEF EspacioContado, EspacioExacto
<1>20. NoCae' /\ Inv'
  BY <1>2, LiberarPreserva DEF IndCuentas, NoCae
<1>. QED
  BY <1>2, <1>11, <1>16, <1>17, <1>18, <1>19, <1>20 DEF IndCuentas

-----------------------------------------------------------------------------
\* The death of swamp, the initial state, and every step.

\* Steps that change nothing but caido.
LEMMA IgualCuentas ==
    ASSUME IndCuentas, UNCHANGED <<marcosMax, discos, canal, respuesta, tabla>>,
           caido' \in BOOLEAN, NoCae', Inv'
    PROVE  IndCuentas'
<1>1. /\ marcosMax' = marcosMax /\ marco' = marco /\ espacio' = espacio /\ dato' = dato
      /\ canal' = canal /\ respuesta' = respuesta /\ tabla' = tabla
  BY DEF discos
<1>2. TypeOK'
  BY <1>1 DEF IndCuentas, TypeOK
<1>3. CuotaFija'
  <2>1. \A q : FramesDelProceso(q)' = FramesDelProceso(q)
    BY <1>1 DEF FramesDelProceso
  <2>. QED
    BY <1>1, <2>1 DEF IndCuentas, CuotaFija, Fija
<1>4. LibresDeNadie'
  BY <1>1 DEF IndCuentas, LibresDeNadie
<1>5. EspacioContado'
  <2>1. \A a : FramesLibresDelArchivo(a)' = FramesLibresDelArchivo(a)
    BY <1>1 DEF FramesLibresDelArchivo
  <2>. QED
    BY <1>1, <2>1 DEF IndCuentas, EspacioContado, EspacioExacto
<1>6. CanalVacio' /\ TablaOrdenada'
  BY <1>1 DEF IndCuentas, CanalVacio, TablaOrdenada
<1>7. \A q : EnTabla(q)' = EnTabla(q) /\ Liberaciones(q)' = Liberaciones(q)
  BY <1>1 DEF EnTabla, Liberaciones, EsLiberacion
<1>8. \A q : PorLiberar(q)' = PorLiberar(q)
  BY <1>1, <1>7 DEF PorLiberar
<1>9. LiberacionesOK'
  BY <1>1, <1>7, <1>8 DEF IndCuentas, LiberacionesOK
<1>10. ReferidasOK'
  <2>1. \A i \in DOMAIN canal :
           canal[i].op \in {"TIRAR_A_SWAP", "TRAER_DE_SWAP"} =>
              \/ canal[i].pag \in EnTabla(canal[i].pid)
              \/ \E j \in Liberaciones(canal[i].pid) : i < j /\ canal[j].pag = canal[i].pag
    BY DEF IndCuentas, ReferidasOK
  <2>2. \A i \in DOMAIN canal : /\ EnTabla(canal[i].pid)' = EnTabla(canal[i].pid)
                                /\ Liberaciones(canal[i].pid)' = Liberaciones(canal[i].pid)
    BY <1>1 DEF EnTabla, Liberaciones, EsLiberacion
  <2>. QED
    BY <1>1, <2>1, <2>2 DEF ReferidasOK
<1>11. PedidosCaben'
  BY <1>1 DEF IndCuentas, PedidosCaben, Cabe, PrimeraNueva
<1>12. \A q : Otorgadas(q)' = Otorgadas(q) /\ PaginasDe(q)' = PaginasDe(q)
  BY <1>1 DEF Otorgadas, SeAgregan, Fija, PrimeraNueva, PaginasDe, FramesOcupados
<1>13. \A q : Conocidas(q)' = Conocidas(q)
  BY <1>7, <1>8, <1>12 DEF Conocidas
<1>14. \A q \in Procesos : Acuerdo(q)'
  BY <1>1, <1>12, <1>13 DEF IndCuentas, Acuerdo, Fija
<1>. QED
  BY <1>2, <1>3, <1>4, <1>5, <1>6, <1>9, <1>10, <1>11, <1>14 DEF IndCuentas

\* With dynamic assignment the page of the oldest request is in a frame.
LEMMA PaginaPresente ==
    ASSUME IndCuentas, marcosMax < 0, canal # <<>>, NEW r, r = Head(canal),
           r.op # "RESERVAR_ESPACIO"
    PROVE  FramesDePagina(r.pid, r.pag) # {}
<1>1. /\ r \in PedidosPosibles /\ r = canal[1] /\ 1 \in DOMAIN canal
      /\ DOMAIN canal = 1 .. Len(canal)
  BY PrimerPedido
<1>2. r.pid \in Procesos /\ r.op \in {"TIRAR_A_SWAP", "TRAER_DE_SWAP", "LIBERAR_PAGINA"}
  BY <1>1 DEF PedidosPosibles
<1>3. ~Fija
  <2>1. marcosMax \in Int
    BY DEF IndCuentas, Inv, Tipos
  <2>. QED
    BY <2>1 DEF Fija
<1>4. PaginasDe(r.pid) = Conocidas(r.pid)
  BY <1>2, <1>3 DEF IndCuentas, Acuerdo
<1>5. r.pag \in Conocidas(r.pid)
  <2>1. CASE r.op = "LIBERAR_PAGINA"
    <3>1. 1 \in Liberaciones(r.pid)
      BY <1>1, <2>1 DEF Liberaciones, EsLiberacion
    <3>. QED
      BY <1>1, <3>1 DEF PorLiberar, Conocidas
  <2>2. CASE r.op \in {"TIRAR_A_SWAP", "TRAER_DE_SWAP"}
    <3>1. \/ r.pag \in EnTabla(r.pid)
          \/ \E j \in Liberaciones(r.pid) : canal[j].pag = r.pag
      BY <1>1, <2>2 DEF IndCuentas, ReferidasOK
    <3>. QED
      BY <3>1 DEF PorLiberar, Conocidas
  <2>. QED
    BY <1>2, <2>1, <2>2
<1>6. PICK f \in FramesOcupados(r.pid) : marco[f].pag = r.pag
  BY <1>4, <1>5 DEF PaginasDe
<1>. QED
  BY <1>6 DEF FramesOcupados, FramesDePagina

\* With dynamic assignment a reservation that has space has frames.
LEMMA FramesHay ==
    ASSUME IndCuentas, marcosMax < 0, NEW r, r.pid \in Procesos, r.cant \in Nat
    PROVE  ~FaltanFrames(r)
<1>1. marcosMax \in Int /\ espacio \in [Archivos -> Nat]
  BY DEF IndCuentas, TypeOK, Inv, Tipos
<1>2. ~Fija /\ FramesRequeridos(r.cant) = r.cant
  BY <1>1 DEF Fija, FramesRequeridos
<1>3. \A a \in Archivos : espacio[a] = Cardinality(FramesLibresDelArchivo(a)) /\ espacio[a] \in Nat
  BY <1>1 DEF IndCuentas, EspacioContado, EspacioExacto
<1>4. ASSUME NEW f \in Marcos, EsPrimero(f, FramesDelProceso(r.pid)), HayLugar(f[1], r.cant)
      PROVE  /\ ~(Cardinality(FramesParaCrecer(f[1], r.pid)) < r.cant)
             /\ Asignados(r.pid) # {}
  <2>1. f[1] \in Archivos
    BY DEF Marcos
  <2>2. FramesParaCrecer(f[1], r.pid) = FramesLibresDelArchivo(f[1])
    BY <1>2 DEF FramesParaCrecer
  <2>3. ~(Cardinality(FramesParaCrecer(f[1], r.pid)) < r.cant)
    BY <1>3, <1>4, <2>1, <2>2 DEF HayLugar
  <2>4. f \in FramesDelProceso(r.pid) /\ marco[f].pid = r.pid
    BY <1>4 DEF EsPrimero, FramesDelProceso
  <2>5. marco[f].ocupado
    BY <2>4, NadieAssumption DEF IndCuentas, LibresDeNadie
  <2>6. f \in FramesOcupados(r.pid)
    BY <2>4, <2>5 DEF FramesOcupados
  <2>. QED
    BY <2>3, <2>6, AsignadosOcupados DEF IndCuentas
<1>5. ASSUME NEW a \in Archivos, HayLugar(a, r.cant)
      PROVE  ~(Cardinality(FramesLibresDelArchivo(a)) < r.cant)
  BY <1>3, <1>5 DEF HayLugar
<1>6. ~(r.cant < r.cant)
  OBVIOUS
<1>. QED
  BY <1>2, <1>4, <1>5, <1>6 DEF FaltanFrames

\* swamp dies: never with dynamic assignment.
LEMMA CaerCuentas ==
    ASSUME IndCuentas, Caer
    PROVE  IndCuentas'
<1>0. PICK r : r = Head(canal)
  OBVIOUS
<1>1. /\ canal # <<>> /\ caido' = TRUE
      /\ IF r.op = "RESERVAR_ESPACIO" THEN FaltanFrames(r) ELSE FramesDePagina(r.pid, r.pag) = {}
      /\ UNCHANGED <<marcosMax, discos, canal, respuesta, tabla>>
  BY <1>0 DEF Caer
<1>2. ~(marcosMax < 0)
  <2>1. SUFFICES ASSUME marcosMax < 0  PROVE FALSE
    OBVIOUS
  <2>2. CASE r.op = "RESERVAR_ESPACIO"
    <3>1. r \in PedidosPosibles
      BY <1>0, <1>1, PrimerPedido
    <3>2. r.pid \in Procesos /\ r.cant \in Nat
      BY <2>2, <3>1, TamaniosAssumption DEF PedidosPosibles
    <3>. QED
      BY <1>1, <2>1, <2>2, <3>2, FramesHay
  <2>3. CASE r.op # "RESERVAR_ESPACIO"
    BY <1>0, <1>1, <2>1, <2>3, PaginaPresente
  <2>. QED
    BY <2>2, <2>3
<1>3. NoCae' /\ caido' \in BOOLEAN
  BY <1>1, <1>2 DEF NoCae
<1>4. Inv'
  BY CaerPreserva DEF IndCuentas
<1>. QED
  BY <1>1, <1>3, <1>4, IgualCuentas

\* No page, and every frame free.
LEMMA InitCuentas ==
    ASSUME Init
    PROVE  IndCuentas
<1>1. /\ marco = [f \in Marcos |-> [pid |-> Nadie, pag |-> SinPagina, ocupado |-> FALSE]]
      /\ espacio = [a \in Archivos |-> MarcosPorArchivo]
      /\ canal = <<>> /\ respuesta = Nada /\ tabla = [p \in Procesos |-> <<>>] /\ caido = FALSE
      /\ marcosMax \in Configuraciones /\ dato = [f \in Marcos |-> Ceros]
  BY DEF Init
<1>2. \A f \in Marcos : marco[f].pid = Nadie /\ ~marco[f].ocupado
  BY <1>1
<1>3. Inv
  BY InitInv
<1>4. TypeOK
  <2>1. marco \in [Marcos -> [pid : Procesos \cup {Nadie}, pag : SinPagina .. MaxPagina,
                              ocupado : BOOLEAN]]
    BY <1>1, TamaniosAssumption DEF SinPagina
  <2>2. espacio \in [Archivos -> Nat] /\ dato \in [Marcos -> Datos]
    BY <1>1, TamaniosAssumption, DatosAssumption
  <2>3. canal \in Seq(PedidosPosibles) /\ tabla \in [Procesos -> Seq(0 .. MaxPagina)]
    BY <1>1
  <2>4. respuesta \in Respuestas
    BY <1>1 DEF Respuestas
  <2>. QED
    BY <1>1, <2>1, <2>2, <2>3, <2>4 DEF TypeOK
<1>5. CuotaFija
  <2>1. \A p \in Procesos : FramesDelProceso(p) = {}
    BY <1>2, NadieAssumption DEF FramesDelProceso
  <2>. QED
    BY <2>1 DEF CuotaFija
<1>6. LibresDeNadie
  BY <1>2 DEF LibresDeNadie
<1>7. EspacioContado
  <2>1. ASSUME NEW a \in Archivos
        PROVE  espacio[a] = Cardinality(FramesLibresDelArchivo(a))
    <3>1. PICK s, n : s = [i \in 1 .. MarcosPorArchivo |-> <<a, i>>] /\ n = MarcosPorArchivo
      OBVIOUS
    <3>2. n \in Nat /\ \A i, j \in 1 .. n : s[i] = s[j] => i = j
      BY <3>1, TamaniosAssumption
    <3>3. FramesLibresDelArchivo(a) = Imagen(s, n)
      BY <1>2, <3>1 DEF FramesLibresDelArchivo, Imagen, Marcos
    <3>4. Cardinality(Imagen(s, n)) = n
      BY <3>2, CardImagen
    <3>. QED
      BY <1>1, <3>1, <3>3, <3>4
  <2>. QED
    BY <2>1 DEF EspacioContado, EspacioExacto
<1>8. CanalVacio /\ ReferidasOK
  BY <1>1 DEF CanalVacio, ReferidasOK
<1>9. TablaOrdenada
  BY <1>1 DEF TablaOrdenada, Creciente
<1>10. \A p : Liberaciones(p) = {} /\ PorLiberar(p) = {}
  BY <1>1 DEF Liberaciones, PorLiberar
<1>11. LiberacionesOK
  BY <1>10 DEF LiberacionesOK
<1>12. PedidosCaben
  BY <1>1 DEF PedidosCaben, Cabe, Nada
<1>13. \A p \in Procesos : Acuerdo(p)
  <2>1. ASSUME NEW p \in Procesos  PROVE PaginasDe(p) = {} /\ Conocidas(p) = {}
    <3>1. FramesOcupados(p) = {}
      BY <1>2 DEF FramesOcupados
    <3>2. EnTabla(p) = {}
      BY <1>1 DEF EnTabla, ToSet
    <3>3. Otorgadas(p) = {}
      BY <1>1 DEF Otorgadas, SeAgregan, Nada
    <3>. QED
      BY <1>10, <3>1, <3>2, <3>3 DEF PaginasDe, Conocidas
  <2>. QED
    BY <2>1 DEF Acuerdo
<1>14. NoCae
  BY <1>1 DEF NoCae
<1>. QED
  BY <1>3, <1>4, <1>5, <1>6, <1>7, <1>8, <1>9, <1>11, <1>12, <1>13, <1>14 DEF IndCuentas

\* Every step of memoria and of swamp.
LEMMA NextCuentas ==
    ASSUME IndCuentas, [Next]_vars
    PROVE  IndCuentas'
<1>1. CASE HiloMemoria
  BY <1>1, PedirReservaCuentas, PedirLiberarCuentas, PedirTirarCuentas, PedirTraerCuentas,
     LeerReservaCuentas, LeerPaginaCuentas DEF HiloMemoria
<1>2. CASE HiloSwamp
  BY <1>2, ReservarExistenteCuentas, ReservarNuevoCuentas, RechazarReservaCuentas,
     TirarCuentas, TraerCuentas, LiberarCuentas, CaerCuentas DEF HiloSwamp
<1>3. CASE UNCHANGED vars
  <2>1. UNCHANGED <<marcosMax, discos, canal, respuesta, tabla>> /\ caido' = caido
    BY <1>3 DEF vars
  <2>2. NoCae' /\ caido' \in BOOLEAN
    BY <2>1 DEF IndCuentas, NoCae, TypeOK
  <2>3. Inv'
    BY NextInv DEF IndCuentas
  <2>. QED
    BY <2>1, <2>2, <2>3, IgualCuentas
<1>. QED
  BY <1>1, <1>2, <1>3 DEF Next

-----------------------------------------------------------------------------
\* What the invariant says to swamp and to memoria.

\* The two counts agree: each page swamp has is once in the table of memoria,
\* or once among its releases in the socket, and not in both.
LEMMA CuentasIguales ==
    ASSUME IndCuentas, ~Fija, respuesta.op # "RESERVAR_ESPACIO",
           NEW p \in Procesos, NEW g \in 0 .. MaxPagina
    PROVE  Cardinality(FramesDePagina(p, g))
              = Cardinality({i \in DOMAIN tabla[p] : tabla[p][i] = g})
                + Cardinality({i \in DOMAIN canal : /\ canal[i].op = "LIBERAR_PAGINA"
                                                   /\ canal[i].pid = p
                                                   /\ canal[i].pag = g})
<1>1. PICK F, T, L :
          /\ F = FramesDePagina(p, g)
          /\ T = {i \in DOMAIN tabla[p] : tabla[p][i] = g}
          /\ L = {i \in DOMAIN canal : /\ canal[i].op = "LIBERAR_PAGINA"
                                       /\ canal[i].pid = p
                                       /\ canal[i].pag = g}
  OBVIOUS
<1>2. PaginasDe(p) = EnTabla(p) \cup PorLiberar(p)
  BY DEF IndCuentas, Acuerdo, Conocidas, Otorgadas, SeAgregan
<1>3. EnTabla(p) \cap PorLiberar(p) = {}
  BY DEF IndCuentas, LiberacionesOK
<1>4. g \in Nat
  BY TamaniosAssumption
<1>5. F = {f \in FramesOcupados(p) : marco[f].pag = g}
  BY <1>1, <1>4
  DEF IndCuentas, Inv, FramesOK, FrameOK, FramesDePagina, FramesOcupados, SinPagina
<1>6. Cardinality(F) = IF g \in PaginasDe(p) THEN 1 ELSE 0
  <2>1. \A x, y \in F : x = y
    BY <1>5 DEF IndCuentas, Inv, UnFramePorPagina, SinRepetir, FramesOcupados
  <2>2. F = {} <=> g \notin PaginasDe(p)
    BY <1>5 DEF PaginasDe
  <2>. QED
    BY <2>1, <2>2, UnoOCero
<1>7. Cardinality(T) = IF g \in EnTabla(p) THEN 1 ELSE 0
  <2>1. ASSUME NEW x \in T, NEW y \in T  PROVE x = y
    <3>1. /\ tabla[p] \in Seq(Nat) /\ Creciente(tabla[p])
          /\ DOMAIN tabla[p] = 1 .. Len(tabla[p]) /\ Len(tabla[p]) \in Nat
      BY Tabla, LenProperties
    <3>2. x \in 1 .. Len(tabla[p]) /\ y \in 1 .. Len(tabla[p]) /\ tabla[p][x] = g /\ tabla[p][y] = g
      BY <1>1, <3>1
    <3>3. ~(x < y) /\ ~(y < x)
      <4>1. ~(g < g)
        BY <1>4
      <4>. QED
        BY <3>1, <3>2, <4>1 DEF Creciente
    <3>. QED
      BY <3>1, <3>2, <3>3
  <2>2. T = {} <=> g \notin EnTabla(p)
    BY <1>1 DEF EnTabla, ToSet
  <2>. QED
    BY <2>1, <2>2, UnoOCero
<1>8. Cardinality(L) = IF g \in PorLiberar(p) THEN 1 ELSE 0
  <2>1. L = {i \in Liberaciones(p) : canal[i].pag = g}
    BY <1>1 DEF Liberaciones, EsLiberacion
  <2>2. \A x, y \in L : x = y
    BY <2>1 DEF IndCuentas, LiberacionesOK
  <2>3. L = {} <=> g \notin PorLiberar(p)
    BY <2>1 DEF PorLiberar
  <2>. QED
    BY <2>2, <2>3, UnoOCero
<1>9. Cardinality(F) = Cardinality(T) + Cardinality(L)
  BY <1>2, <1>3, <1>6, <1>7, <1>8
<1>. QED
  BY <1>1, <1>9

\* The invariant of what swamp and memoria count holds in every reachable
\* state, whatever the files, the assignment, the processes and the requests.
THEOREM InvarianteDeCuentas == Spec => []IndCuentas
<1>1. IndCuentas /\ [Next]_vars => IndCuentas'
  BY NextCuentas
<1>. QED
  BY <1>1, InitCuentas, PTL DEF Spec

\* Types: reservar_espacio never leaves espacio_disponible negative, and no
\* page number of swamp, of a request or of a table is above those memoria asked for.
THEOREM TiposDeSwamp == Spec => []TypeOK
<1>1. IndCuentas => TypeOK
  BY DEF IndCuentas
<1>. QED
  BY <1>1, InvarianteDeCuentas, PTL

\* With fixed assignment (marcos_max positive) a process has all its frames, in
\* one file, from its first reservation on: reservar_espacio, case 2, gives them
\* and no release, growth or reservation of another process takes one.
THEOREM CuotaSiempreEntera == Spec => []CuotaFija
<1>1. IndCuentas => CuotaFija
  BY DEF IndCuentas
<1>. QED
  BY <1>1, InvarianteDeCuentas, PTL

\* With dynamic assignment swamp, which numbers new pages after its highest, and
\* memoria, which numbers them after its last, have the same pages; those that
\* memoria released and swamp still has are the ones in the socket.
THEOREM PaginasSiempreCoinciden == Spec => []PaginasCoinciden
<1>1. IndCuentas => PaginasCoinciden
  BY CuentasIguales DEF PaginasCoinciden
<1>. QED
  BY <1>1, InvarianteDeCuentas, PTL

\* With marcos_max negative the space of a file is the number of its frames that
\* reservar_espacio may take.  With 0, the value swamp.config has, it is not.
THEOREM EspacioSiempreExacto ==
  ASSUME 0 \notin Configuraciones
  PROVE  Spec => []EspacioExacto
<1>1. IndCuentas => EspacioExacto
  BY DEF IndCuentas, TypeOK, EspacioContado
<1>. QED
  BY <1>1, InvarianteDeCuentas, PTL

\* With marcos_max negative swamp never runs out of frames it has counted, and
\* never looks for a page it does not have: it does not die.
THEOREM SwampNuncaCae ==
  ASSUME 0 \notin Configuraciones
  PROVE  Spec => []SwampNoCae
<1>1. IndCuentas => SwampNoCae
  <2>1. SUFFICES ASSUME IndCuentas, ~Fija  PROVE ~caido
    BY DEF SwampNoCae
  <2>2. marcosMax \in Int /\ marcosMax # 0
    <3>1. marcosMax \in Configuraciones
      BY <2>1 DEF IndCuentas, TypeOK
    <3>. QED
      BY <3>1, ConfiguracionesAssumption
  <2>3. marcosMax < 0
    BY <2>1, <2>2 DEF Fija
  <2>. QED
    BY <2>1, <2>3 DEF IndCuentas, NoCae
<1>. QED
  BY <1>1, InvarianteDeCuentas, PTL
=============================================================================
