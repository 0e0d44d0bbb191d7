--------------------------- MODULE Paginacion_proofs ---------------------------
(***************************************************************************)
(* The control of memoria's paging layer, for any number of processes,     *)
(* pages and requests in flight and any configuration: every variable      *)
(* stays within its type, and every thread is where its request may take   *)
(* it, with the pages, the frames and the victim it needs there (Control). *)
(* From it, that the TLB with FIFO never outgrows its size, and that       *)
(* CLOCK-M always takes a page of the best class.                          *)
(*                                                                         *)
(* For each action X there is a lemma XHace, which says what it does to    *)
(* the state without EXCEPT, LET or CHOOSE, and a lemma XBase, that Base   *)
(* holds after it.  Paginacion_marcos uses the first kind.                 *)
(***************************************************************************)
EXTENDS Paginacion, Conteo

-----------------------------------------------------------------------------
\* Lists.

\* What list_remove_by_condition leaves: the list, or the list without the first e.
LEMMA QuitarPrimero ==
  ASSUME NEW S, NEW l \in Seq(S), NEW e
  PROVE  /\ RemoveFirst(l, e) \in Seq(S)
         /\ \/ e \notin ToSet(l) /\ RemoveFirst(l, e) = l
            \/ \E m \in 1 .. Len(l) : l[m] = e /\ SinEl(m, l, RemoveFirst(l, e))
<1>1. Len(l) \in Nat /\ DOMAIN l = 1 .. Len(l)
  BY LenProperties
<1>2. CASE \E i \in 1 .. Len(l) : l[i] = e
  <2>. DEFINE I == {i \in 1 .. Len(l) : l[i] = e}
              m == Min(I)
  <2>1. I \subseteq Nat /\ I # {} /\ I \subseteq 1 .. Len(l)
    BY <1>1, <1>2
  <2>2. RemoveFirst(l, e) = RemoveAt(l, m)
    BY <1>2, Zenon DEF RemoveFirst, SelectInSeq
  <2>3. m \in I
    <3>. HIDE DEF I
    <3>. QED
      BY <2>1, MinimoExiste
  <2>4. m \in 1 .. Len(l) /\ l[m] = e
    BY <2>3
  <2>. HIDE DEF m
  <2>5. RemoveAt(l, m) \in Seq(S) /\ SinEl(m, l, RemoveAt(l, m))
    BY <2>4, ContarRemoveAt
  <2>. QED
    BY <2>2, <2>4, <2>5
<1>3. CASE ~\E i \in 1 .. Len(l) : l[i] = e
  <2>1. RemoveFirst(l, e) = l
    BY <1>3, Zenon DEF RemoveFirst
  <2>2. e \notin ToSet(l)
    BY <1>1, <1>3 DEF ToSet
  <2>. QED
    BY <2>1, <2>2
<1>. QED
  BY <1>2, <1>3

\* S can be listed from the least to the greatest.
SeOrdena(S, clave) ==
    \E s \in [1 .. Cardinality(S) -> S] :
        /\ IsInjective(s)
        /\ \A i, j \in 1 .. Cardinality(S) : i < j => clave[s[i]] <= clave[s[j]]

\* Any finite set can: the least goes before the rest in order.
LEMMA OrdenExiste ==
  ASSUME NEW S, IsFiniteSet(S), NEW clave, \A x \in S : clave[x] \in Nat
  PROVE  SeOrdena(S, clave)
<1>. DEFINE Malos == {n \in Nat : \E T \in SUBSET S : Cardinality(T) = n /\ ~SeOrdena(T, clave)}
<1>1. SUFFICES ASSUME ~SeOrdena(S, clave)  PROVE FALSE
  OBVIOUS
<1>2. Malos \subseteq Nat /\ Malos # {}
  <2>1. Cardinality(S) \in Nat
    BY FS_CardinalityType
  <2>. QED
    BY <1>1, <2>1
<1>. DEFINE n == Min(Malos)
<1>3. n \in Malos /\ \A m \in Malos : n <= m
  <2>. HIDE DEF Malos
  <2>. QED
    BY <1>2, MinimoExiste
<1>. HIDE DEF n
<1>4. PICK T \in SUBSET S : Cardinality(T) = n /\ ~SeOrdena(T, clave)
  BY <1>3
<1>5. n \in Nat /\ IsFiniteSet(T)
  BY <1>2, <1>3, FS_Subset
<1>6. CASE T = {}
  <2>. DEFINE s == [i \in 1 .. 0 |-> i]
  <2>1. Cardinality(T) = 0 /\ 1 .. 0 = {}
    BY <1>6, FS_EmptySet
  <2>2. s \in [1 .. Cardinality(T) -> T] /\ IsInjective(s)
    BY <1>6, <2>1 DEF IsInjective
  <2>3. \A i, j \in 1 .. Cardinality(T) : i < j => clave[s[i]] <= clave[s[j]]
    BY <2>1
  <2>4. SeOrdena(T, clave)
    <3>. HIDE DEF s
    <3>. QED
      BY <2>2, <2>3 DEF SeOrdena
  <2>. QED
    BY <1>4, <2>4
<1>7. CASE T # {}
  <2>. DEFINE Cs == {clave[x] : x \in T}
  <2>1. Cs \subseteq Nat /\ Cs # {}
    BY <1>7
  <2>2. Min(Cs) \in Cs /\ \A c \in Cs : Min(Cs) <= c
    <3>. HIDE DEF Cs
    <3>. QED
      BY <2>1, MinimoExiste
  <2>3. PICK m \in T : clave[m] = Min(Cs)
    BY <2>2
  <2>4. \A x \in T : clave[m] <= clave[x]
    BY <2>2, <2>3
  <2>5. Cardinality(T \ {m}) = n - 1 /\ n # 0
    BY <1>4, <1>5, FS_RemoveElement, FS_EmptySet
  <2>6. n - 1 \in Nat /\ ~(n <= n - 1)
    BY <1>5, <2>5
  <2>7. n - 1 \notin Malos
    BY <1>3, <2>6
  <2>8. SeOrdena(T \ {m}, clave)
    BY <2>5, <2>6, <2>7
  <2>9. PICK r \in [1 .. n - 1 -> T \ {m}] :
          /\ IsInjective(r)
          /\ \A i, j \in 1 .. n - 1 : i < j => clave[r[i]] <= clave[r[j]]
    BY <2>5, <2>8 DEF SeOrdena
  <2>. DEFINE s == [i \in 1 .. n |-> IF i = 1 THEN m ELSE r[i - 1]]
  <2>10. ASSUME NEW i \in 1 .. n, i # 1
         PROVE  i - 1 \in 1 .. n - 1 /\ s[i] = r[i - 1] /\ r[i - 1] \in T \ {m}
    <3>1. i - 1 \in 1 .. n - 1
      BY <1>5, <2>10
    <3>. QED
      BY <2>9, <2>10, <3>1
  <2>11. s[1] = m /\ DOMAIN s = 1 .. n
    BY <1>5, <2>5
  <2>12. s \in [1 .. n -> T]
    BY <2>10
  <2>13. IsInjective(s)
    <3>1. SUFFICES ASSUME NEW i \in 1 .. n, NEW j \in 1 .. n, s[i] = s[j]  PROVE i = j
      BY <2>11, Zenon DEF IsInjective
    <3>2. CASE i = 1 \/ j = 1
      <4>. HIDE DEF s
      <4>. QED
        BY <2>10, <2>11, <3>1, <3>2
    <3>3. CASE i # 1 /\ j # 1
      <4>1. r[i - 1] = r[j - 1] /\ i - 1 \in 1 .. n - 1 /\ j - 1 \in 1 .. n - 1
        BY <2>10, <3>1, <3>3
      <4>2. i - 1 = j - 1
        BY <2>9, <4>1 DEF IsInjective
      <4>. QED
        BY <1>5, <4>2
    <3>. QED
      BY <3>2, <3>3
  <2>14. ASSUME NEW i \in 1 .. n, NEW j \in 1 .. n, i < j  PROVE clave[s[i]] <= clave[s[j]]
    <3>1. j # 1 /\ s[j] = r[j - 1] /\ r[j - 1] \in T /\ j - 1 \in 1 .. n - 1
      BY <1>5, <2>10, <2>14
    <3>2. CASE i = 1
      BY <2>4, <2>11, <3>1, <3>2
    <3>3. CASE i # 1
      <4>1. s[i] = r[i - 1] /\ i - 1 \in 1 .. n - 1 /\ i - 1 < j - 1
        BY <1>5, <2>10, <2>14, <3>3
      <4>. QED
        BY <2>9, <3>1, <4>1
    <3>. QED
      BY <3>2, <3>3
  <2>15. SeOrdena(T, clave)
    <3>. HIDE DEF s
    <3>. QED
      BY <1>4, <2>12, <2>13, <2>14 DEF SeOrdena
  <2>. QED
    BY <1>4, <2>15
<1>. QED
  BY <1>6, <1>7

\* What EnOrden gives: each element of S once, from the least to the greatest.
LEMMA EnOrdenTipo ==
  ASSUME NEW S, IsFiniteSet(S), NEW clave, \A x \in S : clave[x] \in Nat
  PROVE  /\ Cardinality(S) \in Nat
         /\ EnOrden(S, clave) \in [1 .. Cardinality(S) -> S]
         /\ EnOrden(S, clave) \in Seq(S) /\ Len(EnOrden(S, clave)) = Cardinality(S)
         /\ IsInjective(EnOrden(S, clave))
         /\ \A i, j \in 1 .. Cardinality(S) :
               i < j => clave[EnOrden(S, clave)[i]] <= clave[EnOrden(S, clave)[j]]
<1>. DEFINE n == Cardinality(S)
            s == EnOrden(S, clave)
<1>1. n \in Nat
  BY FS_CardinalityType
<1>2. /\ s \in [1 .. n -> S]
      /\ IsInjective(s)
      /\ \A i, j \in 1 .. n : i < j => clave[s[i]] <= clave[s[j]]
  BY OrdenExiste DEF SeOrdena, EnOrden
<1>. HIDE DEF s, n
<1>3. s \in Seq(S) /\ Len(s) = n
  <2>1. s \in Seq(S)
    BY <1>1, <1>2, SeqDef
  <2>2. Len(s) \in Nat /\ 1 .. Len(s) = 1 .. n
    BY <1>2, <2>1, LenProperties
  <2>. QED
    BY <1>1, <2>1, <2>2
<1>. QED
  BY <1>1, <1>2, <1>3 DEF s, n

\* And none is left out.
LEMMA EnOrdenTodos ==
  ASSUME NEW S, IsFiniteSet(S), NEW clave, \A x \in S : clave[x] \in Nat
  PROVE  \A x \in S : \E i \in 1 .. Cardinality(S) : EnOrden(S, clave)[i] = x
<1>. DEFINE n == Cardinality(S)
            s == EnOrden(S, clave)
<1>1. n \in Nat /\ s \in [1 .. n -> S] /\ IsInjective(s)
  BY EnOrdenTipo
<1>. HIDE DEF s
<1>2. s \in Injection(1 .. n, S)
  BY <1>1 DEF Injection
<1>3. IsFiniteSet(1 .. n) /\ Cardinality(1 .. n) = n
  <2>. HIDE DEF n
  <2>. QED
    BY <1>1, FS_Interval
<1>4. s \in Surjection(1 .. n, S)
  BY <1>2, <1>3, FS_Injection
<1>. QED
  BY <1>4 DEF s, Surjection
-----------------------------------------------------------------------------
\* The control of a thread, its table and its victim.

Accesos == {"leer", "escribir", "guardar", "cabecera", "liberar"}
Altas == {"memalloc", "volver"}
PcReposo == {"libre", "suspender", "tirar"}
PcAlta == {"reservar", "tomar", "pedir", "crear", "elegir", "expulsar", "soltar"}
PcAcceso == {"buscar", "falta", "elegir", "expulsar", "soltar", "traer", "actualizar",
             "reemplazar", "copiar", "quitar"}
PcConMarco == {"crear", "traer", "actualizar", "reemplazar"}

TipoHilo ==
    [pc : {"libre", "reservar", "tomar", "pedir", "crear", "elegir", "expulsar", "soltar",
           "buscar", "falta", "traer", "actualizar", "reemplazar", "copiar", "quitar",
           "suspender", "tirar"},
     op : Llamadas \union {"nada", "volver"},
     pags : Seq(Ids), frs : Seq(Marcos), faltan : Nat,
     fr : Marcos \union {SinMarco}, vic : Claves \union {Nadie}]
TipoPagina == [frame : Marcos \union {SinMarco}, presencia : BOOLEAN,
               modificado : BOOLEAN, lock : BOOLEAN, uso : BOOLEAN]

\* A thread that serves nothing, or suspends its process.
ReposoOK(p) ==
    /\ hilo[p].op \in Accesos \union Altas \union {"nada"}
    /\ hilo[p].op = "nada" <=> hilo[p].pc \in PcReposo
    /\ hilo[p].pc = "libre" => hilo[p] = Libre
    /\ hilo[p].pc \in {"suspender", "tirar"} =>
          /\ p \in suspendidos /\ tabla[p] # <<>>
          /\ hilo[p].frs = <<>> /\ hilo[p].faltan <= Len(tabla[p])
    /\ hilo[p].pc = "tirar" => hilo[p].faltan > 0
    /\ p \in suspendidos => hilo[p].op = "nada"

\* One that asks for frames, to add pages or to come back from a suspension.
AltaOK(p) ==
    hilo[p].op \in Altas =>
        /\ hilo[p].pc \in PcAlta
        /\ hilo[p].faltan > 0
        /\ hilo[p].pc # "tomar" => hilo[p].frs = <<>>
        /\ hilo[p].op = "memalloc" => PrimeraNueva(p) + hilo[p].faltan <= conf.tope[p]
        /\ hilo[p].op = "volver" => Fija /\ tabla[p] # <<>>
        /\ hilo[p].pc \in {"reservar", "tomar"} => Fija /\ tabla[p] = <<>>
        /\ hilo[p].pc = "tomar" => /\ hilo[p].frs \in [1 .. conf.marcos -> Marcos]
                                   /\ IsInjective(hilo[p].frs)

\* One that looks for the pages of a request: pags are wanted, frs have been found.
AccesoOK(p) ==
    hilo[p].op \in Accesos =>
        /\ hilo[p].pc \in PcAcceso
        /\ Len(hilo[p].pags) \in 1 .. 2
        /\ hilo[p].op \in {"leer", "escribir", "liberar"} => Len(hilo[p].pags) = 1
        /\ \A i \in DOMAIN hilo[p].pags : EnTabla(<<p, hilo[p].pags[i]>>)
        /\ \A i, j \in DOMAIN hilo[p].pags : hilo[p].pags[i] = hilo[p].pags[j] => i = j
        /\ hilo[p].pc \notin {"copiar", "quitar"} => Len(hilo[p].frs) < Len(hilo[p].pags)
        /\ hilo[p].pc \in {"copiar", "quitar"} => Len(hilo[p].frs) = Len(hilo[p].pags)
        /\ hilo[p].pc = "quitar" => hilo[p].op = "liberar"
        /\ hilo[p].pc = "copiar" => hilo[p].op # "liberar"

\* The frame and the victim a thread holds.
TenenciaOK(p) ==
    /\ hilo[p].fr \in Marcos <=> hilo[p].pc \in PcConMarco
    /\ hilo[p].pc \in {"expulsar", "soltar"} =>
          /\ hilo[p].vic \in Claves /\ pag[hilo[p].vic].frame \in Marcos
          /\ Fija => hilo[p].vic[1] = p /\ EnTabla(hilo[p].vic)

HilosOK == \A p \in Procesos : ReposoOK(p) /\ AltaOK(p) /\ AccesoOK(p) /\ TenenciaOK(p)

\* Ids grow along a table, without gaps until a page is given back; a page in a table, or
\* present, has or had a frame; LRU knows the use of every page.
TablasOK ==
    /\ \A p \in Procesos : \A i, j \in DOMAIN tabla[p] : i < j => tabla[p][i] < tabla[p][j]
    /\ \A p \in Procesos \ achicados : \A i \in DOMAIN tabla[p] : tabla[p][i] = i - 1
    /\ \A k \in Claves : pag[k].presencia \/ EnTabla(k) => pag[k].frame \in Marcos
    /\ conf.mmu = "LRU" => PaginasEnTablas \subseteq ToSet(usos)

Base == TypeOK /\ TablasOK /\ HilosOK

HiloOK(p) == ReposoOK(p) /\ AltaOK(p) /\ AccesoOK(p) /\ TenenciaOK(p)

\* The thread of p is left like this.
Deja(p, pc, op, pags, frs, faltan, fr, vic) ==
    hilo' = [hilo EXCEPT ![p] = [pc |-> pc, op |-> op, pags |-> pags, frs |-> frs,
                                 faltan |-> faltan, fr |-> fr, vic |-> vic]]

\* A step of p leaves the threads and the tables of the rest alone.
SoloDe(p) ==
    /\ conf' = conf
    /\ \A q \in Procesos \ {p} :
          /\ hilo'[q] = hilo[q] /\ tabla'[q] = tabla[q]
          /\ q \in suspendidos' <=> q \in suspendidos

\* The page of the next id.
Nueva(p) == <<p, PrimeraNueva(p)>>

-----------------------------------------------------------------------------
\* Types.

\* The configuration is one of the allowed.
LEMMA ConfTipo ==
  ASSUME TypeOK
  PROVE  /\ conf.tipo \in {"FIJA", "DINAMICA"} /\ conf.mmu \in {"LRU", "CLOCK-M"}
         /\ conf.tlb \in {"LRU", "FIFO"} /\ conf.frames \in Nat \ {0}
         /\ conf.entradas \in Nat /\ conf.marcos \in Nat /\ conf.hilos \in Nat
         /\ conf.tope \in [Procesos -> 0 .. MaxPaginas] /\ MaxPaginas \in Nat
         /\ conf.llamadas \subseteq Llamadas /\ MaxPaginas # 0
BY ConfiguracionesAssumption, PaginasAssumption DEF TypeOK

\* Frames are numbers, and no frame is not one.
LEMMA MarcosTipo ==
  ASSUME TypeOK
  PROVE  Marcos \subseteq Nat /\ SinMarco \notin Marcos /\ IsFiniteSet(Marcos) /\ Marcos # {}
<1>1. conf.frames \in Nat /\ conf.frames # 0
  BY ConfTipo
<1>2. IsFiniteSet(0 .. conf.frames - 1)
  BY <1>1, FS_Interval
<1>3. Marcos = 0 .. conf.frames - 1
  BY DEF Marcos
<1>4. 0 \in Marcos /\ -1 \notin Marcos /\ Marcos \subseteq Nat
  BY <1>1, <1>3
<1>. QED
  BY <1>2, <1>3, <1>4 DEF SinMarco

\* The thread of each process is a record of its type.
LEMMA HiloTipo ==
  ASSUME TypeOK
  PROVE  /\ hilo \in [Procesos -> TipoHilo]
         /\ \A p \in Procesos : hilo[p] \in TipoHilo
BY DEF TypeOK, TipoHilo

\* What a step that writes the thread of p, and no other, makes of it.
LEMMA DejaHace ==
  ASSUME TypeOK, NEW p \in Procesos,
         NEW pc, NEW op, NEW pags, NEW frs, NEW faltan, NEW fr, NEW vic,
         Deja(p, pc, op, pags, frs, faltan, fr, vic)
  PROVE  /\ hilo'[p].pc = pc /\ hilo'[p].op = op /\ hilo'[p].pags = pags /\ hilo'[p].frs = frs
         /\ hilo'[p].faltan = faltan /\ hilo'[p].fr = fr /\ hilo'[p].vic = vic
         /\ \A q \in Procesos \ {p} : hilo'[q] = hilo[q]
         /\ [pc |-> pc, op |-> op, pags |-> pags, frs |-> frs, faltan |-> faltan, fr |-> fr,
             vic |-> vic] \in TipoHilo => hilo' \in [Procesos -> TipoHilo]
<1>. DEFINE h == [pc |-> pc, op |-> op, pags |-> pags, frs |-> frs, faltan |-> faltan, fr |-> fr,
                  vic |-> vic]
<1>1. /\ h.pc = pc /\ h.op = op /\ h.pags = pags /\ h.frs = frs /\ h.faltan = faltan /\ h.fr = fr
      /\ h.vic = vic
  OBVIOUS
<1>2. hilo' = [hilo EXCEPT ![p] = h] /\ hilo \in [Procesos -> TipoHilo]
  BY HiloTipo DEF Deja
<1>. HIDE DEF h
<1>3. hilo'[p] = h /\ \A q \in Procesos \ {p} : hilo'[q] = hilo[q]
  BY <1>2
<1>4. h \in TipoHilo => hilo' \in [Procesos -> TipoHilo]
  BY <1>2
<1>. QED
  BY <1>1, <1>3, <1>4 DEF h

\* Every thread but that of p keeps what was true of it.
LEMMA OtroHilo ==
  ASSUME Base, NEW p \in Procesos, SoloDe(p), NEW q \in Procesos \ {p},
         \A k \in Claves : pag[k].frame \in Marcos => pag'[k].frame \in Marcos
  PROVE  HiloOK(q)'
<1>1. hilo'[q] = hilo[q] /\ tabla'[q] = tabla[q] /\ conf' = conf
      /\ (q \in suspendidos' <=> q \in suspendidos)
  BY DEF SoloDe
<1>2. ReposoOK(q) /\ AltaOK(q) /\ AccesoOK(q) /\ TenenciaOK(q)
  BY DEF Base, HilosOK
<1>3. Marcos' = Marcos /\ Fija' = Fija /\ PrimeraNueva(q)' = PrimeraNueva(q)
  BY <1>1 DEF Marcos, Fija, PrimeraNueva
<1>4. \A k : k[1] = q => (EnTabla(k)' <=> EnTabla(k))
  BY <1>1 DEF EnTabla
<1>5. ReposoOK(q)'
  BY <1>1, <1>2 DEF ReposoOK
<1>6. AltaOK(q)'
  BY <1>1, <1>2, <1>3 DEF AltaOK
<1>7. AccesoOK(q)'
  <2>1. \A i : EnTabla(<<q, i>>)' <=> EnTabla(<<q, i>>)
    BY <1>1 DEF EnTabla
  <2>. QED
    BY <1>1, <1>2, <2>1 DEF AccesoOK
<1>8. TenenciaOK(q)'
  BY <1>1, <1>2, <1>3, <1>4 DEF TenenciaOK
<1>. QED
  BY <1>5, <1>6, <1>7, <1>8 DEF HiloOK

\* So a step of p keeps Base if the types, the tables and the thread of p are right after it.
LEMMA BaseTras ==
  ASSUME Base, NEW p \in Procesos, SoloDe(p), TypeOK', TablasOK', HiloOK(p)',
         \A k \in Claves : pag[k].frame \in Marcos => pag'[k].frame \in Marcos
  PROVE  Base'
<1>1. \A q \in Procesos : HiloOK(q)'
  BY OtroHilo
<1>2. HilosOK'
  BY <1>1 DEF HilosOK, HiloOK
<1>. QED
  BY <1>2 DEF Base

\* A step that touches no table keeps the tables right if no page comes to memory or loses
\* its frame, and no use is forgotten.
LEMMA TablasQuietas ==
  ASSUME TablasOK, conf' = conf, tabla' = tabla, achicados' = achicados,
         ToSet(usos) \subseteq ToSet(usos'),
         \A k \in Claves : /\ pag'[k].presencia => pag[k].presencia
                           /\ pag[k].frame \in Marcos => pag'[k].frame \in Marcos
  PROVE  TablasOK'
<1>1. Marcos' = Marcos
  BY DEF Marcos
<1>2. \A k : EnTabla(k)' <=> EnTabla(k)
  BY DEF EnTabla
<1>3. PaginasEnTablas' = PaginasEnTablas
  BY <1>2 DEF PaginasEnTablas
<1>. QED
  BY <1>1, <1>2, <1>3 DEF TablasOK

\* Ids are numbers below the next of the table.
LEMMA TablaTipo ==
  ASSUME Base, NEW p \in Procesos
  PROVE  /\ tabla[p] \in Seq(Ids) /\ Len(tabla[p]) \in Nat /\ DOMAIN tabla[p] = 1 .. Len(tabla[p])
         /\ Ids \subseteq Nat /\ PrimeraNueva(p) \in Nat
         /\ \A i \in DOMAIN tabla[p] : tabla[p][i] \in Ids /\ tabla[p][i] < PrimeraNueva(p)
         /\ \A i : EnTabla(<<p, i>>) => i \in Ids /\ i < PrimeraNueva(p)
         /\ tabla[p] = <<>> <=> Len(tabla[p]) = 0
<1>1. tabla[p] \in Seq(Ids)
  BY DEF Base, TypeOK
<1>2. Len(tabla[p]) \in Nat /\ DOMAIN tabla[p] = 1 .. Len(tabla[p])
      /\ \A i \in DOMAIN tabla[p] : tabla[p][i] \in Ids
  BY <1>1, LenProperties, ElementOfSeq
<1>3. Ids \subseteq Nat
  BY PaginasAssumption DEF Ids
<1>4. tabla[p] = <<>> <=> Len(tabla[p]) = 0
  BY <1>1, EmptySeq
<1>5. CASE tabla[p] = <<>>
  BY <1>1, <1>2, <1>3, <1>4, <1>5 DEF PrimeraNueva, EnTabla, ToSet
<1>6. CASE tabla[p] # <<>>
  <2>. DEFINE n == Len(tabla[p])
  <2>1. n \in 1 .. n /\ Last(tabla[p]) = tabla[p][n]
    BY <1>2, <1>4, <1>6 DEF Last
  <2>2. \A i \in 1 .. n : tabla[p][i] <= tabla[p][n]
    <3>1. \A i, j \in 1 .. n : i < j => tabla[p][i] < tabla[p][j]
      BY <1>2 DEF Base, TablasOK
    <3>2. \A i \in 1 .. n : tabla[p][i] \in Nat
      BY <1>2, <1>3
    <3>. QED
      BY <2>1, <3>1, <3>2
  <2>3. PrimeraNueva(p) = tabla[p][n] + 1
    BY <1>6, <2>1 DEF PrimeraNueva
  <2>4. \A i \in 1 .. n : tabla[p][i] \in Nat
    BY <1>2, <1>3
  <2>5. PrimeraNueva(p) \in Nat /\ \A i \in 1 .. n : tabla[p][i] < PrimeraNueva(p)
    <3>. HIDE DEF n
    <3>1. tabla[p][n] \in Nat
      BY <2>1, <2>4
    <3>. QED
      BY <2>2, <2>3, <2>4, <3>1
  <2>6. ASSUME NEW i, EnTabla(<<p, i>>)  PROVE \E j \in 1 .. n : tabla[p][j] = i
    BY <1>2, <2>6 DEF EnTabla, ToSet
  <2>. QED
    BY <1>1, <1>2, <1>3, <1>4, <2>4, <2>5, <2>6
<1>. QED
  BY <1>5, <1>6

\* Usar forgets no page.
LEMMA UsarTipo ==
  ASSUME TypeOK, NEW k \in Claves
  PROVE  /\ Usar(k) \in Seq(Claves)
         /\ ToSet(usos) \subseteq ToSet(Usar(k))
         /\ conf.mmu = "LRU" => k \in ToSet(Usar(k))
<1>1. usos \in Seq(Claves)
  BY DEF TypeOK
<1>. DEFINE r == RemoveFirst(usos, k)
<1>2. r \in Seq(Claves) /\ (ToSet(usos) \subseteq ToSet(r) \union {k})
  <2>1. /\ r \in Seq(Claves)
        /\ \/ k \notin ToSet(usos) /\ r = usos
           \/ \E m \in 1 .. Len(usos) : usos[m] = k /\ SinEl(m, usos, r)
    BY <1>1, QuitarPrimero
  <2>. HIDE DEF r
  <2>2. ASSUME NEW m \in 1 .. Len(usos), usos[m] = k, SinEl(m, usos, r)
        PROVE  ToSet(usos) = ToSet(r) \union {usos[m]}
    BY <1>1, <2>1, <2>2, MiembrosSinEl
  <2>. QED
    BY <2>1, <2>2
<1>. HIDE DEF r
<1>3. Append(r, k) \in Seq(Claves) /\ ToSet(Append(r, k)) = ToSet(r) \union {k}
  BY <1>2, AppendProperties, MiembrosAppend
<1>. QED
  BY <1>1, <1>2, <1>3 DEF Usar, r

TipoMarco == [ocupado : BOOLEAN, pid : Procesos \union {Nadie}]
TipoEntrada == [pid : Procesos, pag : Ids, frame : Marcos]
Causas == {"no", "sinVictima", "sinPagina", "tlbVacia", "sinTabla"}

\* The types after a step that does not touch the configuration, one by one.
LEMMA TiposTras ==
  ASSUME TypeOK, conf' = conf,
         marco' \in [Marcos -> TipoMarco], mtxFrames' \in Procesos \union {Nadie},
         tabla' \in [Procesos -> Seq(Ids)], pag' \in [Claves -> TipoPagina],
         usos' \in Seq(Claves), posClock' \in Nat, ram' \in [Marcos -> Claves \union {Nadie}],
         enSwap' \in [Claves -> BOOLEAN], tlb' \in Seq(TipoEntrada),
         hilo' \in [Procesos -> TipoHilo], suspendidos' \subseteq Procesos, caido' \in Causas,
         manchados' \subseteq Marcos, robados' \subseteq Procesos, achicados' \subseteq Procesos
  PROVE  TypeOK'
<1>1. Marcos' = Marcos
  BY DEF Marcos
<1>. QED
  BY <1>1 DEF TypeOK, TipoMarco, TipoPagina, TipoEntrada, TipoHilo, Causas

\* The same, of the state.
LEMMA Tipos ==
  ASSUME TypeOK
  PROVE  /\ marco \in [Marcos -> TipoMarco] /\ mtxFrames \in Procesos \union {Nadie}
         /\ tabla \in [Procesos -> Seq(Ids)] /\ pag \in [Claves -> TipoPagina]
         /\ usos \in Seq(Claves) /\ posClock \in Nat /\ ram \in [Marcos -> Claves \union {Nadie}]
         /\ enSwap \in [Claves -> BOOLEAN] /\ tlb \in Seq(TipoEntrada)
         /\ hilo \in [Procesos -> TipoHilo] /\ suspendidos \subseteq Procesos
         /\ caido \in Causas
         /\ manchados \subseteq Marcos /\ robados \subseteq Procesos
         /\ achicados \subseteq Procesos
BY DEF TypeOK, TipoMarco, TipoPagina, TipoEntrada, TipoHilo, Causas

\* A step that writes threads, locks and what killed memoria, and no page or frame.
LEMMA SoloHilo ==
  ASSUME Base, NEW p \in Procesos, SoloDe(p),
         UNCHANGED <<marco, tablas, posClock, datos, tlb, historia>>,
         hilo' \in [Procesos -> TipoHilo], mtxFrames' \in Procesos \union {Nadie},
         suspendidos' \subseteq Procesos, caido' \in Causas, HiloOK(p)'
  PROVE  Base'
<1>1. /\ conf' = conf /\ marco' = marco /\ tabla' = tabla /\ pag' = pag /\ usos' = usos
      /\ posClock' = posClock /\ ram' = ram /\ enSwap' = enSwap /\ tlb' = tlb
      /\ manchados' = manchados /\ robados' = robados /\ achicados' = achicados
  BY DEF SoloDe, tablas, datos, historia
<1>2. TypeOK /\ TablasOK
  BY DEF Base
<1>3. TypeOK'
  BY <1>1, <1>2, Tipos, TiposTras
<1>4. TablasOK'
  BY <1>1, <1>2, TablasQuietas
<1>. QED
  BY <1>1, <1>3, <1>4, BaseTras

\* The thread of a process that asks for nothing can take any request the kernel sends.
LEMMA PuedePedirHace ==
  ASSUME Base, NEW p \in Procesos, NEW op, PuedePedir(p, op)
  PROVE  /\ hilo[p] = Libre /\ p \notin suspendidos /\ op \in conf.llamadas
         /\ op \in Llamadas /\ caido = "no"
<1>1. hilo[p].pc = "libre" /\ ReposoOK(p) /\ conf.llamadas \subseteq Llamadas
  BY ConfTipo DEF PuedePedir, En, Base, HilosOK
<1>. QED
  BY <1>1 DEF PuedePedir, En, ReposoOK

\* Without a request there is no frame, no page and no victim.
LEMMA LibreTipo ==
  ASSUME TypeOK
  PROVE  /\ Libre \in TipoHilo
         /\ Libre = [pc |-> "libre", op |-> "nada", pags |-> <<>>, frs |-> <<>>,
                     faltan |-> 0, fr |-> SinMarco, vic |-> Nadie]
<1>1. <<>> \in Seq(Ids) /\ <<>> \in Seq(Marcos)
  BY EmptySeq
<1>. QED
  BY <1>1 DEF Libre, TipoHilo

\* A thread that ends serves nothing.
LEMMA TerminarHace ==
  ASSUME Base, NEW p \in Procesos, Terminar(p)
  PROVE  /\ hilo' \in [Procesos -> TipoHilo] /\ hilo'[p] = Libre
         /\ hilo'[p].pc = "libre" /\ hilo'[p].op = "nada" /\ hilo'[p].pags = <<>>
         /\ hilo'[p].frs = <<>> /\ hilo'[p].fr = SinMarco
         /\ \A q \in Procesos \ {p} : hilo'[q] = hilo[q]
<1>1. TypeOK /\ Libre \in TipoHilo /\ hilo \in [Procesos -> TipoHilo]
  BY LibreTipo, HiloTipo DEF Base
<1>2. hilo' = [hilo EXCEPT ![p] = Libre]
  BY DEF Terminar
<1>3. hilo' \in [Procesos -> TipoHilo] /\ hilo'[p] = Libre
      /\ \A q \in Procesos \ {p} : hilo'[q] = hilo[q]
  BY <1>1, <1>2
<1>. QED
  BY <1>3 DEF Libre

\* And nothing can be wrong with it.
LEMMA LibreOK ==
  ASSUME TypeOK, conf' = conf, NEW p \in Procesos, hilo'[p] = Libre
  PROVE  HiloOK(p)'
<1>1. /\ hilo'[p].pc = "libre" /\ hilo'[p].op = "nada" /\ hilo'[p].fr = SinMarco
  BY DEF Libre
<1>2. SinMarco \notin Marcos'
  BY MarcosTipo DEF Marcos
<1>3. ReposoOK(p)'
  BY <1>1 DEF ReposoOK, PcReposo, Accesos, Altas, Libre
<1>4. AltaOK(p)' /\ AccesoOK(p)'
  BY <1>1 DEF AltaOK, AccesoOK, Accesos, Altas
<1>5. TenenciaOK(p)'
  BY <1>1, <1>2 DEF TenenciaOK, PcConMarco
<1>. QED
  BY <1>3, <1>4, <1>5 DEF HiloOK

\* A step that asks for pages that follow those there are.
LEMMA PedirBase ==
  ASSUME Base, NEW p \in Procesos, NEW n,
         MemallocNuevo(p, n) \/ MemallocCrecer(p, n)
  PROVE  Base'
<1>. DEFINE pc == IF tabla[p] = <<>> /\ Fija THEN "reservar" ELSE "pedir"
<1>1. /\ hilo[p] = Libre /\ p \notin suspendidos /\ tabla[p] \in Seq(Ids)
      /\ PrimeraNueva(p) \in Nat
  BY PuedePedirHace, TablaTipo DEF MemallocNuevo, MemallocCrecer
<1>2. /\ n > 0 /\ n \in Nat /\ PrimeraNueva(p) + n <= conf.tope[p]
  <2>1. conf.tope[p] \in Nat
    BY ConfTipo DEF Base
  <2>2. CASE MemallocNuevo(p, n)
    BY <2>1, <2>2 DEF MemallocNuevo, PrimeraNueva
  <2>3. CASE MemallocCrecer(p, n)
    BY <1>1, <2>1, <2>3 DEF MemallocCrecer
  <2>. QED
    BY <2>2, <2>3
<1>3. Deja(p, pc, "memalloc", <<>>, <<>>, n, SinMarco, Nadie)
  BY DEF MemallocNuevo, MemallocCrecer, Deja, Libre
<1>4. /\ UNCHANGED <<marco, tablas, posClock, datos, tlb, historia>>
      /\ conf' = conf /\ suspendidos' = suspendidos /\ caido' = caido /\ mtxFrames' = mtxFrames
      /\ tabla' = tabla
  BY DEF MemallocNuevo, MemallocCrecer, Resto, tablas
<1>5. TypeOK
  BY DEF Base
<1>. HIDE DEF pc
<1>6. /\ hilo'[p].pc = pc /\ hilo'[p].op = "memalloc" /\ hilo'[p].pags = <<>>
      /\ hilo'[p].frs = <<>> /\ hilo'[p].faltan = n /\ hilo'[p].fr = SinMarco
      /\ \A q \in Procesos \ {p} : hilo'[q] = hilo[q]
      /\ hilo' \in [Procesos -> TipoHilo]
  <2>1. <<>> \in Seq(Ids) /\ <<>> \in Seq(Marcos)
    BY EmptySeq
  <2>2. [pc |-> pc, op |-> "memalloc", pags |-> <<>>, frs |-> <<>>, faltan |-> n,
         fr |-> SinMarco, vic |-> Nadie] \in TipoHilo
    BY <1>2, <2>1 DEF TipoHilo, Llamadas, pc
  <2>. QED
    BY <1>3, <1>5, <2>2, DejaHace
<1>7. HiloOK(p)'
  <2>1. Marcos' = Marcos /\ PrimeraNueva(p)' = PrimeraNueva(p) /\ Fija' = Fija
    BY <1>4 DEF Marcos, PrimeraNueva, Fija
  <2>2. ReposoOK(p)'
    BY <1>1, <1>4, <1>6 DEF ReposoOK, PcReposo, Accesos, Altas, pc
  <2>3. AltaOK(p)'
    BY <1>2, <1>4, <1>6, <2>1 DEF AltaOK, Altas, PcAlta, pc
  <2>4. AccesoOK(p)'
    BY <1>6 DEF AccesoOK, Accesos
  <2>5. TenenciaOK(p)'
    BY <1>5, <1>6, <2>1, MarcosTipo DEF TenenciaOK, PcConMarco, pc
  <2>. QED
    BY <2>2, <2>3, <2>4, <2>5 DEF HiloOK
<1>8. SoloDe(p)
  BY <1>4, <1>6 DEF SoloDe
<1>. QED
  BY <1>4, <1>5, <1>6, <1>7, <1>8, Tipos, SoloHilo

\* The frames of a thread that looks for some are a list of frames.
LEMMA Registro ==
  ASSUME TypeOK, NEW p \in Procesos
  PROVE  /\ hilo[p] = [pc |-> hilo[p].pc, op |-> hilo[p].op, pags |-> hilo[p].pags,
                       frs |-> hilo[p].frs, faltan |-> hilo[p].faltan, fr |-> hilo[p].fr,
                       vic |-> hilo[p].vic]
         /\ hilo[p].op \in Llamadas \union {"nada", "volver"}
         /\ hilo[p].pags \in Seq(Ids) /\ hilo[p].frs \in Seq(Marcos) /\ hilo[p].faltan \in Nat
         /\ hilo[p].fr \in Marcos \union {SinMarco} /\ hilo[p].vic \in Claves \union {Nadie}
BY HiloTipo DEF TipoHilo

\* Only the place of the thread changes.
LEMMA DejaPc ==
  ASSUME TypeOK, NEW p \in Procesos, NEW xpc,
         hilo' = [hilo EXCEPT ![p].pc = xpc]
  PROVE  Deja(p, xpc, hilo[p].op, hilo[p].pags, hilo[p].frs, hilo[p].faltan, hilo[p].fr, hilo[p].vic)
<1>. DEFINE h == hilo[p]
            h1 == [h EXCEPT !.pc = xpc]
<1>1. hilo \in [Procesos -> TipoHilo] /\ hilo[p] \in TipoHilo
  BY HiloTipo
<1>2. h = [pc |-> h.pc, op |-> h.op, pags |-> h.pags, frs |-> h.frs,
         faltan |-> h.faltan, fr |-> h.fr, vic |-> h.vic]
  BY <1>1 DEF TipoHilo
<1>3. hilo' = [hilo EXCEPT ![p] = h1]
  BY <1>1
<1>. HIDE DEF h
<1>4. h1 = [pc |-> xpc, op |-> h.op, pags |-> h.pags, frs |-> h.frs,
         faltan |-> h.faltan, fr |-> h.fr, vic |-> h.vic]
  BY <1>2
<1>. HIDE DEF h1
<1>. QED
  BY <1>3, <1>4 DEF Deja, h

\* The place and the frames found.
LEMMA DejaPcFrs ==
  ASSUME TypeOK, NEW p \in Procesos, NEW xpc, NEW xfrs,
         hilo' = [hilo EXCEPT ![p].pc = xpc, ![p].frs = xfrs]
  PROVE  Deja(p, xpc, hilo[p].op, hilo[p].pags, xfrs, hilo[p].faltan, hilo[p].fr, hilo[p].vic)
<1>. DEFINE h == hilo[p]
            h1 == [h EXCEPT !.pc = xpc]
            h2 == [h1 EXCEPT !.frs = xfrs]
<1>1. hilo \in [Procesos -> TipoHilo] /\ hilo[p] \in TipoHilo
  BY HiloTipo
<1>2. h = [pc |-> h.pc, op |-> h.op, pags |-> h.pags, frs |-> h.frs,
         faltan |-> h.faltan, fr |-> h.fr, vic |-> h.vic]
  BY <1>1 DEF TipoHilo
<1>3. hilo' = [hilo EXCEPT ![p] = h2]
  BY <1>1
<1>. HIDE DEF h
<1>4. h1 = [pc |-> xpc, op |-> h.op, pags |-> h.pags, frs |-> h.frs,
         faltan |-> h.faltan, fr |-> h.fr, vic |-> h.vic]
  BY <1>2
<1>. HIDE DEF h1
<1>5. h1.pc = xpc /\ h1.op = h.op /\ h1.pags = h.pags
      /\ h1.frs = h.frs /\ h1.faltan = h.faltan /\ h1.fr = h.fr /\ h1.vic = h.vic
  BY <1>4
<1>6. h2 = [pc |-> xpc, op |-> h.op, pags |-> h.pags, frs |-> xfrs,
         faltan |-> h.faltan, fr |-> h.fr, vic |-> h.vic]
  BY <1>4, <1>5
<1>. HIDE DEF h2
<1>. QED
  BY <1>3, <1>6 DEF Deja, h

\* The place and the frame.
LEMMA DejaPcFr ==
  ASSUME TypeOK, NEW p \in Procesos, NEW xpc, NEW xfr,
         hilo' = [hilo EXCEPT ![p].pc = xpc, ![p].fr = xfr]
  PROVE  Deja(p, xpc, hilo[p].op, hilo[p].pags, hilo[p].frs, hilo[p].faltan, xfr, hilo[p].vic)
<1>. DEFINE h == hilo[p]
            h1 == [h EXCEPT !.pc = xpc]
            h2 == [h1 EXCEPT !.fr = xfr]
<1>1. hilo \in [Procesos -> TipoHilo] /\ hilo[p] \in TipoHilo
  BY HiloTipo
<1>2. h = [pc |-> h.pc, op |-> h.op, pags |-> h.pags, frs |-> h.frs,
         faltan |-> h.faltan, fr |-> h.fr, vic |-> h.vic]
  BY <1>1 DEF TipoHilo
<1>3. hilo' = [hilo EXCEPT ![p] = h2]
  BY <1>1
<1>. HIDE DEF h
<1>4. h1 = [pc |-> xpc, op |-> h.op, pags |-> h.pags, frs |-> h.frs,
         faltan |-> h.faltan, fr |-> h.fr, vic |-> h.vic]
  BY <1>2
<1>. HIDE DEF h1
<1>5. h1.pc = xpc /\ h1.op = h.op /\ h1.pags = h.pags
      /\ h1.frs = h.frs /\ h1.faltan = h.faltan /\ h1.fr = h.fr /\ h1.vic = h.vic
  BY <1>4
<1>6. h2 = [pc |-> xpc, op |-> h.op, pags |-> h.pags, frs |-> h.frs,
         faltan |-> h.faltan, fr |-> xfr, vic |-> h.vic]
  BY <1>4, <1>5
<1>. HIDE DEF h2
<1>. QED
  BY <1>3, <1>6 DEF Deja, h

\* The place and the victim.
LEMMA DejaPcVic ==
  ASSUME TypeOK, NEW p \in Procesos, NEW xpc, NEW xvic,
         hilo' = [hilo EXCEPT ![p].pc = xpc, ![p].vic = xvic]
  PROVE  Deja(p, xpc, hilo[p].op, hilo[p].pags, hilo[p].frs, hilo[p].faltan, hilo[p].fr, xvic)
<1>. DEFINE h == hilo[p]
            h1 == [h EXCEPT !.pc = xpc]
            h2 == [h1 EXCEPT !.vic = xvic]
<1>1. hilo \in [Procesos -> TipoHilo] /\ hilo[p] \in TipoHilo
  BY HiloTipo
<1>2. h = [pc |-> h.pc, op |-> h.op, pags |-> h.pags, frs |-> h.frs,
         faltan |-> h.faltan, fr |-> h.fr, vic |-> h.vic]
  BY <1>1 DEF TipoHilo
<1>3. hilo' = [hilo EXCEPT ![p] = h2]
  BY <1>1
<1>. HIDE DEF h
<1>4. h1 = [pc |-> xpc, op |-> h.op, pags |-> h.pags, frs |-> h.frs,
         faltan |-> h.faltan, fr |-> h.fr, vic |-> h.vic]
  BY <1>2
<1>. HIDE DEF h1
<1>5. h1.pc = xpc /\ h1.op = h.op /\ h1.pags = h.pags
      /\ h1.frs = h.frs /\ h1.faltan = h.faltan /\ h1.fr = h.fr /\ h1.vic = h.vic
  BY <1>4
<1>6. h2 = [pc |-> xpc, op |-> h.op, pags |-> h.pags, frs |-> h.frs,
         faltan |-> h.faltan, fr |-> h.fr, vic |-> xvic]
  BY <1>4, <1>5
<1>. HIDE DEF h2
<1>. QED
  BY <1>3, <1>6 DEF Deja, h

\* The place, the frame and the victim.
LEMMA DejaPcFrVic ==
  ASSUME TypeOK, NEW p \in Procesos, NEW xpc, NEW xfr, NEW xvic,
         hilo' = [hilo EXCEPT ![p].pc = xpc, ![p].fr = xfr, ![p].vic = xvic]
  PROVE  Deja(p, xpc, hilo[p].op, hilo[p].pags, hilo[p].frs, hilo[p].faltan, xfr, xvic)
<1>. DEFINE h == hilo[p]
            h1 == [h EXCEPT !.pc = xpc]
            h2 == [h1 EXCEPT !.fr = xfr]
            h3 == [h2 EXCEPT !.vic = xvic]
<1>1. hilo \in [Procesos -> TipoHilo] /\ hilo[p] \in TipoHilo
  BY HiloTipo
<1>2. h = [pc |-> h.pc, op |-> h.op, pags |-> h.pags, frs |-> h.frs,
         faltan |-> h.faltan, fr |-> h.fr, vic |-> h.vic]
  BY <1>1 DEF TipoHilo
<1>3. hilo' = [hilo EXCEPT ![p] = h3]
  BY <1>1
<1>. HIDE DEF h
<1>4. h1 = [pc |-> xpc, op |-> h.op, pags |-> h.pags, frs |-> h.frs,
         faltan |-> h.faltan, fr |-> h.fr, vic |-> h.vic]
  BY <1>2
<1>. HIDE DEF h1
<1>5. h1.pc = xpc /\ h1.op = h.op /\ h1.pags = h.pags
      /\ h1.frs = h.frs /\ h1.faltan = h.faltan /\ h1.fr = h.fr /\ h1.vic = h.vic
  BY <1>4
<1>6. h2 = [pc |-> xpc, op |-> h.op, pags |-> h.pags, frs |-> h.frs,
         faltan |-> h.faltan, fr |-> xfr, vic |-> h.vic]
  BY <1>4, <1>5
<1>. HIDE DEF h2
<1>7. h2.pc = xpc /\ h2.op = h.op /\ h2.pags = h.pags
      /\ h2.frs = h.frs /\ h2.faltan = h.faltan /\ h2.fr = xfr /\ h2.vic = h.vic
  BY <1>6
<1>8. h3 = [pc |-> xpc, op |-> h.op, pags |-> h.pags, frs |-> h.frs,
         faltan |-> h.faltan, fr |-> xfr, vic |-> xvic]
  BY <1>6, <1>7
<1>. HIDE DEF h3
<1>. QED
  BY <1>3, <1>8 DEF Deja, h

\* What is left to do.
LEMMA DejaFaltan ==
  ASSUME TypeOK, NEW p \in Procesos, NEW xfaltan,
         hilo' = [hilo EXCEPT ![p].faltan = xfaltan]
  PROVE  Deja(p, hilo[p].pc, hilo[p].op, hilo[p].pags, hilo[p].frs, xfaltan, hilo[p].fr, hilo[p].vic)
<1>. DEFINE h == hilo[p]
            h1 == [h EXCEPT !.faltan = xfaltan]
<1>1. hilo \in [Procesos -> TipoHilo] /\ hilo[p] \in TipoHilo
  BY HiloTipo
<1>2. h = [pc |-> h.pc, op |-> h.op, pags |-> h.pags, frs |-> h.frs,
         faltan |-> h.faltan, fr |-> h.fr, vic |-> h.vic]
  BY <1>1 DEF TipoHilo
<1>3. hilo' = [hilo EXCEPT ![p] = h1]
  BY <1>1
<1>. HIDE DEF h
<1>4. h1 = [pc |-> h.pc, op |-> h.op, pags |-> h.pags, frs |-> h.frs,
         faltan |-> xfaltan, fr |-> h.fr, vic |-> h.vic]
  BY <1>2
<1>. HIDE DEF h1
<1>. QED
  BY <1>3, <1>4 DEF Deja, h

\* The place and what is left to do.
LEMMA DejaPcFaltan ==
  ASSUME TypeOK, NEW p \in Procesos, NEW xpc, NEW xfaltan,
         hilo' = [hilo EXCEPT ![p].pc = xpc, ![p].faltan = xfaltan]
  PROVE  Deja(p, xpc, hilo[p].op, hilo[p].pags, hilo[p].frs, xfaltan, hilo[p].fr, hilo[p].vic)
<1>. DEFINE h == hilo[p]
            h1 == [h EXCEPT !.pc = xpc]
            h2 == [h1 EXCEPT !.faltan = xfaltan]
<1>1. hilo \in [Procesos -> TipoHilo] /\ hilo[p] \in TipoHilo
  BY HiloTipo
<1>2. h = [pc |-> h.pc, op |-> h.op, pags |-> h.pags, frs |-> h.frs,
         faltan |-> h.faltan, fr |-> h.fr, vic |-> h.vic]
  BY <1>1 DEF TipoHilo
<1>3. hilo' = [hilo EXCEPT ![p] = h2]
  BY <1>1
<1>. HIDE DEF h
<1>4. h1 = [pc |-> xpc, op |-> h.op, pags |-> h.pags, frs |-> h.frs,
         faltan |-> h.faltan, fr |-> h.fr, vic |-> h.vic]
  BY <1>2
<1>. HIDE DEF h1
<1>5. h1.pc = xpc /\ h1.op = h.op /\ h1.pags = h.pags
      /\ h1.frs = h.frs /\ h1.faltan = h.faltan /\ h1.fr = h.fr /\ h1.vic = h.vic
  BY <1>4
<1>6. h2 = [pc |-> xpc, op |-> h.op, pags |-> h.pags, frs |-> h.frs,
         faltan |-> xfaltan, fr |-> h.fr, vic |-> h.vic]
  BY <1>4, <1>5
<1>. HIDE DEF h2
<1>. QED
  BY <1>3, <1>6 DEF Deja, h

\* With fixed assignment the frames are chosen, different, and as many as asked.
LEMMA ReservarHace ==
  ASSUME Base, NEW p \in Procesos, ReservarMarcos(p)
  PROVE  /\ hilo[p].pc = "reservar" /\ hilo[p].op = "memalloc" /\ Fija /\ tabla[p] = <<>>
         /\ hilo'[p].pc = "tomar" /\ hilo'[p].op = "memalloc" /\ hilo'[p].pags = hilo[p].pags
         /\ hilo'[p].faltan = hilo[p].faltan /\ hilo'[p].fr = hilo[p].fr
         /\ hilo'[p].frs \in [1 .. conf.marcos -> Desasignados] /\ IsInjective(hilo'[p].frs)
         /\ \A q \in Procesos \ {p} : hilo'[q] = hilo[q]
         /\ hilo' \in [Procesos -> TipoHilo]
         /\ UNCHANGED <<conf, marco, tablas, posClock, datos, tlb, suspendidos, historia, caido>>
<1>. DEFINE D == Desasignados
            s == EnOrden(D, [f \in Marcos |-> f])
            r == SubSeq(s, 1, conf.marcos)
<1>1. TypeOK /\ hilo[p].pc = "reservar" /\ conf.marcos \in Nat /\ Marcos \subseteq Nat
      /\ IsFiniteSet(Marcos)
  BY ConfTipo, MarcosTipo DEF Base, ReservarMarcos, En
<1>2. hilo[p].op = "memalloc" /\ Fija /\ tabla[p] = <<>>
  <2>1. ReposoOK(p) /\ AltaOK(p) /\ AccesoOK(p)
    BY DEF Base, HilosOK
  <2>. QED
    BY <1>1, <2>1 DEF ReposoOK, AltaOK, AccesoOK, PcReposo, PcAcceso, Altas, Accesos
<1>3. D \subseteq Marcos /\ IsFiniteSet(D) /\ \A f \in D : [g \in Marcos |-> g][f] \in Nat
  BY <1>1, FS_Subset DEF Desasignados
<1>4. Cardinality(D) \in Nat /\ Cardinality(D) >= conf.marcos
  BY <1>3, FS_CardinalityType DEF ReservarMarcos
<1>5. s \in [1 .. Cardinality(D) -> D] /\ s \in Seq(D) /\ Len(s) = Cardinality(D) /\ IsInjective(s)
  <2>. HIDE DEF D
  <2>. QED
    BY <1>3, EnOrdenTipo
<1>. HIDE DEF D, s
<1>6. r \in Seq(D) /\ Len(r) = conf.marcos /\ \A i \in 1 .. conf.marcos : r[i] = s[i]
  <2>1. \A i \in 1 .. conf.marcos : s[i] \in D
    BY <1>1, <1>4, <1>5
  <2>2. /\ r \in Seq(D)
        /\ Len(r) = IF 1 <= conf.marcos THEN conf.marcos - 1 + 1 ELSE 0
        /\ \A i \in 1 .. conf.marcos - 1 + 1 : r[i] = s[1 + i - 1]
    <3>1. 1 \in Int /\ conf.marcos \in Int
      BY <1>1
    <3>. QED
      BY <2>1, <3>1, SubSeqProperties
  <2>. HIDE DEF r
  <2>3. Len(r) = conf.marcos
    BY <1>1, <2>2
  <2>4. ASSUME NEW i \in 1 .. conf.marcos  PROVE r[i] = s[i]
    <3>1. i \in 1 .. conf.marcos - 1 + 1 /\ 1 + i - 1 = i
      BY <1>1
    <3>. QED
      BY <2>2, <3>1
  <2>. QED
    BY <2>2, <2>3, <2>4
<1>. HIDE DEF r
<1>7. r \in [1 .. conf.marcos -> D] /\ DOMAIN r = 1 .. conf.marcos
  BY <1>6, LenProperties
<1>8. IsInjective(r)
  <2>1. SUFFICES ASSUME NEW i \in 1 .. conf.marcos, NEW j \in 1 .. conf.marcos, r[i] = r[j]
                 PROVE  i = j
    BY <1>7, Zenon DEF IsInjective
  <2>2. s[i] = s[j] /\ i \in 1 .. Cardinality(D) /\ j \in 1 .. Cardinality(D)
    BY <1>1, <1>4, <1>6, <2>1
  <2>. QED
    BY <1>5, <2>2 DEF IsInjective
<1>9. Deja(p, "tomar", hilo[p].op, hilo[p].pags, r, hilo[p].faltan, hilo[p].fr, hilo[p].vic)
  BY <1>1, DejaPcFrs DEF ReservarMarcos, r, s, D
<1>10. [pc |-> "tomar", op |-> hilo[p].op, pags |-> hilo[p].pags, frs |-> r,
        faltan |-> hilo[p].faltan, fr |-> hilo[p].fr, vic |-> hilo[p].vic] \in TipoHilo
  <2>1. r \in Seq(Marcos)
    BY <1>3, <1>6, SeqMonotonic
  <2>. QED
    BY <1>1, <2>1, Registro DEF TipoHilo
<1>11. /\ hilo'[p].pc = "tomar" /\ hilo'[p].op = hilo[p].op /\ hilo'[p].pags = hilo[p].pags
       /\ hilo'[p].frs = r /\ hilo'[p].faltan = hilo[p].faltan /\ hilo'[p].fr = hilo[p].fr
       /\ \A q \in Procesos \ {p} : hilo'[q] = hilo[q]
       /\ hilo' \in [Procesos -> TipoHilo]
  BY <1>1, <1>9, <1>10, DejaHace
<1>12. UNCHANGED <<conf, marco, tablas, posClock, datos, tlb, suspendidos, historia, caido>>
  BY DEF ReservarMarcos, Resto
<1>. QED
  BY <1>1, <1>2, <1>7, <1>8, <1>11, <1>12 DEF D

\* The choice of frames keeps Base.
LEMMA ReservarBase ==
  ASSUME Base, NEW p \in Procesos, ReservarMarcos(p)
  PROVE  Base'
<1>1. /\ hilo[p].pc = "reservar" /\ hilo[p].op = "memalloc" /\ Fija /\ tabla[p] = <<>>
      /\ hilo'[p].pc = "tomar" /\ hilo'[p].op = "memalloc" /\ hilo'[p].pags = hilo[p].pags
      /\ hilo'[p].faltan = hilo[p].faltan /\ hilo'[p].fr = hilo[p].fr
      /\ hilo'[p].frs \in [1 .. conf.marcos -> Desasignados] /\ IsInjective(hilo'[p].frs)
      /\ \A q \in Procesos \ {p} : hilo'[q] = hilo[q]
      /\ hilo' \in [Procesos -> TipoHilo]
  BY ReservarHace
<1>2. /\ UNCHANGED <<marco, tablas, posClock, datos, tlb, historia>>
      /\ conf' = conf /\ suspendidos' = suspendidos /\ caido' = caido /\ tabla' = tabla
      /\ mtxFrames' = p
  BY DEF ReservarMarcos, Resto, tablas
<1>3. TypeOK /\ ReposoOK(p) /\ AltaOK(p) /\ TenenciaOK(p)
  BY DEF Base, HilosOK
<1>4. HiloOK(p)'
  <2>1. Marcos' = Marcos /\ PrimeraNueva(p)' = PrimeraNueva(p) /\ Fija' = Fija
    BY <1>2 DEF Marcos, PrimeraNueva, Fija
  <2>2. ReposoOK(p)'
    BY <1>1, <1>2, <1>3 DEF ReposoOK, PcReposo, Accesos, Altas
  <2>3. AltaOK(p)'
    <3>1. hilo'[p].frs \in [1 .. conf.marcos -> Marcos]
      BY <1>1 DEF Desasignados
    <3>. QED
      BY <1>1, <1>2, <1>3, <2>1, <3>1 DEF AltaOK, Altas, PcAlta
  <2>4. AccesoOK(p)'
    BY <1>1 DEF AccesoOK, Accesos
  <2>5. TenenciaOK(p)'
    BY <1>1, <1>3, <2>1 DEF TenenciaOK, PcConMarco
  <2>. QED
    BY <2>2, <2>3, <2>4, <2>5 DEF HiloOK
<1>5. SoloDe(p)
  BY <1>1, <1>2 DEF SoloDe
<1>. QED
  BY <1>1, <1>2, <1>3, <1>4, <1>5, Tipos, SoloHilo

\* A refused request ends.
LEMMA NegarBase ==
  ASSUME Base, NEW p \in Procesos, NegarMarcos(p)
  PROVE  Base'
<1>1. /\ hilo' \in [Procesos -> TipoHilo] /\ hilo'[p] = Libre
      /\ \A q \in Procesos \ {p} : hilo'[q] = hilo[q]
  BY TerminarHace DEF NegarMarcos
<1>2. /\ UNCHANGED <<marco, tablas, posClock, datos, tlb, historia>>
      /\ conf' = conf /\ suspendidos' = suspendidos /\ caido' = caido /\ tabla' = tabla
      /\ mtxFrames' = p
  BY DEF NegarMarcos, Resto, tablas
<1>3. TypeOK
  BY DEF Base
<1>4. SoloDe(p) /\ HiloOK(p)'
  BY <1>1, <1>2, <1>3, LibreOK DEF SoloDe
<1>. QED
  BY <1>1, <1>2, <1>3, <1>4, Tipos, SoloHilo

\* The frames taken become of p; whose they were and those of a suspension are noted.
LEMMA TomarHace ==
  ASSUME Base, NEW p \in Procesos, TomarMarcos(p)
  PROVE  /\ hilo[p].pc = "tomar" /\ hilo[p].op = "memalloc" /\ Fija /\ tabla[p] = <<>>
         /\ hilo[p].frs \in [1 .. conf.marcos -> Marcos] /\ IsInjective(hilo[p].frs)
         /\ ToSet(hilo[p].frs) \subseteq Marcos
         /\ hilo'[p].pc = "pedir" /\ hilo'[p].op = "memalloc" /\ hilo'[p].pags = hilo[p].pags
         /\ hilo'[p].frs = <<>> /\ hilo'[p].faltan = hilo[p].faltan /\ hilo'[p].fr = hilo[p].fr
         /\ \A q \in Procesos \ {p} : hilo'[q] = hilo[q]
         /\ hilo' \in [Procesos -> TipoHilo]
         /\ marco' \in [Marcos -> TipoMarco]
         /\ \A f \in Marcos :
               /\ marco'[f].ocupado = marco[f].ocupado
               /\ marco'[f].pid = IF f \in ToSet(hilo[p].frs) THEN p ELSE marco[f].pid
         /\ manchados' = manchados \union {f \in ToSet(hilo[p].frs) : marco[f].pid # Nadie}
         /\ \A f \in ToSet(hilo[p].frs) :
               /\ marco[f].pid # Nadie => marco[f].pid \in robados'
               /\ f \in manchados' => p \in robados'
         /\ robados \subseteq robados' /\ robados' \subseteq Procesos
         /\ robados' # robados => \E f \in ToSet(hilo[p].frs) : f \in manchados'
         /\ UNCHANGED <<conf, tablas, posClock, datos, tlb, suspendidos, caido, achicados>>
<1>. DEFINE suyos == ToSet(hilo[p].frs)
            ajenos == {f \in suyos : marco[f].pid # Nadie}
<1>1. TypeOK /\ hilo[p].pc = "tomar" /\ marco \in [Marcos -> TipoMarco]
      /\ manchados \subseteq Marcos /\ robados \subseteq Procesos
  BY Tipos DEF Base, TomarMarcos, En
<1>2. /\ hilo[p].op = "memalloc" /\ Fija /\ tabla[p] = <<>>
      /\ hilo[p].frs \in [1 .. conf.marcos -> Marcos] /\ IsInjective(hilo[p].frs)
  <2>1. ReposoOK(p) /\ AltaOK(p) /\ AccesoOK(p)
    BY DEF Base, HilosOK
  <2>. QED
    BY <1>1, <2>1 DEF ReposoOK, AltaOK, AccesoOK, PcReposo, PcAcceso, Altas, Accesos
<1>3. suyos \subseteq Marcos
  BY <1>2 DEF ToSet
<1>4. Deja(p, "pedir", hilo[p].op, hilo[p].pags, <<>>, hilo[p].faltan, hilo[p].fr, hilo[p].vic)
  BY <1>1, DejaPcFrs DEF TomarMarcos
<1>5. [pc |-> "pedir", op |-> hilo[p].op, pags |-> hilo[p].pags, frs |-> <<>>,
       faltan |-> hilo[p].faltan, fr |-> hilo[p].fr, vic |-> hilo[p].vic] \in TipoHilo
  <2>1. <<>> \in Seq(Marcos)
    BY EmptySeq
  <2>. QED
    BY <1>1, <2>1, Registro DEF TipoHilo
<1>6. /\ hilo'[p].pc = "pedir" /\ hilo'[p].op = hilo[p].op /\ hilo'[p].pags = hilo[p].pags
      /\ hilo'[p].frs = <<>> /\ hilo'[p].faltan = hilo[p].faltan /\ hilo'[p].fr = hilo[p].fr
      /\ \A q \in Procesos \ {p} : hilo'[q] = hilo[q]
      /\ hilo' \in [Procesos -> TipoHilo]
  BY <1>1, <1>4, <1>5, DejaHace
<1>7. /\ marco' = [f \in Marcos |-> IF f \in suyos THEN [marco[f] EXCEPT !.pid = p] ELSE marco[f]]
      /\ manchados' = manchados \union ajenos
      /\ robados' = robados \union {marco[f].pid : f \in ajenos}
                       \union {q \in {p} : (manchados \union ajenos) \cap suyos # {}}
  BY DEF TomarMarcos
<1>. HIDE DEF suyos
<1>8. ASSUME NEW f \in Marcos
      PROVE  /\ marco'[f] \in TipoMarco /\ marco'[f].ocupado = marco[f].ocupado
             /\ marco'[f].pid = IF f \in suyos THEN p ELSE marco[f].pid
  <2>1. marco[f] \in TipoMarco
    BY <1>1
  <2>. QED
    BY <1>7, <2>1 DEF TipoMarco
<1>9. marco' \in [Marcos -> TipoMarco]
  BY <1>7, <1>8
<1>10. /\ \A f \in suyos : /\ marco[f].pid # Nadie => marco[f].pid \in robados'
                           /\ f \in manchados' => p \in robados'
       /\ robados \subseteq robados'
       /\ robados' # robados => \E f \in suyos : f \in manchados'
  BY <1>7
<1>11. robados' \subseteq Procesos
  <2>1. \A f \in suyos : marco[f].pid \in Procesos \union {Nadie}
    BY <1>1, <1>3 DEF TipoMarco
  <2>. QED
    BY <1>1, <1>7, <2>1
<1>12. UNCHANGED <<conf, tablas, posClock, datos, tlb, suspendidos, caido, achicados>>
  BY DEF TomarMarcos
<1>. QED
  BY <1>1, <1>2, <1>3, <1>6, <1>7, <1>8, <1>9, <1>10, <1>11, <1>12 DEF suyos

\* And Base stays.
LEMMA TomarBase ==
  ASSUME Base, NEW p \in Procesos, TomarMarcos(p)
  PROVE  Base'
<1>1. /\ hilo[p].pc = "tomar" /\ hilo[p].op = "memalloc" /\ Fija /\ tabla[p] = <<>>
      /\ ToSet(hilo[p].frs) \subseteq Marcos
      /\ hilo'[p].pc = "pedir" /\ hilo'[p].op = "memalloc" /\ hilo'[p].pags = hilo[p].pags
      /\ hilo'[p].frs = <<>> /\ hilo'[p].faltan = hilo[p].faltan /\ hilo'[p].fr = hilo[p].fr
      /\ \A q \in Procesos \ {p} : hilo'[q] = hilo[q]
      /\ hilo' \in [Procesos -> TipoHilo]
      /\ marco' \in [Marcos -> TipoMarco] /\ robados' \subseteq Procesos
      /\ manchados' = manchados \union {f \in ToSet(hilo[p].frs) : marco[f].pid # Nadie}
  BY TomarHace
<1>2. /\ conf' = conf /\ tabla' = tabla /\ pag' = pag /\ usos' = usos
      /\ posClock' = posClock /\ ram' = ram /\ enSwap' = enSwap /\ tlb' = tlb
      /\ suspendidos' = suspendidos /\ caido' = caido /\ achicados' = achicados
      /\ mtxFrames' = Nadie
  BY DEF TomarMarcos, tablas, datos
<1>3. TypeOK /\ TablasOK /\ ReposoOK(p) /\ AltaOK(p) /\ TenenciaOK(p)
  BY DEF Base, HilosOK
<1>4. HiloOK(p)'
  <2>1. Marcos' = Marcos /\ PrimeraNueva(p)' = PrimeraNueva(p) /\ Fija' = Fija
    BY <1>2 DEF Marcos, PrimeraNueva, Fija
  <2>2. ReposoOK(p)'
    BY <1>1, <1>2, <1>3 DEF ReposoOK, PcReposo, Accesos, Altas
  <2>3. AltaOK(p)'
    BY <1>1, <1>2, <1>3, <2>1 DEF AltaOK, Altas, PcAlta
  <2>4. AccesoOK(p)'
    BY <1>1 DEF AccesoOK, Accesos
  <2>5. TenenciaOK(p)'
    BY <1>1, <1>3, <2>1 DEF TenenciaOK, PcConMarco
  <2>. QED
    BY <2>2, <2>3, <2>4, <2>5 DEF HiloOK
<1>5. SoloDe(p)
  BY <1>1, <1>2 DEF SoloDe
<1>6. manchados' \subseteq Marcos
  BY <1>1, <1>3, Tipos
<1>7. TypeOK'
  BY <1>1, <1>2, <1>3, <1>6, Tipos, TiposTras
<1>8. TablasOK'
  BY <1>2, <1>3, TablasQuietas
<1>. QED
  BY <1>2, <1>4, <1>5, <1>7, <1>8, BaseTras

\* What is known of the thread of p once a step has left it like this.
Queda(p, pc, op, pags, frs, faltan, fr, vic) ==
    /\ hilo'[p].pc = pc /\ hilo'[p].op = op /\ hilo'[p].pags = pags /\ hilo'[p].frs = frs
    /\ hilo'[p].faltan = faltan /\ hilo'[p].fr = fr /\ hilo'[p].vic = vic
    /\ \A q \in Procesos \ {p} : hilo'[q] = hilo[q]
    /\ hilo' \in [Procesos -> TipoHilo]

\* A record of the right type is what remains.
LEMMA QuedaSi ==
  ASSUME TypeOK, NEW p \in Procesos,
         NEW pc, NEW op, NEW pags, NEW frs, NEW faltan, NEW fr, NEW vic,
         Deja(p, pc, op, pags, frs, faltan, fr, vic),
         pc \in PcReposo \union PcAlta \union PcAcceso, op \in Llamadas \union {"nada", "volver"},
         pags \in Seq(Ids), frs \in Seq(Marcos), faltan \in Nat,
         fr \in Marcos \union {SinMarco}, vic \in Claves \union {Nadie}
  PROVE  Queda(p, pc, op, pags, frs, faltan, fr, vic)
<1>1. [pc |-> pc, op |-> op, pags |-> pags, frs |-> frs, faltan |-> faltan, fr |-> fr,
       vic |-> vic] \in TipoHilo
  BY DEF TipoHilo, PcReposo, PcAlta, PcAcceso
<1>. QED
  BY <1>1, DejaHace DEF Queda

\* A step that only moves the thread of p.
LEMMA IrHace ==
  ASSUME TypeOK, NEW p \in Procesos, NEW pc \in PcReposo \union PcAlta \union PcAcceso, Ir(p, pc)
  PROVE  Queda(p, pc, hilo[p].op, hilo[p].pags, hilo[p].frs, hilo[p].faltan, hilo[p].fr,
               hilo[p].vic)
<1>1. Deja(p, pc, hilo[p].op, hilo[p].pags, hilo[p].frs, hilo[p].faltan, hilo[p].fr,
           hilo[p].vic)
  BY DejaPc DEF Ir
<1>. QED
  BY <1>1, QuedaSi, Registro

\* The first of some frames is one of them.
LEMMA PrimeroTipo ==
  ASSUME TypeOK, NEW p, MarcosLibres(p) # {}
  PROVE  Primero(MarcosLibres(p)) \in MarcosLibres(p)
<1>1. MarcosLibres(p) \subseteq Nat
  BY MarcosTipo DEF MarcosLibres
<1>2. Primero(MarcosLibres(p)) = Min(MarcosLibres(p))
  BY DEF Primero, Min
<1>. QED
  BY <1>1, <1>2, MinimoExiste

\* solicitar_frame_en_ppal: a free frame, or a victim.
LEMMA SolicitarHace ==
  ASSUME Base, NEW p \in Procesos, SolicitarFrame(p)
  PROVE  /\ hilo[p].pc = "pedir" /\ hilo[p].op \in Altas
         /\ \/ /\ Queda(p, "elegir", hilo[p].op, hilo[p].pags, hilo[p].frs, hilo[p].faltan,
                        hilo[p].fr, hilo[p].vic)
               /\ MarcosLibres(p) = {} \/ (Fija /\ Len(tabla[p]) >= conf.marcos)
               /\ marco' = marco
            \/ \E f \in MarcosLibres(p) :
                  /\ Queda(p, "crear", hilo[p].op, hilo[p].pags, hilo[p].frs, hilo[p].faltan,
                           f, hilo[p].vic)
                  /\ Fija => Len(tabla[p]) < conf.marcos
                  /\ marco' = [marco EXCEPT ![f].ocupado = TRUE]
         /\ mtxFrames' \in {mtxFrames, Nadie}
         /\ UNCHANGED <<tablas, posClock, datos, tlb, caido, Resto>>
<1>1. hilo[p].pc = "pedir" /\ TypeOK
  BY DEF SolicitarFrame, En, Base
<1>2. hilo[p].op \in Altas
  <2>1. ReposoOK(p) /\ AccesoOK(p)
    BY DEF Base, HilosOK
  <2>. QED
    BY <1>1, <2>1 DEF ReposoOK, AccesoOK, PcReposo, PcAcceso
<1>3. UNCHANGED <<tablas, posClock, datos, tlb, caido, Resto>> /\ mtxFrames' \in {mtxFrames, Nadie}
  BY DEF SolicitarFrame
<1>4. CASE Ir(p, "elegir") /\ marco' = marco
           /\ (MarcosLibres(p) = {} \/ (Fija /\ Len(tabla[p]) >= conf.marcos))
  <2>1. Queda(p, "elegir", hilo[p].op, hilo[p].pags, hilo[p].frs, hilo[p].faltan,
              hilo[p].fr, hilo[p].vic)
    BY <1>1, <1>4, IrHace DEF PcReposo, PcAlta, PcAcceso
  <2>. QED
    BY <1>1, <1>2, <1>3, <1>4, <2>1
<1>5. CASE /\ MarcosLibres(p) # {} /\ (Fija => Len(tabla[p]) < conf.marcos)
           /\ marco' = [marco EXCEPT ![Primero(MarcosLibres(p))].ocupado = TRUE]
           /\ hilo' = [hilo EXCEPT ![p].pc = "crear", ![p].fr = Primero(MarcosLibres(p))]
  <2>. DEFINE f == Primero(MarcosLibres(p))
  <2>1. f \in MarcosLibres(p) /\ f \in Marcos
    BY <1>1, <1>5, PrimeroTipo DEF MarcosLibres
  <2>. HIDE DEF f
  <2>2. Deja(p, "crear", hilo[p].op, hilo[p].pags, hilo[p].frs, hilo[p].faltan, f, hilo[p].vic)
    BY <1>1, <1>5, DejaPcFr DEF f
  <2>3. Queda(p, "crear", hilo[p].op, hilo[p].pags, hilo[p].frs, hilo[p].faltan, f, hilo[p].vic)
    BY <1>1, <2>1, <2>2, QuedaSi, Registro DEF PcReposo, PcAlta, PcAcceso
  <2>. QED
    BY <1>1, <1>2, <1>3, <1>5, <2>1, <2>3 DEF f
<1>. QED
  BY <1>4, <1>5 DEF SolicitarFrame

\* A frame that is marked or released stays a frame.
LEMMA MarcarTipo ==
  ASSUME TypeOK, NEW f \in Marcos, NEW b \in BOOLEAN,
         marco' = [marco EXCEPT ![f].ocupado = b]
  PROVE  /\ marco' \in [Marcos -> TipoMarco]
         /\ marco'[f].ocupado = b
         /\ \A g \in Marcos : /\ marco'[g].pid = marco[g].pid
                              /\ g # f => marco'[g] = marco[g]
<1>1. marco \in [Marcos -> TipoMarco] /\ \A g \in Marcos : marco[g] \in TipoMarco
  BY Tipos
<1>2. marco'[f] = [marco[f] EXCEPT !.ocupado = b] /\ \A g \in Marcos \ {f} : marco'[g] = marco[g]
  BY <1>1
<1>3. marco'[f].ocupado = b /\ marco'[f].pid = marco[f].pid /\ marco'[f] \in TipoMarco
  BY <1>1, <1>2 DEF TipoMarco
<1>4. marco' = [g \in Marcos |-> marco'[g]]
  BY <1>1
<1>. QED
  BY <1>1, <1>2, <1>3, <1>4

\* Base after it.
LEMMA SolicitarBase ==
  ASSUME Base, NEW p \in Procesos, SolicitarFrame(p)
  PROVE  Base'
<1>1. /\ hilo[p].pc = "pedir" /\ hilo[p].op \in Altas
      /\ mtxFrames' \in {mtxFrames, Nadie}
      /\ UNCHANGED <<tablas, posClock, datos, tlb, caido, Resto>>
  BY SolicitarHace
<1>2. PICK pc, f :
        /\ Queda(p, pc, hilo[p].op, hilo[p].pags, hilo[p].frs, hilo[p].faltan, f, hilo[p].vic)
        /\ \/ pc = "elegir" /\ f = hilo[p].fr /\ marco' = marco
           \/ pc = "crear" /\ f \in MarcosLibres(p) /\ marco' = [marco EXCEPT ![f].ocupado = TRUE]
  BY SolicitarHace, Zenon
<1>3. /\ conf' = conf /\ tabla' = tabla /\ pag' = pag /\ usos' = usos
      /\ posClock' = posClock /\ ram' = ram /\ enSwap' = enSwap /\ tlb' = tlb
      /\ suspendidos' = suspendidos /\ caido' = caido
      /\ manchados' = manchados /\ robados' = robados /\ achicados' = achicados
  BY <1>1 DEF tablas, datos, Resto, historia
<1>4. TypeOK /\ TablasOK /\ ReposoOK(p) /\ AltaOK(p) /\ TenenciaOK(p)
  BY DEF Base, HilosOK
<1>5. marco' \in [Marcos -> TipoMarco]
  BY <1>2, <1>4, Tipos, MarcarTipo DEF MarcosLibres
<1>6. SoloDe(p)
  BY <1>2, <1>3 DEF SoloDe, Queda
<1>7. HiloOK(p)'
  <2>1. Marcos' = Marcos /\ PrimeraNueva(p)' = PrimeraNueva(p) /\ Fija' = Fija
    BY <1>3 DEF Marcos, PrimeraNueva, Fija
  <2>2. ReposoOK(p)'
    BY <1>1, <1>2, <1>3, <1>4 DEF ReposoOK, PcReposo, Accesos, Altas, Queda
  <2>3. AltaOK(p)'
    BY <1>1, <1>2, <1>3, <1>4, <2>1 DEF AltaOK, Altas, PcAlta, Queda
  <2>4. AccesoOK(p)'
    BY <1>1, <1>2 DEF AccesoOK, Accesos, Altas, Queda
  <2>5. TenenciaOK(p)'
    BY <1>1, <1>2, <1>4, <2>1 DEF TenenciaOK, PcConMarco, MarcosLibres, Queda
  <2>. QED
    BY <2>2, <2>3, <2>4, <2>5 DEF HiloOK
<1>8. TypeOK'
  BY <1>1, <1>2, <1>3, <1>4, <1>5, Tipos, TiposTras DEF Queda
<1>9. TablasOK'
  BY <1>3, <1>4, TablasQuietas
<1>. QED
  BY <1>3, <1>6, <1>7, <1>8, <1>9, BaseTras

\* The rest of the loop: one frame less to ask for, or the end.
LEMMA OtroMasHace ==
  ASSUME TypeOK, NEW p \in Procesos, hilo[p].faltan > 0, OtroMas(p)
  PROVE  \/ /\ hilo[p].faltan = 1 /\ hilo'[p] = Libre
            /\ hilo' \in [Procesos -> TipoHilo]
            /\ \A q \in Procesos \ {p} : hilo'[q] = hilo[q]
         \/ /\ hilo[p].faltan > 1
            /\ Queda(p, "pedir", hilo[p].op, hilo[p].pags, hilo[p].frs, hilo[p].faltan - 1,
                     SinMarco, hilo[p].vic)
<1>1. hilo \in [Procesos -> TipoHilo] /\ Libre \in TipoHilo
  BY LibreTipo, HiloTipo
<1>2. CASE hilo[p].faltan = 1
  <2>1. hilo' = [hilo EXCEPT ![p] = Libre]
    BY <1>2 DEF OtroMas
  <2>. QED
    BY <1>1, <1>2, <2>1
<1>3. CASE hilo[p].faltan # 1
  <2>. DEFINE h == hilo[p]
              h1 == [h EXCEPT !.pc = "pedir"]
              h2 == [h1 EXCEPT !.faltan = h1.faltan - 1]
              h3 == [h2 EXCEPT !.fr = SinMarco]
  <2>1. hilo' = [hilo EXCEPT ![p] = h3]
    BY <1>3 DEF OtroMas
  <2>2. h = [pc |-> h.pc, op |-> h.op, pags |-> h.pags, frs |-> h.frs, faltan |-> h.faltan,
             fr |-> h.fr, vic |-> h.vic]
    BY Registro
  <2>. HIDE DEF h
  <2>3. h1 = [pc |-> "pedir", op |-> h.op, pags |-> h.pags, frs |-> h.frs, faltan |-> h.faltan,
              fr |-> h.fr, vic |-> h.vic]
    BY <2>2
  <2>. HIDE DEF h1
  <2>4. /\ h1.op = h.op /\ h1.pags = h.pags /\ h1.frs = h.frs /\ h1.faltan = h.faltan
        /\ h1.fr = h.fr /\ h1.vic = h.vic /\ h1.pc = "pedir"
    BY <2>3
  <2>5. h2 = [pc |-> "pedir", op |-> h.op, pags |-> h.pags, frs |-> h.frs,
              faltan |-> h.faltan - 1, fr |-> h.fr, vic |-> h.vic]
    BY <2>3, <2>4
  <2>. HIDE DEF h2
  <2>6. /\ h2.op = h.op /\ h2.pags = h.pags /\ h2.frs = h.frs /\ h2.faltan = h.faltan - 1
        /\ h2.fr = h.fr /\ h2.vic = h.vic /\ h2.pc = "pedir"
    BY <2>5
  <2>7. h3 = [pc |-> "pedir", op |-> h.op, pags |-> h.pags, frs |-> h.frs,
              faltan |-> h.faltan - 1, fr |-> SinMarco, vic |-> h.vic]
    BY <2>5, <2>6
  <2>. HIDE DEF h3
  <2>8. Deja(p, "pedir", hilo[p].op, hilo[p].pags, hilo[p].frs, hilo[p].faltan - 1, SinMarco,
             hilo[p].vic)
    BY <2>1, <2>7 DEF Deja, h
  <2>9. hilo[p].faltan \in Nat /\ hilo[p].faltan - 1 \in Nat /\ hilo[p].faltan > 1
    <3>1. hilo[p].faltan \in Nat
      BY Registro
    <3>. QED
      BY <1>3, <3>1
  <2>10. Queda(p, "pedir", hilo[p].op, hilo[p].pags, hilo[p].frs, hilo[p].faltan - 1, SinMarco,
               hilo[p].vic)
    BY <2>8, <2>9, QuedaSi, Registro DEF PcReposo, PcAlta, PcAcceso
  <2>. QED
    BY <2>9, <2>10
<1>. QED
  BY <1>2, <1>3

\* A page replaced by another of the right type; the rest as they were.
LEMMA PaginaTipo ==
  ASSUME TypeOK, NEW k \in Claves, NEW v \in TipoPagina, pag' = [pag EXCEPT ![k] = v]
  PROVE  /\ pag' \in [Claves -> TipoPagina]
         /\ pag'[k] = v
         /\ \A l \in Claves : l # k => pag'[l] = pag[l]
BY Tipos

\* The fields of a page.
LEMMA PaginaCampos ==
  ASSUME TypeOK, NEW k \in Claves
  PROVE  /\ pag[k] \in TipoPagina
         /\ pag[k].frame \in Marcos \union {SinMarco}
         /\ pag[k].presencia \in BOOLEAN /\ pag[k].modificado \in BOOLEAN
         /\ pag[k].lock \in BOOLEAN /\ pag[k].uso \in BOOLEAN
BY Tipos DEF TipoPagina

\* A new page, modified, in the frame of the thread, after the last of the table.
LEMMA CrearHace ==
  ASSUME Base, NEW p \in Procesos, CrearPagina(p)
  PROVE  LET k == Nueva(p)
             f == hilo[p].fr IN
         /\ hilo[p].pc = "crear" /\ hilo[p].op = "memalloc" /\ f \in Marcos /\ hilo[p].faltan > 0
         /\ hilo[p].frs = <<>>
         /\ PrimeraNueva(p) + hilo[p].faltan <= conf.tope[p]
         /\ k \in Claves /\ ~EnTabla(k)
         /\ tabla' \in [Procesos -> Seq(Ids)] /\ tabla'[p] = Append(tabla[p], k[2])
         /\ \A q \in Procesos : q # p => tabla'[q] = tabla[q]
         /\ \A l \in Claves : EnTabla(l)' <=> EnTabla(l) \/ l = k
         /\ pag' \in [Claves -> TipoPagina]
         /\ pag'[k] = [frame |-> f, presencia |-> TRUE, modificado |-> TRUE, lock |-> FALSE,
                       uso |-> TRUE]
         /\ \A l \in Claves : l # k => pag'[l] = pag[l]
         /\ usos' = Usar(k)
         /\ ram' \in [Marcos -> Claves \union {Nadie}]
         /\ \A g \in Marcos : ram'[g] = IF g = f THEN k ELSE IF ram[g] = k THEN Nadie ELSE ram[g]
         /\ enSwap' \in [Claves -> BOOLEAN]
         /\ \A l \in Claves : enSwap'[l] <=> enSwap[l] /\ l # k
         /\ OtroMas(p)
         /\ UNCHANGED <<marco, mtxFrames, posClock, tlb, caido, Resto>>
<1>. DEFINE k == Nueva(p)
            f == hilo[p].fr
<1>1. TypeOK /\ hilo[p].pc = "crear" /\ hilo[p].op = "memalloc"
  BY DEF CrearPagina, En, Base
<1>2. /\ f \in Marcos /\ hilo[p].faltan > 0 /\ hilo[p].frs = <<>>
      /\ PrimeraNueva(p) + hilo[p].faltan <= conf.tope[p]
  <2>1. AltaOK(p) /\ TenenciaOK(p)
    BY DEF Base, HilosOK
  <2>. QED
    BY <1>1, <2>1 DEF AltaOK, TenenciaOK, PcConMarco, Altas
<1>3. k \in Claves /\ ~EnTabla(k) /\ k[2] = PrimeraNueva(p) /\ k[1] = p
  <2>1. /\ PrimeraNueva(p) \in Nat /\ conf.tope[p] \in 0 .. MaxPaginas /\ MaxPaginas \in Nat
        /\ hilo[p].faltan \in Nat
    BY <1>1, ConfTipo, TablaTipo, Registro
  <2>2. PrimeraNueva(p) \in Ids
    BY <1>2, <2>1 DEF Ids
  <2>3. ~EnTabla(<<p, PrimeraNueva(p)>>)
    BY <2>1, TablaTipo
  <2>. QED
    BY <2>2, <2>3 DEF Claves, Nueva
<1>4. /\ tabla' = [tabla EXCEPT ![p] = Append(tabla[p], k[2])]
      /\ pag' = [pag EXCEPT ![k] = [frame |-> f, presencia |-> TRUE, modificado |-> TRUE,
                                    lock |-> FALSE, uso |-> TRUE]]
      /\ usos' = Usar(k) /\ Escribir(<<k>>, <<f>>)
      /\ UNCHANGED <<marco, mtxFrames, posClock, tlb, caido, Resto>> /\ OtroMas(p)
  BY DEF CrearPagina, Nueva
<1>. HIDE DEF k, f
<1>5. /\ tabla' \in [Procesos -> Seq(Ids)] /\ tabla'[p] = Append(tabla[p], k[2])
      /\ \A q \in Procesos : q # p => tabla'[q] = tabla[q]
  <2>1. Append(tabla[p], k[2]) \in Seq(Ids)
    BY <1>1, <1>3, TablaTipo, AppendProperties DEF Claves
  <2>. QED
    BY <1>1, <1>4, <2>1, Tipos
<1>6. ASSUME NEW l \in Claves  PROVE EnTabla(l)' <=> EnTabla(l) \/ l = k
  <2>1. ToSet(Append(tabla[p], k[2])) = ToSet(tabla[p]) \union {k[2]}
    BY <1>3, TablaTipo, MiembrosAppend DEF Claves
  <2>2. l = <<l[1], l[2]>> /\ k = <<k[1], k[2]>> /\ l[1] \in Procesos
    BY <1>3 DEF Claves
  <2>3. CASE l[1] = p
    BY <1>3, <1>5, <2>1, <2>2, <2>3 DEF EnTabla
  <2>4. CASE l[1] # p
    BY <1>3, <1>5, <2>2, <2>4 DEF EnTabla
  <2>. QED
    BY <2>3, <2>4
<1>7. /\ pag' \in [Claves -> TipoPagina]
      /\ pag'[k] = [frame |-> f, presencia |-> TRUE, modificado |-> TRUE, lock |-> FALSE,
                    uso |-> TRUE]
      /\ \A l \in Claves : l # k => pag'[l] = pag[l]
  <2>1. [frame |-> f, presencia |-> TRUE, modificado |-> TRUE, lock |-> FALSE, uso |-> TRUE]
          \in TipoPagina
    BY <1>2 DEF TipoPagina, f
  <2>. QED
    BY <1>1, <1>3, <1>4, <2>1, PaginaTipo
<1>8. ram \in [Marcos -> Claves \union {Nadie}] /\ enSwap \in [Claves -> BOOLEAN]
  BY <1>1, Tipos
<1>9. ASSUME NEW g \in Marcos
      PROVE  ram'[g] = IF g = f THEN k ELSE IF ram[g] = k THEN Nadie ELSE ram[g]
  <2>. DEFINE I == {i \in DOMAIN <<f>> : <<f>>[i] = g}
  <2>1. DOMAIN <<f>> = {1} /\ <<f>>[1] = f /\ ToSet(<<k>>) = {k} /\ <<k>>[1] = k
    BY DEF ToSet
  <2>2. ram'[g] = IF \E i \in DOMAIN <<f>> : <<f>>[i] = g THEN <<k>>[Max(I)]
                  ELSE IF ram[g] \in ToSet(<<k>>) THEN Nadie ELSE ram[g]
    BY <1>4 DEF Escribir
  <2>3. CASE g = f
    <3>1. I = {1}
      BY <2>1, <2>3
    <3>2. Max({1}) = 1
      BY DEF Max
    <3>3. \E i \in DOMAIN <<f>> : <<f>>[i] = g
      BY <2>1, <2>3
    <3>. HIDE DEF I
    <3>. QED
      BY <2>1, <2>2, <2>3, <3>1, <3>2, <3>3
  <2>4. CASE g # f
    <3>1. ~\E i \in DOMAIN <<f>> : <<f>>[i] = g
      BY <2>1, <2>4
    <3>. QED
      BY <2>1, <2>2, <2>4, <3>1
  <2>. QED
    BY <2>3, <2>4
<1>10. ram' \in [Marcos -> Claves \union {Nadie}]
  <2>1. \A g \in Marcos : ram'[g] \in Claves \union {Nadie}
    BY <1>3, <1>8, <1>9
  <2>2. ram' = [g \in Marcos |-> ram'[g]]
    BY <1>4 DEF Escribir
  <2>. QED
    BY <2>1, <2>2
<1>11. enSwap' \in [Claves -> BOOLEAN] /\ \A l \in Claves : enSwap'[l] <=> enSwap[l] /\ l # k
  <2>1. ToSet(<<k>>) = {k}
    BY DEF ToSet
  <2>. QED
    BY <1>4, <1>8, <2>1 DEF Escribir
<1>. QED
  BY <1>1, <1>2, <1>3, <1>4, <1>5, <1>6, <1>7, <1>9, <1>10, <1>11 DEF k, f

\* An id above the rest keeps the ids of a table in order, and without gaps if it follows.
LEMMA TablaCrece ==
  ASSUME Base, NEW p \in Procesos, NEW t, PrimeraNueva(p) \in Ids,
         t = Append(tabla[p], PrimeraNueva(p))
  PROVE  /\ DOMAIN t = 1 .. Len(tabla[p]) + 1 /\ Len(t) = Len(tabla[p]) + 1
         /\ \A i, j \in DOMAIN t : i < j => t[i] < t[j]
         /\ p \notin achicados => \A i \in DOMAIN t : t[i] = i - 1
         /\ t # <<>> /\ Last(t) = PrimeraNueva(p)
<1>. DEFINE n == Len(tabla[p])
<1>1. /\ tabla[p] \in Seq(Ids) /\ n \in Nat /\ DOMAIN tabla[p] = 1 .. n /\ PrimeraNueva(p) \in Nat
      /\ \A i \in 1 .. n : tabla[p][i] < PrimeraNueva(p)
      /\ tabla[p] = <<>> <=> n = 0
  BY TablaTipo
<1>2. /\ t \in Seq(Ids) /\ t # <<>> /\ Len(t) = n + 1 /\ t[n + 1] = PrimeraNueva(p)
      /\ \A i \in 1 .. n : t[i] = tabla[p][i]
  BY <1>1, AppendProperties
<1>3. DOMAIN t = 1 .. n + 1
  BY <1>2, LenProperties
<1>4. /\ \A i, j \in 1 .. n : i < j => tabla[p][i] < tabla[p][j]
      /\ p \notin achicados => \A i \in 1 .. n : tabla[p][i] = i - 1
  BY <1>1 DEF Base, TablasOK
<1>5. ASSUME NEW i \in 1 .. n + 1, NEW j \in 1 .. n + 1, i < j  PROVE t[i] < t[j]
  <2>1. i \in 1 .. n
    BY <1>1, <1>5
  <2>2. CASE j = n + 1
    BY <1>1, <1>2, <2>1, <2>2
  <2>3. CASE j # n + 1
    <3>1. j \in 1 .. n
      BY <1>1, <2>3
    <3>. QED
      BY <1>2, <1>4, <1>5, <2>1, <3>1
  <2>. QED
    BY <2>2, <2>3
<1>6. ASSUME p \notin achicados, NEW i \in 1 .. n + 1  PROVE t[i] = i - 1
  <2>1. CASE i = n + 1
    <3>1. PrimeraNueva(p) = n
      <4>1. CASE n = 0
        BY <1>1, <4>1 DEF PrimeraNueva
      <4>2. CASE n # 0
        <5>1. Last(tabla[p]) = n - 1
          BY <1>1, <1>4, <1>6, <4>2 DEF Last
        <5>. QED
          BY <1>1, <4>2, <5>1 DEF PrimeraNueva
      <4>. QED
        BY <4>1, <4>2
    <3>. QED
      BY <1>1, <1>2, <2>1, <3>1
  <2>2. CASE i # n + 1
    <3>1. i \in 1 .. n
      BY <1>1, <2>2
    <3>. QED
      BY <1>2, <1>4, <1>6, <3>1
  <2>. QED
    BY <2>1, <2>2
<1>7. Last(t) = PrimeraNueva(p)
  BY <1>2 DEF Last
<1>. QED
  BY <1>2, <1>3, <1>5, <1>6, <1>7

\* The new page keeps Base.
LEMMA CrearBase ==
  ASSUME Base, NEW p \in Procesos, CrearPagina(p)
  PROVE  Base'
<1>. DEFINE k == Nueva(p)
            f == hilo[p].fr
<1>1. /\ hilo[p].pc = "crear" /\ hilo[p].op = "memalloc" /\ f \in Marcos /\ hilo[p].faltan > 0
      /\ hilo[p].frs = <<>> /\ PrimeraNueva(p) + hilo[p].faltan <= conf.tope[p]
      /\ k \in Claves /\ ~EnTabla(k)
  BY CrearHace
<1>2. /\ tabla' \in [Procesos -> Seq(Ids)] /\ tabla'[p] = Append(tabla[p], k[2])
      /\ \A q \in Procesos : q # p => tabla'[q] = tabla[q]
      /\ \A l \in Claves : EnTabla(l)' <=> EnTabla(l) \/ l = k
  BY CrearHace
<1>3. /\ pag' \in [Claves -> TipoPagina]
      /\ pag'[k] = [frame |-> f, presencia |-> TRUE, modificado |-> TRUE, lock |-> FALSE,
                    uso |-> TRUE]
      /\ \A l \in Claves : l # k => pag'[l] = pag[l]
      /\ ram' \in [Marcos -> Claves \union {Nadie}] /\ enSwap' \in [Claves -> BOOLEAN]
  BY CrearHace
<1>4. /\ usos' \in Seq(Claves) /\ ToSet(usos) \subseteq ToSet(usos')
      /\ conf.mmu = "LRU" => k \in ToSet(usos')
  BY <1>1, CrearHace, UsarTipo DEF Base
<1>5. /\ conf' = conf /\ marco' = marco /\ mtxFrames' = mtxFrames /\ posClock' = posClock
      /\ tlb' = tlb /\ suspendidos' = suspendidos /\ caido' = caido
      /\ manchados' = manchados /\ robados' = robados /\ achicados' = achicados
  BY CrearHace DEF Resto, historia
<1>6. OtroMas(p) /\ TypeOK /\ TablasOK /\ ReposoOK(p) /\ AltaOK(p) /\ TenenciaOK(p)
      /\ PrimeraNueva(p) \in Nat /\ k[2] = PrimeraNueva(p) /\ PrimeraNueva(p) \in Ids
  BY <1>1, CrearHace, TablaTipo DEF Base, HilosOK, Nueva, Claves
<1>7. \/ hilo[p].faltan = 1 /\ hilo'[p] = Libre
      \/ /\ hilo[p].faltan > 1
         /\ Queda(p, "pedir", hilo[p].op, hilo[p].pags, hilo[p].frs, hilo[p].faltan - 1,
                  SinMarco, hilo[p].vic)
  BY <1>1, <1>6, OtroMasHace
<1>8. hilo' \in [Procesos -> TipoHilo] /\ \A q \in Procesos \ {p} : hilo'[q] = hilo[q]
  BY <1>1, <1>6, OtroMasHace DEF Queda
<1>. HIDE DEF k, f
<1>9. SoloDe(p)
  BY <1>2, <1>5, <1>8 DEF SoloDe
<1>10. TypeOK'
  BY <1>2, <1>3, <1>4, <1>5, <1>6, <1>8, Tipos, TiposTras
<1>11. Marcos' = Marcos
  BY <1>5 DEF Marcos
<1>12. \A l \in Claves : pag[l].frame \in Marcos => pag'[l].frame \in Marcos
  BY <1>1, <1>3
<1>13. TablasOK'
  <2>1. /\ \A i, j \in DOMAIN tabla'[p] : i < j => tabla'[p][i] < tabla'[p][j]
        /\ p \notin achicados => \A i \in DOMAIN tabla'[p] : tabla'[p][i] = i - 1
    BY <1>2, <1>6, TablaCrece
  <2>2. \A q \in Procesos : \A i, j \in DOMAIN tabla'[q] : i < j => tabla'[q][i] < tabla'[q][j]
    BY <1>2, <1>6, <2>1 DEF TablasOK
  <2>3. \A q \in Procesos \ achicados : \A i \in DOMAIN tabla'[q] : tabla'[q][i] = i - 1
    BY <1>2, <1>6, <2>1 DEF TablasOK
  <2>4. \A l \in Claves : pag'[l].presencia \/ EnTabla(l)' => pag'[l].frame \in Marcos
    BY <1>1, <1>2, <1>3, <1>6 DEF TablasOK
  <2>5. conf.mmu = "LRU" => PaginasEnTablas' \subseteq ToSet(usos')
    BY <1>2, <1>4, <1>6 DEF TablasOK, PaginasEnTablas
  <2>. QED
    BY <1>5, <1>11, <2>2, <2>3, <2>4, <2>5 DEF TablasOK
<1>14. HiloOK(p)'
  <2>1. CASE hilo'[p] = Libre
    BY <1>5, <1>6, <2>1, LibreOK
  <2>2. CASE /\ hilo[p].faltan > 1
             /\ Queda(p, "pedir", hilo[p].op, hilo[p].pags, hilo[p].frs, hilo[p].faltan - 1,
                      SinMarco, hilo[p].vic)
    <3>1. PrimeraNueva(p)' = PrimeraNueva(p) + 1 /\ tabla'[p] # <<>>
      BY <1>2, <1>6, TablaCrece DEF PrimeraNueva
    <3>2. hilo[p].faltan \in Nat /\ Fija' = Fija
      BY <1>5, <1>6, Registro DEF Fija
    <3>3. ReposoOK(p)'
      BY <1>1, <1>5, <1>6, <2>2 DEF ReposoOK, PcReposo, Accesos, Altas, Queda
    <3>4. AltaOK(p)'
      <4>1. conf.tope[p] \in Nat
        BY <1>6, ConfTipo
      <4>2. hilo[p].faltan - 1 > 0
            /\ (PrimeraNueva(p) + 1) + (hilo[p].faltan - 1) <= conf.tope[p]
        BY <1>1, <1>6, <2>2, <3>2, <4>1
      <4>. QED
        BY <1>1, <1>5, <2>2, <3>1, <3>2, <4>2 DEF AltaOK, Altas, PcAlta, Queda
    <3>5. AccesoOK(p)'
      BY <1>1, <2>2 DEF AccesoOK, Accesos, Queda
    <3>6. TenenciaOK(p)'
      BY <1>6, <1>11, <2>2, MarcosTipo DEF TenenciaOK, PcConMarco, Queda
    <3>. QED
      BY <3>3, <3>4, <3>5, <3>6 DEF HiloOK
  <2>. QED
    BY <1>7, <2>1, <2>2
<1>. QED
  BY <1>9, <1>10, <1>12, <1>13, <1>14, BaseTras

\* dessuspender_proceso forgets the frame.
LEMMA OlvidarBase ==
  ASSUME Base, NEW p \in Procesos, OlvidarMarco(p)
  PROVE  Base'
<1>1. /\ UNCHANGED <<marco, tablas, posClock, datos, tlb, historia>>
      /\ conf' = conf /\ suspendidos' = suspendidos /\ caido' = caido /\ tabla' = tabla
      /\ mtxFrames' = mtxFrames
  BY DEF OlvidarMarco, Resto, tablas
<1>2. /\ hilo[p].pc = "crear" /\ hilo[p].op = "volver" /\ OtroMas(p)
      /\ TypeOK /\ ReposoOK(p) /\ AltaOK(p) /\ TenenciaOK(p)
  BY DEF OlvidarMarco, En, Base, HilosOK
<1>3. hilo[p].faltan > 0
  BY <1>2 DEF AltaOK, Altas
<1>4. \/ hilo'[p] = Libre
      \/ /\ hilo[p].faltan > 1
         /\ Queda(p, "pedir", hilo[p].op, hilo[p].pags, hilo[p].frs, hilo[p].faltan - 1,
                  SinMarco, hilo[p].vic)
  BY <1>2, <1>3, OtroMasHace
<1>5. hilo' \in [Procesos -> TipoHilo] /\ \A q \in Procesos \ {p} : hilo'[q] = hilo[q]
  BY <1>2, <1>3, OtroMasHace DEF Queda
<1>6. HiloOK(p)'
  <2>1. CASE hilo'[p] = Libre
    BY <1>1, <1>2, <2>1, LibreOK
  <2>2. CASE /\ hilo[p].faltan > 1
             /\ Queda(p, "pedir", hilo[p].op, hilo[p].pags, hilo[p].frs, hilo[p].faltan - 1,
                      SinMarco, hilo[p].vic)
    <3>1. Marcos' = Marcos /\ Fija' = Fija
      BY <1>1 DEF Marcos, Fija
    <3>2. ReposoOK(p)'
      BY <1>1, <1>2, <2>2 DEF ReposoOK, PcReposo, Accesos, Altas, Queda
    <3>3. AltaOK(p)'
      <4>1. hilo[p].faltan \in Nat
        BY <1>2, Registro
      <4>2. hilo[p].faltan - 1 > 0
        BY <2>2, <4>1
      <4>. QED
        BY <1>1, <1>2, <2>2, <3>1, <4>2 DEF AltaOK, Altas, PcAlta, Queda
    <3>4. AccesoOK(p)'
      BY <1>2, <2>2 DEF AccesoOK, Accesos, Queda
    <3>5. TenenciaOK(p)'
      BY <1>2, <2>2, <3>1, MarcosTipo DEF TenenciaOK, PcConMarco, Queda
    <3>. QED
      BY <3>2, <3>3, <3>4, <3>5 DEF HiloOK
  <2>. QED
    BY <1>4, <2>1, <2>2
<1>7. SoloDe(p)
  BY <1>1, <1>5 DEF SoloDe
<1>. QED
  BY <1>1, <1>2, <1>5, <1>6, <1>7, Tipos, SoloHilo

-----------------------------------------------------------------------------
\* Replacement.

\* Division of a number by its quotient and its remainder.
LEMMA Division ==
  ASSUME NEW n \in Nat \ {0}, NEW r \in 0 .. n - 1, NEW q \in Nat, NEW x, x = q * n + r
  PROVE  x % n = r /\ x \div n = q
OBVIOUS

\* The pages a victim is chosen from are finitely many, and in a frame.
LEMMA CandidatasTipo ==
  ASSUME Base, NEW p \in Procesos
  PROVE  /\ IsFiniteSet(Claves) /\ IsFiniteSet(Candidatas(p)) /\ Candidatas(p) \subseteq Claves
         /\ \A k \in Candidatas(p) :
               /\ EnTabla(k) /\ pag[k].presencia /\ ~pag[k].lock
               /\ Fija => k[1] = p
               /\ pag[k].frame \in Marcos
               /\ [c \in Candidatas(p) |-> pag[c].frame][k] \in Nat
<1>1. IsFiniteSet(Claves)
  <2>1. IsFiniteSet(Ids)
    BY PaginasAssumption, FS_Interval DEF Ids
  <2>. QED
    BY <2>1, PaginasAssumption, FS_Product DEF Claves
<1>2. Candidatas(p) \subseteq Claves
  BY DEF Candidatas, PaginasEnTablas
<1>3. IsFiniteSet(Candidatas(p))
  BY <1>1, <1>2, FS_Subset
<1>4. ASSUME NEW k \in Candidatas(p)
      PROVE  /\ EnTabla(k) /\ pag[k].presencia /\ ~pag[k].lock /\ (Fija => k[1] = p)
             /\ pag[k].frame \in Marcos
  <2>1. /\ EnTabla(k) /\ pag[k].presencia /\ ~pag[k].lock /\ (Fija => k[1] = p) /\ k \in Claves
    BY DEF Candidatas, PaginasEnTablas
  <2>. QED
    BY <2>1 DEF Base, TablasOK
<1>5. Marcos \subseteq Nat
  BY MarcosTipo DEF Base
<1>. QED
  BY <1>1, <1>2, <1>3, <1>4, <1>5

\* LRU: the first of usos that can be taken.
LEMMA MenosUsadaTipo ==
  ASSUME Base, NEW p \in Procesos, conf.mmu = "LRU", Candidatas(p) # {}
  PROVE  MenosUsada(Candidatas(p)) \in Candidatas(p)
<1>. DEFINE I == {i \in DOMAIN usos : usos[i] \in Candidatas(p)}
<1>1. usos \in Seq(Claves) /\ DOMAIN usos \subseteq Nat
  <2>1. usos \in Seq(Claves)
    BY Tipos DEF Base
  <2>. QED
    BY <2>1, LenProperties
<1>2. PICK k \in Candidatas(p) : k \in ToSet(usos)
  BY DEF Base, TablasOK, Candidatas
<1>3. I # {} /\ I \subseteq Nat
  BY <1>1, <1>2 DEF ToSet
<1>4. Min(I) \in I
  <2>. HIDE DEF I
  <2>. QED
    BY <1>3, MinimoExiste
<1>. QED
  BY <1>4 DEF MenosUsada

\* CLOCK-M goes over all the candidates.
LEMMA PorMarcoTipo ==
  ASSUME Base, NEW p \in Procesos, Candidatas(p) # {}, NEW lista, lista = PorMarco(Candidatas(p))
  PROVE  /\ Len(lista) \in Nat \ {0}
         /\ lista \in [1 .. Len(lista) -> Candidatas(p)]
         /\ \A k \in Candidatas(p) : \E i \in 1 .. Len(lista) : lista[i] = k
<1>. DEFINE ks == Candidatas(p)
            clave == [k \in ks |-> pag[k].frame]
<1>1. IsFiniteSet(ks) /\ \A k \in ks : clave[k] \in Nat
  BY CandidatasTipo
<1>2. lista = EnOrden(ks, clave)
  BY DEF PorMarco
<1>. HIDE DEF clave, ks
<1>3. /\ Cardinality(ks) \in Nat /\ EnOrden(ks, clave) \in [1 .. Cardinality(ks) -> ks]
      /\ Len(EnOrden(ks, clave)) = Cardinality(ks)
      /\ \A k \in ks : \E i \in 1 .. Cardinality(ks) : EnOrden(ks, clave)[i] = k
  BY <1>1, EnOrdenTipo, EnOrdenTodos
<1>4. Cardinality(ks) # 0
  BY <1>1, FS_EmptySet DEF ks
<1>. QED
  BY <1>2, <1>3, <1>4 DEF ks

\* Visit number u of turn t.
Visita(n, t, u) == (t - 1) * n + u

\* A candidate is looked at in turn t.
EnVuelta(lista, k, t) ==
    \E v \in 1 .. 4 * Len(lista) : Visitada(lista, v) = k /\ Vuelta(lista, v) = t

\* It looks at a place that depends on u only.
LEMMA VisitaDe ==
  ASSUME NEW lista, Len(lista) \in Nat \ {0}, posClock \in Nat,
         NEW t \in 1 .. 4, NEW u \in 1 .. Len(lista), NEW v, v = Visita(Len(lista), t, u)
  PROVE  /\ v \in 1 .. 4 * Len(lista)
         /\ Vuelta(lista, v) = t
         /\ LugarDeVisita(lista, v) = IF Desde(lista) + u - 1 < Len(lista)
                                      THEN Desde(lista) + u - 1
                                      ELSE Desde(lista) + u - 1 - Len(lista)
<1>. DEFINE n == Len(lista)
            d == Desde(lista)
<1>1. n \in Nat \ {0} /\ d \in 0 .. n - 1
  BY DEF Desde
<1>. HIDE DEF d
<1>2. v = (t - 1) * n + u /\ u \in 1 .. n
  BY DEF Visita
<1>. HIDE DEF n
<1>3. t = 1 \/ t = 2 \/ t = 3 \/ t = 4
  OBVIOUS
<1>4. v \in 1 .. 4 * n
  BY <1>1, <1>2, <1>3
<1>5. (v - 1) \div n + 1 = t
  <2>1. t - 1 \in Nat /\ u - 1 \in 0 .. n - 1 /\ v - 1 = (t - 1) * n + (u - 1)
    BY <1>1, <1>2, <1>3
  <2>. DEFINE x == v - 1
              q == t - 1
              r == u - 1
  <2>2. x \div n = q
    <3>1. n \in Nat \ {0} /\ r \in 0 .. n - 1 /\ q \in Nat /\ x = q * n + r
      BY <1>1, <2>1
    <3>. HIDE DEF x, q, r
    <3>. QED
      BY <3>1, Division
  <2>. QED
    BY <2>2, <1>3
<1>6. CASE d + u - 1 < n
  <2>1. t - 1 \in Nat /\ d + u - 1 \in 0 .. n - 1 /\ d + v - 1 = (t - 1) * n + (d + u - 1)
    BY <1>1, <1>2, <1>3, <1>6
  <2>. DEFINE x == d + v - 1
              q == t - 1
              r == d + u - 1
  <2>2. x % n = r
    <3>1. n \in Nat \ {0} /\ r \in 0 .. n - 1 /\ q \in Nat /\ x = q * n + r
      BY <1>1, <2>1
    <3>. HIDE DEF x, q, r
    <3>. QED
      BY <3>1, Division
  <2>. QED
    BY <1>4, <1>5, <1>6, <2>2 DEF n, d, Vuelta, LugarDeVisita
<1>7. CASE ~(d + u - 1 < n)
  <2>1. t \in Nat /\ d + u - 1 - n \in 0 .. n - 1 /\ d + v - 1 = t * n + (d + u - 1 - n)
    BY <1>1, <1>2, <1>3, <1>7
  <2>. DEFINE x == d + v - 1
              r == d + u - 1 - n
  <2>2. x % n = r
    <3>1. n \in Nat \ {0} /\ r \in 0 .. n - 1 /\ t \in Nat /\ x = t * n + r
      BY <1>1, <2>1
    <3>. HIDE DEF x, r
    <3>. QED
      BY <3>1, Division
  <2>. QED
    BY <1>4, <1>5, <1>7, <2>2 DEF n, d, Vuelta, LugarDeVisita
<1>. QED
  BY <1>6, <1>7

\* Every visit is one of a turn.
LEMMA VisitaEs ==
  ASSUME NEW n \in Nat \ {0}, NEW v \in 1 .. 4 * n
  PROVE  \E t \in 1 .. 4 : \E u \in 1 .. n : v = Visita(n, t, u)
<1>1. CASE v <= n
  <2>1. v \in 1 .. n /\ v = (1 - 1) * n + v
    BY <1>1
  <2>. QED
    BY <2>1 DEF Visita
<1>2. CASE n < v /\ v <= 2 * n
  <2>1. v - n \in 1 .. n /\ v = (2 - 1) * n + (v - n)
    BY <1>2
  <2>. QED
    BY <2>1 DEF Visita
<1>3. CASE 2 * n < v /\ v <= 3 * n
  <2>1. v - 2 * n \in 1 .. n /\ v = (3 - 1) * n + (v - 2 * n)
    BY <1>3
  <2>. QED
    BY <2>1 DEF Visita
<1>4. CASE 3 * n < v
  <2>1. v - 3 * n \in 1 .. n /\ v = (4 - 1) * n + (v - 3 * n)
    BY <1>4
  <2>. QED
    BY <2>1 DEF Visita
<1>. QED
  BY <1>1, <1>2, <1>3, <1>4

\* In each turn there is a visit to each candidate, and every visit is to one.
LEMMA CadaVuelta ==
  ASSUME Base, NEW p \in Procesos, Candidatas(p) # {}, NEW lista, lista = PorMarco(Candidatas(p))
  PROVE  /\ \A k \in Candidatas(p), t \in 1 .. 4 : EnVuelta(lista, k, t)
         /\ \A v \in 1 .. 4 * Len(lista) :
               /\ Visitada(lista, v) \in Candidatas(p) /\ Vuelta(lista, v) \in 1 .. 4
               /\ LugarDeVisita(lista, v) \in Nat
         /\ \A v, w \in 1 .. 4 * Len(lista) : Vuelta(lista, v) < Vuelta(lista, w) => v < w
<1>. DEFINE n == Len(lista)
            d == Desde(lista)
            lugar(u) == IF d + u - 1 < n THEN d + u - 1 ELSE d + u - 1 - n
<1>1. /\ n \in Nat \ {0} /\ lista \in [1 .. n -> Candidatas(p)]
      /\ \A k \in Candidatas(p) : \E i \in 1 .. n : lista[i] = k
      /\ posClock \in Nat
  <2>1. posClock \in Nat
    BY Tipos DEF Base
  <2>2. /\ Len(lista) \in Nat \ {0} /\ lista \in [1 .. Len(lista) -> Candidatas(p)]
        /\ \A k \in Candidatas(p) : \E i \in 1 .. Len(lista) : lista[i] = k
    BY PorMarcoTipo
  <2>. QED
    BY <2>1, <2>2
<1>2. d \in 0 .. n - 1
  BY <1>1 DEF Desde
<1>3. \A t \in 1 .. 4, u \in 1 .. n :
         /\ Visita(n, t, u) \in 1 .. 4 * n
         /\ Vuelta(lista, Visita(n, t, u)) = t
         /\ LugarDeVisita(lista, Visita(n, t, u)) = lugar(u)
  BY <1>1, VisitaDe
<1>. HIDE DEF d, n
<1>4. \A u \in 1 .. n : lugar(u) \in 0 .. n - 1
  BY <1>1, <1>2
<1>5. ASSUME NEW k \in Candidatas(p), NEW t \in 1 .. 4
      PROVE  EnVuelta(lista, k, t)
  <2>1. PICK i \in 1 .. n : lista[i] = k
    BY <1>1
  <2>2. PICK u \in 1 .. n : lugar(u) = i - 1
    <3>1. CASE d <= i - 1
      <4>1. i - d \in 1 .. n /\ lugar(i - d) = i - 1
        BY <1>1, <1>2, <2>1, <3>1
      <4>. QED
        BY <4>1
    <3>2. CASE ~(d <= i - 1)
      <4>1. i - d + n \in 1 .. n /\ lugar(i - d + n) = i - 1
        BY <1>1, <1>2, <2>1, <3>2
      <4>. QED
        BY <4>1
    <3>. QED
      BY <3>1, <3>2
  <2>. DEFINE v == Visita(n, t, u)
  <2>3. v \in 1 .. 4 * n /\ Vuelta(lista, v) = t /\ LugarDeVisita(lista, v) = i - 1
    BY <1>3, <2>2
  <2>. HIDE DEF v
  <2>4. Visitada(lista, v) = lista[i]
    <3>1. (i - 1) + 1 = i
      BY <1>1, <2>1
    <3>. QED
      BY <2>3, <3>1 DEF Visitada
  <2>. QED
    BY <2>1, <2>3, <2>4 DEF EnVuelta, n
<1>6. ASSUME NEW v \in 1 .. 4 * n
      PROVE  /\ Visitada(lista, v) \in Candidatas(p) /\ Vuelta(lista, v) \in 1 .. 4
             /\ LugarDeVisita(lista, v) \in Nat
  <2>1. PICK t \in 1 .. 4 : \E u \in 1 .. n : v = Visita(n, t, u)
    BY <1>1, VisitaEs
  <2>2. PICK u \in 1 .. n : v = Visita(n, t, u)
    BY <2>1
  <2>3. Vuelta(lista, v) = t /\ LugarDeVisita(lista, v) = lugar(u) /\ lugar(u) \in 0 .. n - 1
    BY <1>3, <1>4, <2>2
  <2>. HIDE DEF lugar
  <2>4. LugarDeVisita(lista, v) + 1 \in 1 .. n /\ LugarDeVisita(lista, v) \in Nat
    BY <1>1, <2>3
  <2>5. Visitada(lista, v) \in Candidatas(p)
    BY <1>1, <2>4 DEF Visitada
  <2>. QED
    BY <2>3, <2>4, <2>5
<1>7. ASSUME NEW v \in 1 .. 4 * n, NEW w \in 1 .. 4 * n, Vuelta(lista, v) < Vuelta(lista, w)
      PROVE  v < w
  <2>1. PICK t \in 1 .. 4 : \E u \in 1 .. n : v = Visita(n, t, u)
    BY <1>1, VisitaEs
  <2>2. PICK u \in 1 .. n : v = Visita(n, t, u)
    BY <2>1
  <2>3. PICK s \in 1 .. 4 : \E x \in 1 .. n : w = Visita(n, s, x)
    BY <1>1, VisitaEs
  <2>4. PICK x \in 1 .. n : w = Visita(n, s, x)
    BY <2>3
  <2>5. t < s
    BY <1>3, <1>7, <2>2, <2>4
  <2>6. (t - 1) * n + u <= (t - 1) * n + n /\ (t - 1) * n + n = t * n /\ t * n <= (s - 1) * n
        /\ (s - 1) * n < (s - 1) * n + x
    <3>1. t \in {1, 2, 3, 4} /\ s \in {1, 2, 3, 4}
      OBVIOUS
    <3>. QED
      BY <1>1, <2>5, <3>1
  <2>. QED
    BY <1>1, <2>2, <2>4, <2>6 DEF Visita
<1>. QED
  BY <1>5, <1>6, <1>7 DEF n

\* Whom a turn serves: of class c, turn c + 1 and, of the first two, the second after it.
LEMMA QuienSirve ==
  ASSUME Base, NEW lista, NEW v, Visitada(lista, v) \in Claves, Vuelta(lista, v) \in 1 .. 4
  PROVE  /\ Clase(Visitada(lista, v)) \in 0 .. 3
         /\ Vuelta(lista, v) = Clase(Visitada(lista, v)) + 1 => Sirve(lista, v)
         /\ Sirve(lista, v) => Vuelta(lista, v) >= Clase(Visitada(lista, v)) + 1
<1>. DEFINE k == Visitada(lista, v)
            t == Vuelta(lista, v)
<1>1. pag[k].uso \in BOOLEAN /\ pag[k].modificado \in BOOLEAN
  BY PaginaCampos DEF Base
<1>2. Sirve(lista, v) <=> /\ t <= 2 => ~pag[k].uso
                          /\ pag[k].modificado = (t % 2 = 0)
  BY DEF Sirve
<1>3. Clase(k) = (IF pag[k].uso THEN 2 ELSE 0) + (IF pag[k].modificado THEN 1 ELSE 0)
  BY DEF Clase
<1>4. t \in 1 .. 4
  OBVIOUS
<1>. HIDE DEF k, t
<1>5. t = 1 \/ t = 2 \/ t = 3 \/ t = 4
  BY <1>4
<1>6. (t % 2 = 0) <=> (t = 2 \/ t = 4)
  BY <1>5
<1>7. Clase(k) \in 0 .. 3
  BY <1>3
<1>8. /\ t = Clase(k) + 1 => Sirve(lista, v)
      /\ Sirve(lista, v) => t >= Clase(k) + 1
  BY <1>1, <1>2, <1>3, <1>5, <1>6
<1>. QED
  BY <1>7, <1>8 DEF k, t

\* The search ends, at a page of the best class there is.
LEMMA UltimaVisitaTipo ==
  ASSUME Base, NEW p \in Procesos, Candidatas(p) # {}, NEW lista, lista = PorMarco(Candidatas(p)),
         NEW t, t = UltimaVisita(lista)
  PROVE  /\ t \in 1 .. 4 * Len(lista)
         /\ Visitada(lista, t) \in Candidatas(p)
         /\ LugarDeVisita(lista, t) \in Nat
         /\ \A k \in Candidatas(p) : Clase(Visitada(lista, t)) <= Clase(k)
<1>. DEFINE n == Len(lista)
            V == {v \in 1 .. 4 * n : Sirve(lista, v)}
<1>1. n \in Nat \ {0} /\ Candidatas(p) \subseteq Claves
  BY PorMarcoTipo, CandidatasTipo
<1>2. /\ \A k \in Candidatas(p), s \in 1 .. 4 : EnVuelta(lista, k, s)
      /\ \A v \in 1 .. 4 * n :
            /\ Visitada(lista, v) \in Candidatas(p) /\ Vuelta(lista, v) \in 1 .. 4
            /\ LugarDeVisita(lista, v) \in Nat
      /\ \A v, w \in 1 .. 4 * n : Vuelta(lista, v) < Vuelta(lista, w) => v < w
  BY CadaVuelta
<1>. HIDE DEF n
<1>3. \A v \in 1 .. 4 * n :
         /\ Clase(Visitada(lista, v)) \in 0 .. 3
         /\ Vuelta(lista, v) = Clase(Visitada(lista, v)) + 1 => Sirve(lista, v)
         /\ Sirve(lista, v) => Vuelta(lista, v) >= Clase(Visitada(lista, v)) + 1
  BY <1>1, <1>2, QuienSirve
<1>4. \A k \in Candidatas(p) : \E v \in 1 .. 4 * n :
         Visitada(lista, v) = k /\ Vuelta(lista, v) = Clase(k) + 1 /\ Sirve(lista, v)
         /\ Clase(k) \in 0 .. 3
  <2>1. SUFFICES ASSUME NEW k \in Candidatas(p)
                 PROVE  \E v \in 1 .. 4 * n :
                          Visitada(lista, v) = k /\ Vuelta(lista, v) = Clase(k) + 1
                          /\ Sirve(lista, v) /\ Clase(k) \in 0 .. 3
    OBVIOUS
  <2>2. PICK w \in 1 .. 4 * n : Visitada(lista, w) = k
    <3>1. EnVuelta(lista, k, 1)
      BY <1>2
    <3>. QED
      BY <3>1 DEF EnVuelta, n
  <2>3. Clase(k) \in 0 .. 3 /\ Clase(k) + 1 \in 1 .. 4
    BY <1>3, <2>2
  <2>4. PICK v \in 1 .. 4 * n : Visitada(lista, v) = k /\ Vuelta(lista, v) = Clase(k) + 1
    <3>1. EnVuelta(lista, k, Clase(k) + 1)
      BY <1>2, <2>3
    <3>. QED
      BY <3>1 DEF EnVuelta, n
  <2>. QED
    BY <1>3, <2>3, <2>4
<1>5. V # {} /\ V \subseteq Nat
  BY <1>1, <1>4
<1>6. Min(V) \in V /\ \A v \in V : Min(V) <= v
  <2>. HIDE DEF V
  <2>. QED
    BY <1>5, MinimoExiste
<1>7. \E v \in 1 .. 4 * n : Sirve(lista, v) /\ \A u \in 1 .. v - 1 : ~Sirve(lista, u)
  <2>1. ASSUME NEW u \in 1 .. Min(V) - 1  PROVE ~Sirve(lista, u)
    <3>1. u \in 1 .. 4 * n /\ ~(Min(V) <= u)
      BY <1>1, <1>6
    <3>. QED
      BY <1>6, <3>1
  <2>. QED
    BY <1>6, <2>1
<1>8. t \in 1 .. 4 * n /\ Sirve(lista, t) /\ \A u \in 1 .. t - 1 : ~Sirve(lista, u)
  BY <1>7 DEF UltimaVisita, n
<1>9. ASSUME NEW k \in Candidatas(p)  PROVE Clase(Visitada(lista, t)) <= Clase(k)
  <2>1. PICK v \in 1 .. 4 * n :
          Visitada(lista, v) = k /\ Vuelta(lista, v) = Clase(k) + 1 /\ Sirve(lista, v)
          /\ Clase(k) \in 0 .. 3
    BY <1>4
  <2>2. ~(v < t)
    BY <1>1, <1>8, <2>1
  <2>3. ~(Vuelta(lista, v) < Vuelta(lista, t))
    BY <1>2, <1>8, <2>2
  <2>4. Vuelta(lista, t) >= Clase(Visitada(lista, t)) + 1 /\ Clase(Visitada(lista, t)) \in 0 .. 3
        /\ Vuelta(lista, t) \in 1 .. 4
    BY <1>2, <1>3, <1>8
  <2>. QED
    BY <2>1, <2>3, <2>4
<1>. QED
  BY <1>2, <1>8, <1>9 DEF n

\* What a step of a request that goes on needs, to keep Base: it writes pages, frames,
\* contents and TLB, and its own thread, and no table.
LEMMA SigueBase ==
  ASSUME Base, NEW p \in Procesos, NEW pc, NEW frs, NEW fr, NEW vic,
         Queda(p, pc, hilo[p].op, hilo[p].pags, frs, hilo[p].faltan, fr, vic),
         UNCHANGED <<tabla, Resto>>,
         marco' \in [Marcos -> TipoMarco], mtxFrames' \in Procesos \union {Nadie},
         pag' \in [Claves -> TipoPagina], usos' \in Seq(Claves), posClock' \in Nat,
         ram' \in [Marcos -> Claves \union {Nadie}], enSwap' \in [Claves -> BOOLEAN],
         tlb' \in Seq(TipoEntrada), caido' \in Causas,
         ToSet(usos) \subseteq ToSet(usos'),
         \A k \in Claves : pag[k].frame \in Marcos \/ pag'[k].presencia => pag'[k].frame \in Marcos,
         hilo[p].op \in Altas \union Accesos,
         hilo[p].op \in Altas =>
            /\ pc \in PcAlta \ {"reservar", "tomar"} /\ frs = <<>>,
         hilo[p].op \in Accesos =>
            /\ pc \in PcAcceso
            /\ IF pc \in {"copiar", "quitar"}
               THEN Len(frs) = Len(hilo[p].pags) /\ (pc = "quitar" <=> hilo[p].op = "liberar")
               ELSE Len(frs) < Len(hilo[p].pags),
         fr \in Marcos <=> pc \in PcConMarco,
         pc \in {"expulsar", "soltar"} =>
            /\ vic \in Claves /\ pag'[vic].frame \in Marcos
            /\ Fija => vic[1] = p /\ EnTabla(vic)
  PROVE  Base'
<1>1. /\ conf' = conf /\ tabla' = tabla /\ suspendidos' = suspendidos
      /\ manchados' = manchados /\ robados' = robados /\ achicados' = achicados
  BY DEF Resto, historia
<1>2. TypeOK /\ TablasOK /\ ReposoOK(p) /\ AltaOK(p) /\ AccesoOK(p) /\ TenenciaOK(p)
  BY DEF Base, HilosOK
<1>3. /\ hilo'[p].pc = pc /\ hilo'[p].op = hilo[p].op /\ hilo'[p].pags = hilo[p].pags
      /\ hilo'[p].frs = frs /\ hilo'[p].faltan = hilo[p].faltan /\ hilo'[p].fr = fr
      /\ hilo'[p].vic = vic /\ \A q \in Procesos \ {p} : hilo'[q] = hilo[q]
      /\ hilo' \in [Procesos -> TipoHilo]
  BY DEF Queda
<1>4. TypeOK'
  BY <1>1, <1>2, <1>3, Tipos, TiposTras
<1>5. Marcos' = Marcos /\ Fija' = Fija /\ PrimeraNueva(p)' = PrimeraNueva(p)
      /\ \A k : EnTabla(k)' <=> EnTabla(k)
  BY <1>1 DEF Marcos, Fija, PrimeraNueva, EnTabla
<1>6. TablasOK'
  <2>1. PaginasEnTablas' = PaginasEnTablas
    BY <1>5 DEF PaginasEnTablas
  <2>2. \A k \in Claves : pag'[k].presencia \/ EnTabla(k) => pag'[k].frame \in Marcos
    BY <1>2 DEF TablasOK
  <2>. QED
    BY <1>1, <1>2, <1>5, <2>1, <2>2 DEF TablasOK
<1>7. HiloOK(p)'
  <2>1. ReposoOK(p)'
    BY <1>1, <1>2, <1>3
       DEF ReposoOK, PcReposo, Accesos, Altas, PcAlta, PcAcceso
  <2>2. AltaOK(p)'
    BY <1>1, <1>2, <1>3, <1>5 DEF AltaOK, Altas, PcAlta
  <2>3. AccesoOK(p)'
    BY <1>1, <1>2, <1>3, <1>5 DEF AccesoOK
  <2>4. TenenciaOK(p)'
    BY <1>3, <1>5 DEF TenenciaOK
  <2>. QED
    BY <2>1, <2>2, <2>3, <2>4 DEF HiloOK
<1>8. SoloDe(p)
  BY <1>1, <1>3 DEF SoloDe
<1>. QED
  BY <1>4, <1>6, <1>7, <1>8, BaseTras

\* Who replaces asks for frames or looks for a page, and has no frame yet.
LEMMA QuienReemplaza ==
  ASSUME Base, NEW p \in Procesos, hilo[p].pc \in {"elegir", "expulsar", "soltar"}
  PROVE  /\ hilo[p].op \in Altas \union Accesos /\ hilo[p].fr = SinMarco
         /\ hilo[p].op \in Altas => hilo[p].frs = <<>>
         /\ hilo[p].op \in Accesos => Len(hilo[p].frs) < Len(hilo[p].pags)
         /\ Creando(p) <=> hilo[p].op \in Altas
<1>1. ReposoOK(p) /\ AltaOK(p) /\ AccesoOK(p) /\ TenenciaOK(p) /\ TypeOK
  BY DEF Base, HilosOK
<1>2. hilo[p].op \in Altas \union Accesos
  BY <1>1 DEF ReposoOK, PcReposo
<1>3. hilo[p].fr = SinMarco
  BY <1>1, Registro DEF TenenciaOK, PcConMarco
<1>4. hilo[p].op \in Altas => hilo[p].frs = <<>>
  BY <1>1 DEF AltaOK
<1>5. hilo[p].op \in Accesos => Len(hilo[p].frs) < Len(hilo[p].pags)
  BY <1>1 DEF AccesoOK
<1>. QED
  BY <1>2, <1>3, <1>4, <1>5 DEF Creando, Altas, Accesos

\* Some candidate is chosen; with CLOCK-M one of the best class, and the bits of use of those
\* looked at may be cleared.
LEMMA ElegirHace ==
  ASSUME Base, NEW p \in Procesos, ElegirVictima(p)
  PROVE  /\ hilo[p].pc = "elegir" /\ caido = "no"
         /\ \E k \in Candidatas(p) :
               /\ Queda(p, "expulsar", hilo[p].op, hilo[p].pags, hilo[p].frs, hilo[p].faltan,
                        hilo[p].fr, k)
               /\ conf.mmu = "CLOCK-M" => \A l \in Candidatas(p) : Clase(k) <= Clase(l)
         /\ pag' \in [Claves -> TipoPagina]
         /\ \A k \in Claves :
               /\ pag'[k].frame = pag[k].frame /\ pag'[k].presencia = pag[k].presencia
               /\ pag'[k].modificado = pag[k].modificado /\ pag'[k].lock = pag[k].lock
         /\ posClock' \in Nat
         /\ UNCHANGED <<marco, mtxFrames, tabla, usos, datos, tlb, caido, Resto>>
<1>1. /\ TypeOK /\ hilo[p].pc = "elegir" /\ Candidatas(p) # {} /\ caido = "no"
      /\ Candidatas(p) \subseteq Claves /\ conf.mmu \in {"LRU", "CLOCK-M"}
      /\ posClock \in Nat /\ pag \in [Claves -> TipoPagina]
  BY ConfTipo, Tipos, CandidatasTipo DEF ElegirVictima, En, Base
<1>2. UNCHANGED <<marco, mtxFrames, tabla, usos, datos, tlb, caido, Resto>>
  BY DEF ElegirVictima
<1>3. ASSUME NEW k \in Candidatas(p),
             hilo' = [hilo EXCEPT ![p].pc = "expulsar", ![p].vic = k]
      PROVE  Queda(p, "expulsar", hilo[p].op, hilo[p].pags, hilo[p].frs, hilo[p].faltan,
                   hilo[p].fr, k)
  <2>1. Deja(p, "expulsar", hilo[p].op, hilo[p].pags, hilo[p].frs, hilo[p].faltan,
             hilo[p].fr, k)
    BY <1>1, <1>3, DejaPcVic
  <2>. QED
    BY <1>1, <1>3, <2>1, QuedaSi, Registro DEF PcReposo, PcAlta, PcAcceso
<1>4. CASE conf.mmu = "LRU"
  <2>. DEFINE k == MenosUsada(Candidatas(p))
  <2>1. k \in Candidatas(p)
    BY <1>1, <1>4, MenosUsadaTipo
  <2>2. hilo' = [hilo EXCEPT ![p].pc = "expulsar", ![p].vic = k] /\ UNCHANGED <<pag, posClock>>
    BY <1>4 DEF ElegirVictima
  <2>. HIDE DEF k
  <2>. QED
    BY <1>1, <1>2, <1>3, <1>4, <2>1, <2>2
<1>5. CASE conf.mmu # "LRU"
  <2>1. PICK lista \in {PorMarco(Candidatas(p))} : \E t \in {UltimaVisita(lista)} :
            /\ hilo' = [hilo EXCEPT ![p].pc = "expulsar", ![p].vic = Visitada(lista, t)]
            /\ pag' = [k \in Claves |->
                         IF \E u \in 1 .. t - 1 : Vuelta(lista, u) = 2 /\ Visitada(lista, u) = k
                         THEN [pag[k] EXCEPT !.uso = FALSE]
                         ELSE pag[k]]
            /\ posClock' = LugarDeVisita(lista, t) + 1
    BY <1>5 DEF ElegirVictima
  <2>2. PICK t \in {UltimaVisita(lista)} :
            /\ hilo' = [hilo EXCEPT ![p].pc = "expulsar", ![p].vic = Visitada(lista, t)]
            /\ pag' = [k \in Claves |->
                         IF \E u \in 1 .. t - 1 : Vuelta(lista, u) = 2 /\ Visitada(lista, u) = k
                         THEN [pag[k] EXCEPT !.uso = FALSE]
                         ELSE pag[k]]
            /\ posClock' = LugarDeVisita(lista, t) + 1
    BY <2>1
  <2>3. lista = PorMarco(Candidatas(p)) /\ t = UltimaVisita(lista)
    BY <2>1, <2>2
  <2>. DEFINE k == Visitada(lista, t)
              limpias == {c \in Claves : \E u \in 1 .. t - 1 :
                                           Vuelta(lista, u) = 2 /\ Visitada(lista, u) = c}
  <2>4. /\ k \in Candidatas(p) /\ LugarDeVisita(lista, t) \in Nat
        /\ \A l \in Candidatas(p) : Clase(k) <= Clase(l)
    BY <1>1, <2>3, UltimaVisitaTipo
  <2>5. pag' = [c \in Claves |-> IF c \in limpias THEN [pag[c] EXCEPT !.uso = FALSE] ELSE pag[c]]
    BY <2>2
  <2>6. hilo' = [hilo EXCEPT ![p].pc = "expulsar", ![p].vic = k]
        /\ posClock' = LugarDeVisita(lista, t) + 1
    BY <2>2
  <2>. HIDE DEF k, limpias
  <2>7. ASSUME NEW c \in Claves
        PROVE  /\ pag'[c] \in TipoPagina
               /\ pag'[c].frame = pag[c].frame /\ pag'[c].presencia = pag[c].presencia
               /\ pag'[c].modificado = pag[c].modificado /\ pag'[c].lock = pag[c].lock
    <3>1. pag[c] \in TipoPagina
      BY <1>1
    <3>2. pag'[c] = IF c \in limpias THEN [pag[c] EXCEPT !.uso = FALSE] ELSE pag[c]
      BY <2>5
    <3>. QED
      BY <3>1, <3>2 DEF TipoPagina
  <2>8. pag' \in [Claves -> TipoPagina]
    BY <2>5, <2>7
  <2>9. posClock' \in Nat
    BY <2>4, <2>6
  <2>. QED
    BY <1>1, <1>2, <1>3, <2>4, <2>6, <2>7, <2>8, <2>9
<1>. QED
  BY <1>4, <1>5

\* The choice keeps Base.
LEMMA ElegirBase ==
  ASSUME Base, NEW p \in Procesos, ElegirVictima(p)
  PROVE  Base'
<1>1. /\ hilo[p].pc = "elegir" /\ pag' \in [Claves -> TipoPagina] /\ posClock' \in Nat
      /\ \A k \in Claves : pag'[k].frame = pag[k].frame /\ pag'[k].presencia = pag[k].presencia
      /\ UNCHANGED <<marco, mtxFrames, tabla, usos, datos, tlb, caido, Resto>>
  BY ElegirHace
<1>2. PICK k \in Candidatas(p) :
          Queda(p, "expulsar", hilo[p].op, hilo[p].pags, hilo[p].frs, hilo[p].faltan,
                hilo[p].fr, k)
  BY ElegirHace
<1>3. k \in Claves /\ EnTabla(k) /\ (Fija => k[1] = p) /\ pag[k].frame \in Marcos
  BY CandidatasTipo
<1>4. /\ marco' = marco /\ mtxFrames' = mtxFrames /\ usos' = usos /\ ram' = ram
      /\ enSwap' = enSwap /\ tlb' = tlb /\ caido' = caido /\ UNCHANGED <<tabla, Resto>>
  BY <1>1 DEF datos
<1>5. \A l \in Claves : pag[l].frame \in Marcos \/ pag'[l].presencia => pag'[l].frame \in Marcos
  BY <1>1 DEF Base, TablasOK
<1>6. /\ hilo[p].op \in Altas \union Accesos /\ hilo[p].fr = SinMarco
      /\ hilo[p].op \in Altas => hilo[p].frs = <<>>
      /\ hilo[p].op \in Accesos => Len(hilo[p].frs) < Len(hilo[p].pags)
  BY <1>1, QuienReemplaza
<1>7. /\ marco \in [Marcos -> TipoMarco] /\ mtxFrames \in Procesos \union {Nadie}
      /\ usos \in Seq(Claves) /\ ram \in [Marcos -> Claves \union {Nadie}]
      /\ enSwap \in [Claves -> BOOLEAN] /\ tlb \in Seq(TipoEntrada) /\ caido \in Causas
      /\ SinMarco \notin Marcos
  BY Tipos, MarcosTipo DEF Base
<1>8. /\ "expulsar" \in PcAlta \ {"reservar", "tomar"} /\ "expulsar" \in PcAcceso
      /\ "expulsar" \notin PcConMarco /\ "expulsar" \notin {"copiar", "quitar"}
  BY DEF PcAlta, PcAcceso, PcConMarco
<1>. QED
  BY <1>1, <1>2, <1>3, <1>4, <1>5, <1>6, <1>7, <1>8, SigueBase

\* A thread nothing happens to stays right.
LEMMA HiloQuieto ==
  ASSUME Base, NEW p \in Procesos, UNCHANGED <<conf, tabla, pag, hilo, suspendidos>>
  PROVE  HiloOK(p)'
<1>1. HiloOK(p)
  BY DEF Base, HilosOK, HiloOK
<1>2. ReposoOK(p)'
  BY <1>1 DEF HiloOK, ReposoOK
<1>3. AltaOK(p)' /\ AccesoOK(p)'
  BY <1>1 DEF HiloOK, AltaOK, AccesoOK, PrimeraNueva, Fija, Marcos, EnTabla
<1>4. TenenciaOK(p)'
  BY <1>1 DEF HiloOK, TenenciaOK, Fija, Marcos, EnTabla
<1>. QED
  BY <1>2, <1>3, <1>4 DEF HiloOK

\* A step that only kills memoria.
LEMMA MorirBase ==
  ASSUME Base, NEW p \in Procesos, NEW causa \in Causas, Morir(causa),
         UNCHANGED <<marco, mtxFrames, tablas, posClock, datos, tlb, hilo, Resto>>
  PROVE  Base'
<1>1. /\ UNCHANGED <<marco, tablas, posClock, datos, tlb, historia>>
      /\ conf' = conf /\ suspendidos' = suspendidos /\ caido' = causa /\ tabla' = tabla
      /\ mtxFrames' = mtxFrames /\ hilo' = hilo /\ pag' = pag
  BY DEF Morir, Resto, tablas
<1>2. HiloOK(p)' /\ SoloDe(p)
  BY <1>1, HiloQuieto DEF SoloDe
<1>. QED
  BY <1>1, <1>2, Tipos, SoloHilo DEF Base

\* The lack of a victim.
LEMMA SinVictimaBase ==
  ASSUME Base, NEW p \in Procesos, SinVictima(p)
  PROVE  Base'
<1>1. "sinVictima" \in Causas
  BY DEF Causas
<1>. QED
  BY <1>1, MorirBase DEF SinVictima

\* The victim is locked and clean, swamp has what its frame has if it was modified, and the TLB
\* has an entry of it less, if it had one under the pid of the thread.
LEMMA ExpulsarHace ==
  ASSUME Base, NEW p \in Procesos, Expulsar(p)
  PROVE  LET k == hilo[p].vic
             e == [pid |-> p, pag |-> k[2], frame |-> pag[k].frame] IN
         /\ hilo[p].pc = "expulsar" /\ caido = "no"
         /\ k \in Claves /\ pag[k].frame \in Marcos
         /\ Fija => k[1] = p /\ EnTabla(k)
         /\ Queda(p, "soltar", hilo[p].op, hilo[p].pags, hilo[p].frs, hilo[p].faltan,
                  hilo[p].fr, k)
         /\ pag' \in [Claves -> TipoPagina]
         /\ \A l \in Claves : l # k => pag'[l] = pag[l]
         /\ pag'[k].frame = pag[k].frame /\ pag'[k].presencia = pag[k].presencia
         /\ pag'[k].modificado = FALSE /\ pag'[k].lock = TRUE /\ pag'[k].uso = pag[k].uso
         /\ enSwap' \in [Claves -> BOOLEAN]
         /\ \A l \in Claves : l # k => enSwap'[l] = enSwap[l]
         /\ enSwap'[k] = IF pag[k].modificado THEN ram[pag[k].frame] = k ELSE enSwap[k]
         /\ tlb' \in Seq(TipoEntrada)
         /\ \/ e \notin ToSet(tlb) /\ tlb' = tlb
            \/ \E m \in 1 .. Len(tlb) : tlb[m] = e /\ SinEl(m, tlb, tlb')
         /\ UNCHANGED <<marco, mtxFrames, tabla, usos, posClock, ram, caido, Resto>>
<1>. DEFINE k == hilo[p].vic
            e == [pid |-> p, pag |-> k[2], frame |-> pag[k].frame]
<1>1. /\ TypeOK /\ hilo[p].pc = "expulsar" /\ TenenciaOK(p) /\ caido = "no"
      /\ tlb \in Seq(TipoEntrada) /\ enSwap \in [Claves -> BOOLEAN]
  BY Tipos DEF Expulsar, En, Base, HilosOK
<1>2. k \in Claves /\ pag[k].frame \in Marcos /\ (Fija => k[1] = p /\ EnTabla(k))
  BY <1>1 DEF TenenciaOK
<1>3. /\ Desreferenciar(p, k)
      /\ IF pag[k].modificado THEN TirarASwap(k) ELSE UNCHANGED enSwap
      /\ pag' = [pag EXCEPT ![k].lock = TRUE, ![k].modificado = FALSE]
      /\ Ir(p, "soltar")
      /\ UNCHANGED <<marco, mtxFrames, tabla, usos, posClock, ram, caido, Resto>>
  BY DEF Expulsar
<1>4. Queda(p, "soltar", hilo[p].op, hilo[p].pags, hilo[p].frs, hilo[p].faltan, hilo[p].fr, k)
  <2>1. "soltar" \in PcReposo \union PcAlta \union PcAcceso
    BY DEF PcAlta
  <2>. QED
    BY <1>1, <1>3, <2>1, IrHace
<1>5. tlb' = RemoveFirst(tlb, e)
  BY <1>3 DEF Desreferenciar
<1>. HIDE DEF k
<1>6. /\ pag' \in [Claves -> TipoPagina]
      /\ \A l \in Claves : l # k => pag'[l] = pag[l]
      /\ pag'[k].frame = pag[k].frame /\ pag'[k].presencia = pag[k].presencia
      /\ pag'[k].modificado = FALSE /\ pag'[k].lock = TRUE /\ pag'[k].uso = pag[k].uso
  <2>. DEFINE v1 == [pag[k] EXCEPT !.lock = TRUE]
              v2 == [v1 EXCEPT !.modificado = FALSE]
  <2>1. pag[k] \in TipoPagina
    BY <1>1, <1>2, PaginaCampos
  <2>2. /\ v1 \in TipoPagina /\ v1.frame = pag[k].frame /\ v1.presencia = pag[k].presencia
        /\ v1.lock = TRUE /\ v1.uso = pag[k].uso
    BY <2>1 DEF TipoPagina
  <2>3. pag' = [pag EXCEPT ![k] = v2]
    BY <1>1, <1>2, <1>3, Tipos
  <2>. HIDE DEF v1
  <2>4. /\ v2 \in TipoPagina /\ v2.frame = pag[k].frame /\ v2.presencia = pag[k].presencia
        /\ v2.lock = TRUE /\ v2.modificado = FALSE /\ v2.uso = pag[k].uso
    BY <2>2 DEF TipoPagina
  <2>. HIDE DEF v2
  <2>. QED
    BY <1>1, <1>2, <2>3, <2>4, PaginaTipo
<1>7. /\ enSwap' \in [Claves -> BOOLEAN]
      /\ \A l \in Claves : l # k => enSwap'[l] = enSwap[l]
      /\ enSwap'[k] = IF pag[k].modificado THEN ram[pag[k].frame] = k ELSE enSwap[k]
  BY <1>1, <1>2, <1>3 DEF TirarASwap
<1>8. /\ RemoveFirst(tlb, e) \in Seq(TipoEntrada)
      /\ \/ e \notin ToSet(tlb) /\ RemoveFirst(tlb, e) = tlb
         \/ \E m \in 1 .. Len(tlb) : tlb[m] = e /\ SinEl(m, tlb, RemoveFirst(tlb, e))
  BY <1>1, QuitarPrimero
<1>. HIDE DEF e
<1>9. /\ tlb' \in Seq(TipoEntrada)
      /\ \/ e \notin ToSet(tlb) /\ tlb' = tlb
         \/ \E m \in 1 .. Len(tlb) : tlb[m] = e /\ SinEl(m, tlb, tlb')
  BY <1>5, <1>8
<1>. QED
  BY <1>1, <1>2, <1>3, <1>4, <1>6, <1>7, <1>9 DEF k, e

\* And Base stays.
LEMMA ExpulsarBase ==
  ASSUME Base, NEW p \in Procesos, Expulsar(p)
  PROVE  Base'
<1>. DEFINE k == hilo[p].vic
<1>1. /\ hilo[p].pc = "expulsar" /\ k \in Claves /\ pag[k].frame \in Marcos
      /\ Fija => k[1] = p /\ EnTabla(k)
      /\ Queda(p, "soltar", hilo[p].op, hilo[p].pags, hilo[p].frs, hilo[p].faltan, hilo[p].fr, k)
      /\ pag' \in [Claves -> TipoPagina] /\ enSwap' \in [Claves -> BOOLEAN]
      /\ tlb' \in Seq(TipoEntrada)
      /\ \A l \in Claves : l # k => pag'[l] = pag[l]
      /\ pag'[k].frame = pag[k].frame
  BY ExpulsarHace
<1>2. UNCHANGED <<marco, mtxFrames, tabla, usos, posClock, ram, caido, Resto>>
  BY DEF Expulsar
<1>3. /\ hilo[p].op \in Altas \union Accesos /\ hilo[p].fr = SinMarco
      /\ hilo[p].op \in Altas => hilo[p].frs = <<>>
      /\ hilo[p].op \in Accesos => Len(hilo[p].frs) < Len(hilo[p].pags)
  BY <1>1, QuienReemplaza
<1>4. /\ marco \in [Marcos -> TipoMarco] /\ mtxFrames \in Procesos \union {Nadie}
      /\ usos \in Seq(Claves) /\ ram \in [Marcos -> Claves \union {Nadie}]
      /\ caido \in Causas /\ SinMarco \notin Marcos /\ posClock \in Nat
  BY Tipos, MarcosTipo DEF Base
<1>5. /\ "soltar" \in PcAlta \ {"reservar", "tomar"} /\ "soltar" \in PcAcceso
      /\ "soltar" \notin PcConMarco /\ "soltar" \notin {"copiar", "quitar"}
  BY DEF PcAlta, PcAcceso, PcConMarco
<1>. HIDE DEF k
<1>6. \A l \in Claves : pag[l].frame \in Marcos \/ pag'[l].presencia => pag'[l].frame \in Marcos
  BY <1>1 DEF Base, TablasOK
<1>. QED
  BY <1>1, <1>2, <1>3, <1>4, <1>5, <1>6, SigueBase

\* The victim is not in memory any more, and its frame is the thread's.
LEMMA SoltarVictimaHace ==
  ASSUME Base, NEW p \in Procesos, SoltarVictima(p)
  PROVE  LET k == hilo[p].vic IN
         /\ hilo[p].pc = "soltar" /\ caido = "no"
         /\ k \in Claves /\ pag[k].frame \in Marcos
         /\ Fija => k[1] = p /\ EnTabla(k)
         /\ Queda(p, IF Creando(p) THEN "crear" ELSE "traer", hilo[p].op, hilo[p].pags,
                  hilo[p].frs, hilo[p].faltan, pag[k].frame, Nadie)
         /\ pag' \in [Claves -> TipoPagina]
         /\ \A l \in Claves : l # k => pag'[l] = pag[l]
         /\ pag'[k].frame = pag[k].frame /\ pag'[k].presencia = FALSE
         /\ pag'[k].modificado = pag[k].modificado /\ pag'[k].lock = FALSE
         /\ pag'[k].uso = pag[k].uso
         /\ mtxFrames' \in {mtxFrames, Nadie}
         /\ UNCHANGED <<marco, tabla, usos, posClock, datos, tlb, caido, Resto>>
<1>. DEFINE k == hilo[p].vic
            pc == IF Creando(p) THEN "crear" ELSE "traer"
<1>1. /\ TypeOK /\ hilo[p].pc = "soltar" /\ TenenciaOK(p) /\ caido = "no"
  BY DEF SoltarVictima, En, Base, HilosOK
<1>2. k \in Claves /\ pag[k].frame \in Marcos /\ (Fija => k[1] = p /\ EnTabla(k))
  BY <1>1 DEF TenenciaOK
<1>3. /\ pag' = [pag EXCEPT ![k] = Suelta(k)]
      /\ hilo' = [hilo EXCEPT ![p].pc = pc, ![p].fr = pag[k].frame, ![p].vic = Nadie]
      /\ mtxFrames' \in {mtxFrames, Nadie}
      /\ UNCHANGED <<marco, tabla, usos, posClock, datos, tlb, caido, Resto>>
  BY DEF SoltarVictima, MutexTrasReemplazo
<1>4. pc \in PcReposo \union PcAlta \union PcAcceso
  BY DEF PcAlta, PcAcceso
<1>. HIDE DEF k, pc
<1>5. Queda(p, pc, hilo[p].op, hilo[p].pags, hilo[p].frs, hilo[p].faltan, pag[k].frame, Nadie)
  <2>1. Deja(p, pc, hilo[p].op, hilo[p].pags, hilo[p].frs, hilo[p].faltan, pag[k].frame, Nadie)
    BY <1>1, <1>3, DejaPcFrVic
  <2>. QED
    BY <1>1, <1>2, <1>4, <2>1, QuedaSi, Registro
<1>6. /\ pag' \in [Claves -> TipoPagina]
      /\ \A l \in Claves : l # k => pag'[l] = pag[l]
      /\ pag'[k].frame = pag[k].frame /\ pag'[k].presencia = FALSE
      /\ pag'[k].modificado = pag[k].modificado /\ pag'[k].lock = FALSE
      /\ pag'[k].uso = pag[k].uso
  <2>. DEFINE v1 == [pag[k] EXCEPT !.presencia = FALSE]
              v2 == [v1 EXCEPT !.lock = FALSE]
  <2>1. pag[k] \in TipoPagina
    BY <1>1, <1>2, PaginaCampos
  <2>2. /\ v1 \in TipoPagina /\ v1.frame = pag[k].frame /\ v1.presencia = FALSE
        /\ v1.modificado = pag[k].modificado /\ v1.uso = pag[k].uso
    BY <2>1 DEF TipoPagina
  <2>3. pag' = [pag EXCEPT ![k] = v2]
    BY <1>3 DEF Suelta
  <2>. HIDE DEF v1
  <2>4. /\ v2 \in TipoPagina /\ v2.frame = pag[k].frame /\ v2.presencia = FALSE
        /\ v2.lock = FALSE /\ v2.modificado = pag[k].modificado /\ v2.uso = pag[k].uso
    BY <2>2 DEF TipoPagina
  <2>. HIDE DEF v2
  <2>. QED
    BY <1>1, <1>2, <2>3, <2>4, PaginaTipo
<1>. QED
  BY <1>1, <1>2, <1>3, <1>5, <1>6 DEF k, pc

\* And Base stays.
LEMMA SoltarVictimaBase ==
  ASSUME Base, NEW p \in Procesos, SoltarVictima(p)
  PROVE  Base'
<1>. DEFINE k == hilo[p].vic
            pc == IF Creando(p) THEN "crear" ELSE "traer"
<1>1. /\ hilo[p].pc = "soltar" /\ k \in Claves /\ pag[k].frame \in Marcos
      /\ Queda(p, pc, hilo[p].op, hilo[p].pags, hilo[p].frs, hilo[p].faltan, pag[k].frame, Nadie)
      /\ pag' \in [Claves -> TipoPagina]
      /\ \A l \in Claves : l # k => pag'[l] = pag[l]
      /\ pag'[k].frame = pag[k].frame /\ mtxFrames' \in {mtxFrames, Nadie}
      /\ UNCHANGED <<marco, tabla, usos, posClock, datos, tlb, caido, Resto>>
  BY SoltarVictimaHace
<1>2. ram' = ram /\ enSwap' = enSwap
  BY <1>1 DEF datos
<1>3. /\ hilo[p].op \in Altas \union Accesos
      /\ hilo[p].op \in Altas => hilo[p].frs = <<>>
      /\ hilo[p].op \in Accesos => Len(hilo[p].frs) < Len(hilo[p].pags)
      /\ Creando(p) <=> hilo[p].op \in Altas
  BY <1>1, QuienReemplaza
<1>4. /\ marco \in [Marcos -> TipoMarco] /\ mtxFrames \in Procesos \union {Nadie}
      /\ usos \in Seq(Claves) /\ ram \in [Marcos -> Claves \union {Nadie}]
      /\ enSwap \in [Claves -> BOOLEAN] /\ tlb \in Seq(TipoEntrada)
      /\ caido \in Causas /\ posClock \in Nat
  BY Tipos DEF Base
<1>5. /\ hilo[p].op \in Altas => pc \in PcAlta \ {"reservar", "tomar"}
      /\ hilo[p].op \in Accesos => pc \in PcAcceso
      /\ pc \in PcConMarco /\ pc \notin {"copiar", "quitar"} /\ pc \notin {"expulsar", "soltar"}
  BY <1>3 DEF PcAlta, PcAcceso, PcConMarco, Altas, Accesos
<1>. HIDE DEF k, pc
<1>6. \A l \in Claves : pag[l].frame \in Marcos \/ pag'[l].presencia => pag'[l].frame \in Marcos
  BY <1>1 DEF Base, TablasOK
<1>. QED
  BY <1>1, <1>2, <1>3, <1>4, <1>5, <1>6, SigueBase

\* A request for pages that are in the table, or the death of memoria.
LEMMA AccederHace ==
  ASSUME Base, NEW p \in Procesos, NEW op \in Accesos, NEW s, Acceder(p, op, s),
         s \in Seq(Nat), Len(s) \in 1 .. 2, IsInjective(s),
         op \in {"leer", "escribir", "liberar"} => Len(s) = 1
  PROVE  /\ hilo[p] = Libre /\ p \notin suspendidos
         /\ \/ /\ Morir("sinPagina") /\ hilo' = hilo /\ ConHuecos(p)
            \/ /\ caido' = caido
               /\ \E pags \in Seq(Ids) :
                     /\ Queda(p, "buscar", op, pags, <<>>, 0, SinMarco, Nadie)
                     /\ Len(pags) \in 1 .. 2 /\ DOMAIN pags = 1 .. Len(pags)
                     /\ op \in {"leer", "escribir", "liberar"} => Len(pags) = 1
                     /\ \A i \in DOMAIN pags : EnTabla(<<p, pags[i]>>)
                     /\ \A i, j \in DOMAIN pags : pags[i] = pags[j] => i = j
         /\ UNCHANGED <<marco, mtxFrames, tablas, posClock, datos, tlb, Resto>>
<1>. DEFINE pags == [i \in DOMAIN s |-> tabla[p][s[i]]]
<1>1. /\ TypeOK /\ hilo[p] = Libre /\ p \notin suspendidos /\ op \in Llamadas
      /\ UNCHANGED <<marco, mtxFrames, tablas, posClock, datos, tlb, Resto>>
  BY PuedePedirHace DEF Acceder, Base
<1>2. CASE Morir("sinPagina") /\ UNCHANGED hilo /\ ConHuecos(p)
  BY <1>1, <1>2
<1>3. CASE /\ hilo' = [hilo EXCEPT ![p] = [Libre EXCEPT !.pc = "buscar", !.op = op, !.pags = pags]]
           /\ caido' = caido
  <2>1. /\ DOMAIN s = 1 .. Len(s) /\ \A i \in DOMAIN s : s[i] \in DOMAIN tabla[p]
    BY LenProperties DEF Acceder
  <2>2. /\ \A i \in DOMAIN tabla[p] : tabla[p][i] \in Ids
        /\ \A i, j \in DOMAIN tabla[p] : i < j => tabla[p][i] < tabla[p][j]
        /\ DOMAIN tabla[p] \subseteq Nat /\ Ids \subseteq Nat
    BY TablaTipo DEF Base, TablasOK
  <2>3. /\ pags \in Seq(Ids) /\ Len(pags) = Len(s) /\ DOMAIN pags = DOMAIN s
        /\ \A i \in DOMAIN s : pags[i] = tabla[p][s[i]]
    <3>1. pags \in [1 .. Len(s) -> Ids]
      BY <2>1, <2>2
    <3>2. Len(s) \in Nat
      OBVIOUS
    <3>. QED
      BY <2>1, <3>1, <3>2, SeqDef, LenProperties
  <2>. HIDE DEF pags
  <2>4. \A i \in DOMAIN pags : EnTabla(<<p, pags[i]>>)
    BY <2>1, <2>3 DEF EnTabla, ToSet
  <2>5. ASSUME NEW i \in DOMAIN pags, NEW j \in DOMAIN pags, pags[i] = pags[j]  PROVE i = j
    <3>. DEFINE a == s[i]
                b == s[j]
    <3>0. /\ a \in DOMAIN tabla[p] /\ b \in DOMAIN tabla[p] /\ tabla[p][a] = tabla[p][b]
          /\ a \in Nat /\ b \in Nat /\ tabla[p][a] \in Nat /\ tabla[p][b] \in Nat
      BY <2>1, <2>2, <2>3, <2>5
    <3>. HIDE DEF a, b
    <3>2. a = b
      BY <2>2, <3>0
    <3>1. s[i] = s[j]
      BY <3>2 DEF a, b
    <3>. QED
      BY <2>3, <3>1 DEF IsInjective
  <2>6. Queda(p, "buscar", op, pags, <<>>, 0, SinMarco, Nadie)
    <3>. DEFINE h1 == [Libre EXCEPT !.pc = "buscar"]
                h2 == [h1 EXCEPT !.op = op]
                h3 == [h2 EXCEPT !.pags = pags]
    <3>1. hilo' = [hilo EXCEPT ![p] = h3]
      BY <1>3
    <3>2. h1 = [pc |-> "buscar", op |-> "nada", pags |-> <<>>, frs |-> <<>>, faltan |-> 0,
                fr |-> SinMarco, vic |-> Nadie]
      BY DEF Libre
    <3>. HIDE DEF h1
    <3>3. h2 = [pc |-> "buscar", op |-> op, pags |-> <<>>, frs |-> <<>>, faltan |-> 0,
                fr |-> SinMarco, vic |-> Nadie]
      BY <3>2
    <3>. HIDE DEF h2
    <3>4. h3 = [pc |-> "buscar", op |-> op, pags |-> pags, frs |-> <<>>, faltan |-> 0,
                fr |-> SinMarco, vic |-> Nadie]
      BY <3>3
    <3>. HIDE DEF h3
    <3>5. Deja(p, "buscar", op, pags, <<>>, 0, SinMarco, Nadie)
      BY <3>1, <3>4 DEF Deja
    <3>6. <<>> \in Seq(Marcos) /\ 0 \in Nat /\ "buscar" \in PcAcceso
      BY EmptySeq DEF PcAcceso
    <3>. QED
      BY <1>1, <2>3, <3>5, <3>6, QuedaSi
  <2>7. /\ Len(pags) \in 1 .. 2 /\ DOMAIN pags = 1 .. Len(pags)
        /\ op \in {"leer", "escribir", "liberar"} => Len(pags) = 1
    BY <2>1, <2>3
  <2>. QED
    BY <1>1, <1>3, <2>3, <2>4, <2>5, <2>6, <2>7
<1>. QED
  BY <1>2, <1>3 DEF Acceder

\* A request for pages keeps Base.
LEMMA AccederBase ==
  ASSUME Base, NEW p \in Procesos, NEW op \in Accesos, NEW s, Acceder(p, op, s),
         s \in Seq(Nat), Len(s) \in 1 .. 2, IsInjective(s),
         op \in {"leer", "escribir", "liberar"} => Len(s) = 1
  PROVE  Base'
<1>1. UNCHANGED <<marco, mtxFrames, tablas, posClock, datos, tlb, Resto>>
      /\ hilo[p] = Libre /\ p \notin suspendidos
  BY AccederHace
<1>2. CASE Morir("sinPagina") /\ hilo' = hilo
  <2>1. "sinPagina" \in Causas
    BY DEF Causas
  <2>. QED
    BY <1>1, <1>2, <2>1, MorirBase
<1>3. ASSUME caido' = caido, NEW pags \in Seq(Ids),
             Queda(p, "buscar", op, pags, <<>>, 0, SinMarco, Nadie),
             Len(pags) \in 1 .. 2,
             op \in {"leer", "escribir", "liberar"} => Len(pags) = 1,
             \A i \in DOMAIN pags : EnTabla(<<p, pags[i]>>),
             \A i, j \in DOMAIN pags : pags[i] = pags[j] => i = j
      PROVE  Base'
  <2>1. /\ UNCHANGED <<marco, tablas, posClock, datos, tlb, historia>>
        /\ conf' = conf /\ suspendidos' = suspendidos /\ tabla' = tabla
        /\ mtxFrames' = mtxFrames
    BY <1>1 DEF Resto, tablas
  <2>2. /\ hilo'[p].pc = "buscar" /\ hilo'[p].op = op /\ hilo'[p].pags = pags
        /\ hilo'[p].frs = <<>> /\ hilo'[p].fr = SinMarco
        /\ \A q \in Procesos \ {p} : hilo'[q] = hilo[q]
        /\ hilo' \in [Procesos -> TipoHilo]
    BY <1>3 DEF Queda
  <2>3. TypeOK
    BY DEF Base
  <2>4. HiloOK(p)'
    <3>1. Marcos' = Marcos /\ \A k : EnTabla(k)' <=> EnTabla(k)
      BY <2>1 DEF Marcos, EnTabla
    <3>2. ReposoOK(p)'
      BY <1>1, <2>1, <2>2 DEF ReposoOK, PcReposo, Accesos
    <3>3. AltaOK(p)'
      BY <2>2 DEF AltaOK, Altas, Accesos
    <3>4. AccesoOK(p)'
      <4>1. Len(hilo'[p].frs) < Len(pags)
        <5>1. Len(<<>>) = 0
          OBVIOUS
        <5>2. Len(hilo'[p].frs) = 0
          BY <2>2, <5>1
        <5>3. Len(pags) \in 1 .. 2
          BY <1>3
        <5>4. \A n \in 1 .. 2 : 0 < n
          OBVIOUS
        <5>. QED
          BY <5>2, <5>3, <5>4, Zenon
      <4>2. hilo'[p].pc \in PcAcceso /\ hilo'[p].pc \notin {"copiar", "quitar"}
        BY <2>2 DEF PcAcceso
      <4>3. \A i \in DOMAIN pags : EnTabla(<<p, pags[i]>>)'
        BY <1>3, <3>1
      <4>. QED
        BY <1>3, <2>2, <4>1, <4>2, <4>3 DEF AccesoOK
    <3>5. TenenciaOK(p)'
      BY <2>2, <2>3, <3>1, MarcosTipo DEF TenenciaOK, PcConMarco
    <3>. QED
      BY <3>2, <3>3, <3>4, <3>5 DEF HiloOK
  <2>5. SoloDe(p)
    BY <2>1, <2>2 DEF SoloDe
  <2>. QED
    BY <1>3, <2>1, <2>2, <2>3, <2>4, <2>5, Tipos, SoloHilo
<1>. QED
  BY <1>2, <1>3, AccederHace

\* The places of one page, or of two that follow each other.
LEMMA UnoODos ==
  ASSUME NEW i \in Nat
  PROVE  /\ <<i>> \in Seq(Nat) /\ Len(<<i>>) = 1 /\ IsInjective(<<i>>)
         /\ <<i, i + 1>> \in Seq(Nat) /\ Len(<<i, i + 1>>) = 2 /\ IsInjective(<<i, i + 1>>)
<1>1. DOMAIN <<i>> = {1} /\ DOMAIN <<i, i + 1>> = {1, 2} /\ i # i + 1
  OBVIOUS
<1>2. <<i, i + 1>>[1] = i /\ <<i, i + 1>>[2] = i + 1
  OBVIOUS
<1>3. IsInjective(<<i>>) /\ IsInjective(<<i, i + 1>>)
  BY <1>1, <1>2 DEF IsInjective
<1>. QED
  BY <1>3

\* The requests that use pages.
UsaPaginas(p) ==
    \E i \in 1 .. MaxPaginas :
       \/ Leer(p, i) \/ EscribirPagina(p, i) \/ GuardarHeader(p, i)
       \/ DesserializarHeader(p, i) \/ LiberarPagina(p, i)

\* Each is an access to one place of the table or to two that follow each other.
LEMMA UsaPaginasEs ==
  ASSUME Base, NEW p \in Procesos, UsaPaginas(p)
  PROVE  \E op \in Accesos : \E s \in Seq(Nat) :
            /\ Acceder(p, op, s) /\ Len(s) \in 1 .. 2 /\ IsInjective(s)
            /\ op \in {"leer", "escribir", "liberar"} => Len(s) = 1
<1>1. PICK i \in 1 .. MaxPaginas :
         \/ Leer(p, i) \/ EscribirPagina(p, i) \/ GuardarHeader(p, i)
         \/ DesserializarHeader(p, i) \/ LiberarPagina(p, i)
  BY DEF UsaPaginas
<1>2. i \in Nat
  BY PaginasAssumption
<1>. DEFINE uno == <<i>>
            dos == <<i, i + 1>>
<1>3. /\ uno \in Seq(Nat) /\ Len(uno) = 1 /\ IsInjective(uno)
      /\ dos \in Seq(Nat) /\ Len(dos) = 2 /\ IsInjective(dos)
  BY <1>2, UnoODos
<1>4. /\ Leer(p, i) => Acceder(p, "leer", uno)
      /\ EscribirPagina(p, i) => Acceder(p, "escribir", uno)
      /\ GuardarHeader(p, i) => Acceder(p, "guardar", uno) \/ Acceder(p, "guardar", dos)
      /\ DesserializarHeader(p, i) => Acceder(p, "cabecera", uno) \/ Acceder(p, "cabecera", dos)
      /\ LiberarPagina(p, i) => Acceder(p, "liberar", uno)
  BY DEF Leer, EscribirPagina, GuardarHeader, DesserializarHeader, LiberarPagina
<1>. HIDE DEF uno, dos
<1>5. /\ "leer" \in Accesos /\ "escribir" \in Accesos /\ "guardar" \in Accesos
      /\ "cabecera" \in Accesos /\ "liberar" \in Accesos
      /\ "guardar" \notin {"leer", "escribir", "liberar"}
      /\ "cabecera" \notin {"leer", "escribir", "liberar"}
      /\ 1 \in 1 .. 2 /\ 2 \in 1 .. 2
  BY DEF Accesos
<1>. QED
  BY <1>1, <1>3, <1>4, <1>5

\* They keep Base.
LEMMA UsaPaginasBase ==
  ASSUME Base, NEW p \in Procesos, UsaPaginas(p)
  PROVE  Base'
<1>1. PICK op \in Accesos, s \in Seq(Nat) :
            /\ Acceder(p, op, s) /\ Len(s) \in 1 .. 2 /\ IsInjective(s)
            /\ op \in {"leer", "escribir", "liberar"} => Len(s) = 1
  BY UsaPaginasEs
<1>. QED
  BY <1>1, AccederBase

\* A thread that looks for a page has not found all of its own, and that page is in the table.
LEMMA QuienBusca ==
  ASSUME Base, NEW p \in Procesos,
         hilo[p].pc \in {"buscar", "falta", "traer", "actualizar", "reemplazar"}
  PROVE  /\ hilo[p].op \in Accesos /\ hilo[p].op \notin Altas
         /\ Len(hilo[p].frs) < Len(hilo[p].pags)
         /\ Buscada(p) \in Claves /\ EnTabla(Buscada(p)) /\ Buscada(p)[1] = p
         /\ pag[Buscada(p)].frame \in Marcos
         /\ hilo[p].pc \in {"buscar", "falta"} => hilo[p].fr = SinMarco
         /\ hilo[p].pc \notin {"buscar", "falta"} => hilo[p].fr \in Marcos
<1>1. ReposoOK(p) /\ AltaOK(p) /\ AccesoOK(p) /\ TenenciaOK(p) /\ TypeOK
  BY DEF Base, HilosOK
<1>2. hilo[p].op \in Accesos /\ hilo[p].op \notin Altas
  <2>1. hilo[p].pc \notin PcReposo /\ hilo[p].pc \notin PcAlta
    BY DEF PcReposo, PcAlta
  <2>. QED
    BY <1>1, <2>1 DEF ReposoOK, AltaOK
<1>3. Len(hilo[p].frs) < Len(hilo[p].pags)
  BY <1>1, <1>2 DEF AccesoOK
<1>4. Len(hilo[p].frs) + 1 \in DOMAIN hilo[p].pags
  <2>1. hilo[p].pags \in Seq(Ids) /\ hilo[p].frs \in Seq(Marcos)
    BY <1>1, Registro
  <2>2. Len(hilo[p].frs) \in Nat /\ Len(hilo[p].pags) \in Nat
        /\ DOMAIN hilo[p].pags = 1 .. Len(hilo[p].pags)
    BY <2>1, LenProperties
  <2>. QED
    BY <1>3, <2>2
<1>5. EnTabla(Buscada(p)) /\ Buscada(p)[1] = p
  BY <1>1, <1>2, <1>4 DEF AccesoOK, Buscada
<1>6. Buscada(p) \in Claves
  <2>1. hilo[p].pags \in Seq(Ids)
    BY <1>1, Registro
  <2>2. hilo[p].pags[Len(hilo[p].frs) + 1] \in Ids
    BY <1>4, <2>1
  <2>. QED
    BY <2>2 DEF Buscada, Claves
<1>7. pag[Buscada(p)].frame \in Marcos
  BY <1>5, <1>6 DEF Base, TablasOK
<1>8. /\ hilo[p].pc \in {"buscar", "falta"} => hilo[p].fr = SinMarco
      /\ hilo[p].pc \notin {"buscar", "falta"} => hilo[p].fr \in Marcos
  BY <1>1, Registro DEF TenenciaOK, PcConMarco
<1>. QED
  BY <1>2, <1>3, <1>5, <1>6, <1>7, <1>8

\* Where a thread goes when it has found a page.
PcTras(p) ==
    IF Len(hilo[p].frs) + 1 < Len(hilo[p].pags) THEN "buscar"
    ELSE IF hilo[p].op = "liberar" THEN "quitar" ELSE "copiar"

\* It looks for the next, or goes on with all of them.
LEMMA EncontradaHace ==
  ASSUME Base, NEW p \in Procesos, hilo[p].op \in Accesos, Len(hilo[p].frs) < Len(hilo[p].pags),
         NEW fr \in Marcos, Encontrada(p, fr)
  PROVE  /\ Queda(p, PcTras(p), hilo[p].op, hilo[p].pags, Append(hilo[p].frs, fr),
                  hilo[p].faltan, SinMarco, hilo[p].vic)
         /\ PcTras(p) \in PcAcceso /\ PcTras(p) \in {"buscar", "copiar", "quitar"}
         /\ PcTras(p) \notin PcConMarco /\ PcTras(p) \notin {"expulsar", "soltar"}
         /\ IF PcTras(p) \in {"copiar", "quitar"}
            THEN /\ Len(Append(hilo[p].frs, fr)) = Len(hilo[p].pags)
                 /\ PcTras(p) = "quitar" <=> hilo[p].op = "liberar"
            ELSE Len(Append(hilo[p].frs, fr)) < Len(hilo[p].pags)
         /\ SinMarco \notin Marcos
<1>1. TypeOK /\ hilo[p].frs \in Seq(Marcos) /\ hilo[p].pags \in Seq(Ids) /\ SinMarco \notin Marcos
  BY Registro, MarcosTipo DEF Base
<1>. DEFINE h == hilo[p]
            frs == Append(hilo[p].frs, fr)
            pc == PcTras(p)
            h1 == [h EXCEPT !.frs = frs]
            h2 == [h1 EXCEPT !.fr = SinMarco]
            h3 == [h2 EXCEPT !.pc = pc]
<1>2. hilo' = [hilo EXCEPT ![p] = h3]
  <2>. DEFINE g == [hilo[p] EXCEPT !.frs = Append(hilo[p].frs, fr), !.fr = SinMarco,
                                   !.pc = PcTras(p)]
  <2>1. hilo' = [hilo EXCEPT ![p] = g]
    BY DEF Encontrada, PcTras
  <2>2. g = h3
    BY <1>1, HiloTipo DEF TipoHilo
  <2>. QED
    BY <2>1, <2>2, Zenon
<1>3. h = [pc |-> h.pc, op |-> h.op, pags |-> h.pags, frs |-> h.frs, faltan |-> h.faltan,
           fr |-> h.fr, vic |-> h.vic]
  BY <1>1, Registro
<1>4. frs \in Seq(Marcos) /\ Len(frs) = Len(hilo[p].frs) + 1
  BY <1>1, AppendProperties
<1>5. Len(hilo[p].frs) \in Nat /\ Len(hilo[p].pags) \in Nat
  BY <1>1, LenProperties
<1>. HIDE DEF h, frs, pc
<1>6. h1 = [pc |-> h.pc, op |-> h.op, pags |-> h.pags, frs |-> frs, faltan |-> h.faltan,
            fr |-> h.fr, vic |-> h.vic]
  BY <1>3
<1>. HIDE DEF h1
<1>7. /\ h1.pc = h.pc /\ h1.op = h.op /\ h1.pags = h.pags /\ h1.frs = frs
      /\ h1.faltan = h.faltan /\ h1.vic = h.vic
  BY <1>6
<1>8. h2 = [pc |-> h.pc, op |-> h.op, pags |-> h.pags, frs |-> frs, faltan |-> h.faltan,
            fr |-> SinMarco, vic |-> h.vic]
  BY <1>6, <1>7
<1>. HIDE DEF h2
<1>9. /\ h2.op = h.op /\ h2.pags = h.pags /\ h2.frs = frs
      /\ h2.faltan = h.faltan /\ h2.vic = h.vic /\ h2.fr = SinMarco
  BY <1>8
<1>10. h3 = [pc |-> pc, op |-> h.op, pags |-> h.pags, frs |-> frs, faltan |-> h.faltan,
             fr |-> SinMarco, vic |-> h.vic]
  BY <1>8, <1>9
<1>. HIDE DEF h3
<1>11. Deja(p, pc, hilo[p].op, hilo[p].pags, frs, hilo[p].faltan, SinMarco, hilo[p].vic)
  BY <1>2, <1>10 DEF Deja, h
<1>12. /\ pc \in PcAcceso /\ pc \in {"buscar", "copiar", "quitar"}
       /\ pc \notin PcConMarco /\ pc \notin {"expulsar", "soltar"}
  BY DEF PcTras, PcAcceso, PcConMarco, pc
<1>13. IF pc \in {"copiar", "quitar"}
       THEN Len(frs) = Len(hilo[p].pags) /\ (pc = "quitar" <=> hilo[p].op = "liberar")
       ELSE Len(frs) < Len(hilo[p].pags)
  <2>1. CASE Len(hilo[p].frs) + 1 < Len(hilo[p].pags)
    BY <1>4, <2>1 DEF PcTras, pc
  <2>2. CASE ~(Len(hilo[p].frs) + 1 < Len(hilo[p].pags))
    <3>1. Len(frs) = Len(hilo[p].pags)
      BY <1>4, <1>5, <2>2
    <3>. QED
      BY <2>2, <3>1 DEF PcTras, pc
  <2>. QED
    BY <2>1, <2>2
<1>14. Queda(p, pc, hilo[p].op, hilo[p].pags, frs, hilo[p].faltan, SinMarco, hilo[p].vic)
  BY <1>1, <1>4, <1>11, <1>12, QuedaSi, Registro
<1>. QED
  BY <1>1, <1>12, <1>13, <1>14 DEF pc, frs

\* The pages a request locks when it looks for one.
Bloqueadas(p) ==
    CASE hilo[p].op = "liberar" -> {}
      [] hilo[p].op = "cabecera" -> {<<p, hilo[p].pags[i]>> : i \in DOMAIN hilo[p].frs}
      [] OTHER -> {Buscada(p)}

\* A page fault, an answer of the TLB, or a frame to tell the TLB.
LEMMA BuscarPaginaHace ==
  ASSUME Base, NEW p \in Procesos, BuscarPagina(p)
  PROVE  LET k == Buscada(p) IN
         /\ hilo[p].pc = "buscar" /\ caido = "no"
         /\ pag' \in [Claves -> TipoPagina]
         /\ \A l \in Claves :
               /\ pag'[l].frame = pag[l].frame /\ pag'[l].presencia = pag[l].presencia
               /\ pag'[l].modificado = pag[l].modificado
               /\ pag'[l].lock <=> pag[l].lock \/ l \in Bloqueadas(p)
         /\ usos' = Usar(k)
         /\ \/ /\ ~pag[k].presencia
               /\ Queda(p, "falta", hilo[p].op, hilo[p].pags, hilo[p].frs, hilo[p].faltan,
                        SinMarco, hilo[p].vic)
            \/ /\ pag[k].presencia
               /\ \E i \in EntradasTLB(k) :
                     /\ tlb[i].frame \in Marcos
                     /\ Encontrada(p, tlb[i].frame)
            \/ /\ pag[k].presencia /\ EntradasTLB(k) = {}
               /\ Queda(p, "actualizar", hilo[p].op, hilo[p].pags, hilo[p].frs, hilo[p].faltan,
                        pag[k].frame, hilo[p].vic)
         /\ UNCHANGED <<marco, mtxFrames, tabla, posClock, datos, tlb, caido, Resto>>
<1>. DEFINE k == Buscada(p)
<1>1. /\ TypeOK /\ hilo[p].pc = "buscar" /\ caido = "no"
      /\ tlb \in Seq(TipoEntrada) /\ pag \in [Claves -> TipoPagina]
  BY Tipos DEF BuscarPagina, En, Base
<1>2. k \in Claves /\ pag[k].frame \in Marcos /\ hilo[p].fr = SinMarco
  BY <1>1, QuienBusca
<1>3. /\ pag' = [l \in Claves |-> [pag[l] EXCEPT !.lock = @ \/ l \in Bloqueadas(p),
                                                 !.uso = @ \/ l = k]]
      /\ usos' = Usar(k)
      /\ IF ~pag[k].presencia THEN Ir(p, "falta")
         ELSE IF EntradasTLB(k) # {} THEN Encontrada(p, tlb[Min(EntradasTLB(k))].frame)
         ELSE hilo' = [hilo EXCEPT ![p].pc = "actualizar", ![p].fr = pag[k].frame]
      /\ UNCHANGED <<marco, mtxFrames, tabla, posClock, datos, tlb, caido, Resto>>
  BY DEF BuscarPagina, Bloqueadas
<1>. HIDE DEF k
<1>4. ASSUME NEW l \in Claves
      PROVE  /\ pag'[l] \in TipoPagina
             /\ pag'[l].frame = pag[l].frame /\ pag'[l].presencia = pag[l].presencia
             /\ pag'[l].modificado = pag[l].modificado
             /\ pag'[l].lock <=> pag[l].lock \/ l \in Bloqueadas(p)
  <2>. DEFINE b == pag[l].lock \/ l \in Bloqueadas(p)
              u == pag[l].uso \/ l = k
              v1 == [pag[l] EXCEPT !.lock = b]
              v2 == [v1 EXCEPT !.uso = u]
  <2>1. pag[l] \in TipoPagina
    BY <1>1
  <2>2. pag'[l] = [pag[l] EXCEPT !.lock = b, !.uso = u]
    BY <1>3
  <2>3. pag'[l] = v2
    BY <2>1, <2>2 DEF TipoPagina
  <2>4. b \in BOOLEAN /\ u \in BOOLEAN
    BY Zenon
  <2>. HIDE DEF b, u
  <2>5. /\ v1 \in TipoPagina /\ v1.frame = pag[l].frame /\ v1.presencia = pag[l].presencia
        /\ v1.modificado = pag[l].modificado /\ v1.lock = b
    BY <2>1, <2>4 DEF TipoPagina
  <2>. HIDE DEF v1
  <2>6. /\ v2 \in TipoPagina /\ v2.frame = pag[l].frame /\ v2.presencia = pag[l].presencia
        /\ v2.modificado = pag[l].modificado /\ v2.lock = b
    BY <2>4, <2>5 DEF TipoPagina
  <2>. HIDE DEF v2
  <2>7. pag'[l].lock = b
    BY <2>3, <2>6
  <2>8. pag'[l].lock <=> pag[l].lock \/ l \in Bloqueadas(p)
    BY <2>7, Zenon DEF b
  <2>. QED
    BY <2>3, <2>6, <2>8
<1>5. pag' \in [Claves -> TipoPagina]
  BY <1>3, <1>4
<1>6. CASE ~pag[k].presencia
  <2>1. Queda(p, "falta", hilo[p].op, hilo[p].pags, hilo[p].frs, hilo[p].faltan,
              hilo[p].fr, hilo[p].vic)
    <3>1. "falta" \in PcAcceso
      BY DEF PcAcceso
    <3>. QED
      BY <1>1, <1>3, <1>6, <3>1, IrHace
  <2>. QED
    BY <1>1, <1>2, <1>3, <1>4, <1>5, <1>6, <2>1 DEF k
<1>7. CASE pag[k].presencia /\ EntradasTLB(k) # {}
  <2>. DEFINE i == Min(EntradasTLB(k))
  <2>1. /\ EntradasTLB(k) \subseteq DOMAIN tlb /\ DOMAIN tlb \subseteq Nat
    BY <1>1, LenProperties DEF EntradasTLB
  <2>2. i \in EntradasTLB(k)
    <3>1. EntradasTLB(k) \subseteq Nat
      BY <2>1
    <3>. QED
      BY <1>7, <3>1, MinimoExiste
  <2>. HIDE DEF i
  <2>3. tlb[i] \in TipoEntrada
    BY <1>1, <2>1, <2>2, ElementOfSeq, LenProperties
  <2>4. tlb[i].frame \in Marcos /\ Encontrada(p, tlb[i].frame)
    BY <1>3, <1>7, <2>3 DEF TipoEntrada, i
  <2>. QED
    BY <1>1, <1>3, <1>4, <1>5, <1>7, <2>2, <2>4 DEF k
<1>8. CASE pag[k].presencia /\ EntradasTLB(k) = {}
  <2>1. Deja(p, "actualizar", hilo[p].op, hilo[p].pags, hilo[p].frs, hilo[p].faltan,
             pag[k].frame, hilo[p].vic)
    BY <1>1, <1>3, <1>8, DejaPcFr
  <2>2. "actualizar" \in PcAcceso
    BY DEF PcAcceso
  <2>3. Queda(p, "actualizar", hilo[p].op, hilo[p].pags, hilo[p].frs, hilo[p].faltan,
              pag[k].frame, hilo[p].vic)
    BY <1>1, <1>2, <2>1, <2>2, QuedaSi, Registro
  <2>. QED
    BY <1>1, <1>3, <1>4, <1>5, <1>8, <2>3 DEF k
<1>. QED
  BY <1>6, <1>7, <1>8

\* The look keeps Base.
LEMMA BuscarPaginaBase ==
  ASSUME Base, NEW p \in Procesos, BuscarPagina(p)
  PROVE  Base'
<1>. DEFINE k == Buscada(p)
<1>1. /\ hilo[p].pc = "buscar" /\ pag' \in [Claves -> TipoPagina]
      /\ \A l \in Claves : pag'[l].frame = pag[l].frame /\ pag'[l].presencia = pag[l].presencia
      /\ usos' = Usar(k)
      /\ UNCHANGED <<marco, mtxFrames, tabla, posClock, datos, tlb, caido, Resto>>
  BY BuscarPaginaHace
<1>2. /\ hilo[p].op \in Accesos /\ hilo[p].op \notin Altas
      /\ Len(hilo[p].frs) < Len(hilo[p].pags) /\ k \in Claves /\ pag[k].frame \in Marcos
  BY <1>1, QuienBusca
<1>3. TypeOK /\ usos' \in Seq(Claves) /\ ToSet(usos) \subseteq ToSet(usos')
  BY <1>1, <1>2, UsarTipo DEF Base
<1>4. /\ marco \in [Marcos -> TipoMarco] /\ mtxFrames \in Procesos \union {Nadie}
      /\ ram \in [Marcos -> Claves \union {Nadie}]
      /\ enSwap \in [Claves -> BOOLEAN] /\ tlb \in Seq(TipoEntrada) /\ caido \in Causas
      /\ posClock \in Nat /\ SinMarco \notin Marcos
  BY <1>3, Tipos, MarcosTipo
<1>5. /\ marco' = marco /\ mtxFrames' = mtxFrames /\ posClock' = posClock /\ ram' = ram
      /\ enSwap' = enSwap /\ tlb' = tlb /\ caido' = caido /\ UNCHANGED <<tabla, Resto>>
  BY <1>1 DEF datos
<1>6. \A l \in Claves : pag[l].frame \in Marcos \/ pag'[l].presencia => pag'[l].frame \in Marcos
  BY <1>1 DEF Base, TablasOK
<1>7. CASE Queda(p, "falta", hilo[p].op, hilo[p].pags, hilo[p].frs, hilo[p].faltan,
                 SinMarco, hilo[p].vic)
  <2>1. /\ "falta" \in PcAcceso /\ "falta" \notin PcConMarco /\ "falta" \notin {"copiar", "quitar"}
        /\ "falta" \notin {"expulsar", "soltar"}
    BY DEF PcAcceso, PcConMarco
  <2>. QED
    BY <1>1, <1>2, <1>3, <1>4, <1>5, <1>6, <1>7, <2>1, SigueBase
<1>8. ASSUME NEW i, tlb[i].frame \in Marcos, Encontrada(p, tlb[i].frame)  PROVE Base'
  <2>. DEFINE frs == Append(hilo[p].frs, tlb[i].frame)
  <2>1. /\ Queda(p, PcTras(p), hilo[p].op, hilo[p].pags, frs, hilo[p].faltan, SinMarco,
                 hilo[p].vic)
        /\ PcTras(p) \in PcAcceso /\ PcTras(p) \notin PcConMarco
        /\ PcTras(p) \notin {"expulsar", "soltar"}
        /\ IF PcTras(p) \in {"copiar", "quitar"}
           THEN Len(frs) = Len(hilo[p].pags) /\ (PcTras(p) = "quitar" <=> hilo[p].op = "liberar")
           ELSE Len(frs) < Len(hilo[p].pags)
    BY <1>2, <1>8, EncontradaHace
  <2>. HIDE DEF frs
  <2>. QED
    BY <1>1, <1>2, <1>3, <1>4, <1>5, <1>6, <2>1, SigueBase
<1>9. CASE Queda(p, "actualizar", hilo[p].op, hilo[p].pags, hilo[p].frs, hilo[p].faltan,
                 pag[k].frame, hilo[p].vic)
  <2>1. /\ "actualizar" \in PcAcceso /\ "actualizar" \in PcConMarco
        /\ "actualizar" \notin {"copiar", "quitar"} /\ "actualizar" \notin {"expulsar", "soltar"}
    BY DEF PcAcceso, PcConMarco
  <2>. QED
    BY <1>1, <1>2, <1>3, <1>4, <1>5, <1>6, <1>9, <2>1, SigueBase
<1>. QED
  BY <1>7, <1>8, <1>9, BuscarPaginaHace

\* traer_pagina_a_mp: a free frame, which only dynamic assignment marks, or a victim.
LEMMA BuscarMarcoHace ==
  ASSUME Base, NEW p \in Procesos, BuscarMarco(p)
  PROVE  /\ hilo[p].pc = "falta" /\ caido = "no"
         /\ \/ /\ MarcosLibres(p) = {}
               /\ Queda(p, "elegir", hilo[p].op, hilo[p].pags, hilo[p].frs, hilo[p].faltan,
                        SinMarco, hilo[p].vic)
               /\ marco' = marco
            \/ \E f \in MarcosLibres(p) :
                  /\ Queda(p, "traer", hilo[p].op, hilo[p].pags, hilo[p].frs, hilo[p].faltan,
                           f, hilo[p].vic)
                  /\ marco' = [marco EXCEPT ![f].ocupado = ~Fija]
         /\ mtxFrames' \in Procesos \union {Nadie}
         /\ UNCHANGED <<tablas, posClock, datos, tlb, caido, Resto>>
<1>1. /\ TypeOK /\ hilo[p].pc = "falta" /\ caido = "no" /\ hilo[p].fr = SinMarco
      /\ marco \in [Marcos -> TipoMarco] /\ mtxFrames \in Procesos \union {Nadie}
  BY Tipos, QuienBusca DEF BuscarMarco, En, Base
<1>2. UNCHANGED <<tablas, posClock, datos, tlb, caido, Resto>>
  BY DEF BuscarMarco
<1>3. CASE MarcosLibres(p) = {}
  <2>1. Ir(p, "elegir") /\ marco' = marco /\ mtxFrames' \in Procesos \union {Nadie}
    BY <1>1, <1>3 DEF BuscarMarco
  <2>2. "elegir" \in PcReposo \union PcAlta \union PcAcceso
    BY DEF PcAcceso
  <2>3. Queda(p, "elegir", hilo[p].op, hilo[p].pags, hilo[p].frs, hilo[p].faltan,
              hilo[p].fr, hilo[p].vic)
    BY <1>1, <2>1, <2>2, IrHace
  <2>. QED
    BY <1>1, <1>2, <1>3, <2>1, <2>3
<1>4. CASE MarcosLibres(p) # {}
  <2>. DEFINE f == Primero(MarcosLibres(p))
  <2>1. f \in MarcosLibres(p) /\ f \in Marcos /\ ~marco[f].ocupado
    BY <1>1, <1>4, PrimeroTipo DEF MarcosLibres
  <2>2. /\ marco' = [marco EXCEPT ![f].ocupado = marco[f].ocupado \/ ~Fija]
        /\ hilo' = [hilo EXCEPT ![p].pc = "traer", ![p].fr = f]
        /\ mtxFrames' = mtxFrames
    BY <1>4 DEF BuscarMarco
  <2>. HIDE DEF f
  <2>3. (marco[f].ocupado \/ ~Fija) = ~Fija
    BY <2>1
  <2>4. marco' = [marco EXCEPT ![f].ocupado = ~Fija]
    BY <2>2, <2>3, Zenon
  <2>5. Deja(p, "traer", hilo[p].op, hilo[p].pags, hilo[p].frs, hilo[p].faltan, f, hilo[p].vic)
    BY <1>1, <2>2, DejaPcFr
  <2>6. "traer" \in PcAcceso
    BY DEF PcAcceso
  <2>7. Queda(p, "traer", hilo[p].op, hilo[p].pags, hilo[p].frs, hilo[p].faltan, f, hilo[p].vic)
    BY <1>1, <2>1, <2>5, <2>6, QuedaSi, Registro
  <2>. QED
    BY <1>1, <1>2, <1>4, <2>1, <2>2, <2>4, <2>7
<1>. QED
  BY <1>3, <1>4

\* A step of a request for pages that leaves the pages as they are.
LEMMA BuscarMarcoBase ==
  ASSUME Base, NEW p \in Procesos, BuscarMarco(p)
  PROVE  Base'
<1>1. /\ hilo[p].pc = "falta" /\ mtxFrames' \in Procesos \union {Nadie}
      /\ UNCHANGED <<tablas, posClock, datos, tlb, caido, Resto>>
  BY BuscarMarcoHace
<1>2. /\ hilo[p].op \in Accesos /\ hilo[p].op \notin Altas
      /\ Len(hilo[p].frs) < Len(hilo[p].pags)
  BY <1>1, QuienBusca
<1>3. TypeOK
  BY DEF Base
<1>4. /\ marco \in [Marcos -> TipoMarco] /\ pag \in [Claves -> TipoPagina]
      /\ usos \in Seq(Claves) /\ ram \in [Marcos -> Claves \union {Nadie}]
      /\ enSwap \in [Claves -> BOOLEAN] /\ tlb \in Seq(TipoEntrada) /\ caido \in Causas
      /\ posClock \in Nat /\ SinMarco \notin Marcos
  BY <1>3, Tipos, MarcosTipo
<1>5. /\ pag' = pag /\ usos' = usos /\ posClock' = posClock /\ ram' = ram
      /\ enSwap' = enSwap /\ tlb' = tlb /\ caido' = caido /\ UNCHANGED <<tabla, Resto>>
  BY <1>1 DEF tablas, datos
<1>6. \A l \in Claves : pag[l].frame \in Marcos \/ pag'[l].presencia => pag'[l].frame \in Marcos
  BY <1>5 DEF Base, TablasOK
<1>7. /\ "elegir" \in PcAcceso /\ "elegir" \notin PcConMarco /\ "elegir" \notin {"copiar", "quitar"}
      /\ "elegir" \notin {"expulsar", "soltar"}
      /\ "traer" \in PcAcceso /\ "traer" \in PcConMarco /\ "traer" \notin {"copiar", "quitar"}
      /\ "traer" \notin {"expulsar", "soltar"}
  BY DEF PcAcceso, PcConMarco
<1>8. CASE /\ Queda(p, "elegir", hilo[p].op, hilo[p].pags, hilo[p].frs, hilo[p].faltan,
                    SinMarco, hilo[p].vic)
           /\ marco' = marco
  BY <1>1, <1>2, <1>4, <1>5, <1>6, <1>7, <1>8, SigueBase
<1>9. ASSUME NEW f \in MarcosLibres(p),
             Queda(p, "traer", hilo[p].op, hilo[p].pags, hilo[p].frs, hilo[p].faltan,
                   f, hilo[p].vic),
             marco' = [marco EXCEPT ![f].ocupado = ~Fija]
      PROVE  Base'
  <2>1. f \in Marcos
    BY DEF MarcosLibres
  <2>3. (~Fija) \in BOOLEAN
    BY DEF Fija
  <2>2. marco' \in [Marcos -> TipoMarco]
    BY <1>3, <1>9, <2>1, <2>3, MarcarTipo
  <2>. QED
    BY <1>1, <1>2, <1>4, <1>5, <1>6, <1>7, <1>9, <2>1, <2>2, SigueBase
<1>. QED
  BY <1>8, <1>9, BuscarMarcoHace

\* The page comes to the frame of the thread, clean, with what swamp has.
LEMMA TraerHace ==
  ASSUME Base, NEW p \in Procesos, TraerPagina(p)
  PROVE  LET k == Buscada(p)
             f == hilo[p].fr IN
         /\ hilo[p].pc = "traer" /\ caido = "no" /\ f \in Marcos /\ k \in Claves
         /\ Queda(p, "actualizar", hilo[p].op, hilo[p].pags, hilo[p].frs, hilo[p].faltan,
                  f, hilo[p].vic)
         /\ pag' \in [Claves -> TipoPagina]
         /\ \A l \in Claves : l # k => pag'[l] = pag[l]
         /\ pag'[k].frame = f /\ pag'[k].presencia = TRUE /\ pag'[k].modificado = FALSE
         /\ pag'[k].lock = pag[k].lock /\ pag'[k].uso = pag[k].uso
         /\ ram' \in [Marcos -> Claves \union {Nadie}]
         /\ ram'[f] = IF enSwap[k] THEN k ELSE Nadie
         /\ \A g \in Marcos : g # f => ram'[g] = ram[g]
         /\ UNCHANGED <<marco, mtxFrames, tabla, usos, posClock, enSwap, tlb, caido, Resto>>
<1>. DEFINE k == Buscada(p)
            f == hilo[p].fr
<1>1. /\ TypeOK /\ hilo[p].pc = "traer" /\ caido = "no" /\ f \in Marcos /\ k \in Claves
      /\ ram \in [Marcos -> Claves \union {Nadie}]
  BY Tipos, QuienBusca DEF TraerPagina, En, Base
<1>2. /\ ram' = [ram EXCEPT ![f] = IF enSwap[k] THEN k ELSE Nadie]
      /\ pag' = [pag EXCEPT ![k].presencia = TRUE, ![k].modificado = FALSE, ![k].frame = f]
      /\ Ir(p, "actualizar")
      /\ UNCHANGED <<marco, mtxFrames, tabla, usos, posClock, enSwap, tlb, caido, Resto>>
  BY DEF TraerPagina
<1>3. Queda(p, "actualizar", hilo[p].op, hilo[p].pags, hilo[p].frs, hilo[p].faltan,
            f, hilo[p].vic)
  <2>1. "actualizar" \in PcAcceso
    BY DEF PcAcceso
  <2>. QED
    BY <1>1, <1>2, <2>1, IrHace
<1>. HIDE DEF k, f
<1>4. /\ pag' \in [Claves -> TipoPagina]
      /\ \A l \in Claves : l # k => pag'[l] = pag[l]
      /\ pag'[k].frame = f /\ pag'[k].presencia = TRUE /\ pag'[k].modificado = FALSE
      /\ pag'[k].lock = pag[k].lock /\ pag'[k].uso = pag[k].uso
  <2>. DEFINE v1 == [pag[k] EXCEPT !.presencia = TRUE]
              v2 == [v1 EXCEPT !.modificado = FALSE]
              v3 == [v2 EXCEPT !.frame = f]
  <2>1. pag[k] \in TipoPagina
    BY <1>1, PaginaCampos
  <2>2. pag' = [pag EXCEPT ![k] = v3]
    BY <1>1, <1>2, Tipos
  <2>3. v1 \in TipoPagina /\ v1.presencia = TRUE /\ v1.lock = pag[k].lock /\ v1.uso = pag[k].uso
    BY <2>1 DEF TipoPagina
  <2>. HIDE DEF v1
  <2>4. /\ v2 \in TipoPagina /\ v2.presencia = TRUE /\ v2.lock = pag[k].lock
        /\ v2.uso = pag[k].uso /\ v2.modificado = FALSE
    BY <2>3 DEF TipoPagina
  <2>. HIDE DEF v2
  <2>5. /\ v3 \in TipoPagina /\ v3.presencia = TRUE /\ v3.lock = pag[k].lock
        /\ v3.uso = pag[k].uso /\ v3.modificado = FALSE /\ v3.frame = f
    BY <1>1, <2>4 DEF TipoPagina
  <2>. HIDE DEF v3
  <2>. QED
    BY <1>1, <2>2, <2>5, PaginaTipo
<1>5. /\ ram' \in [Marcos -> Claves \union {Nadie}]
      /\ ram'[f] = IF enSwap[k] THEN k ELSE Nadie
      /\ \A g \in Marcos : g # f => ram'[g] = ram[g]
  BY <1>1, <1>2
<1>. QED
  BY <1>1, <1>2, <1>3, <1>4, <1>5 DEF k, f

\* And Base stays.
LEMMA TraerBase ==
  ASSUME Base, NEW p \in Procesos, TraerPagina(p)
  PROVE  Base'
<1>. DEFINE k == Buscada(p)
            f == hilo[p].fr
<1>1. /\ hilo[p].pc = "traer" /\ f \in Marcos /\ k \in Claves
      /\ Queda(p, "actualizar", hilo[p].op, hilo[p].pags, hilo[p].frs, hilo[p].faltan,
               f, hilo[p].vic)
      /\ pag' \in [Claves -> TipoPagina] /\ ram' \in [Marcos -> Claves \union {Nadie}]
      /\ \A l \in Claves : l # k => pag'[l] = pag[l]
      /\ pag'[k].frame = f
      /\ UNCHANGED <<marco, mtxFrames, tabla, usos, posClock, enSwap, tlb, caido, Resto>>
  BY TraerHace
<1>2. /\ hilo[p].op \in Accesos /\ hilo[p].op \notin Altas
      /\ Len(hilo[p].frs) < Len(hilo[p].pags)
  BY <1>1, QuienBusca
<1>3. /\ marco \in [Marcos -> TipoMarco] /\ mtxFrames \in Procesos \union {Nadie}
      /\ usos \in Seq(Claves) /\ enSwap \in [Claves -> BOOLEAN] /\ tlb \in Seq(TipoEntrada)
      /\ caido \in Causas /\ posClock \in Nat
  BY Tipos DEF Base
<1>4. /\ "actualizar" \in PcAcceso /\ "actualizar" \in PcConMarco
      /\ "actualizar" \notin {"copiar", "quitar"} /\ "actualizar" \notin {"expulsar", "soltar"}
  BY DEF PcAcceso, PcConMarco
<1>. HIDE DEF k, f
<1>5. \A l \in Claves : pag[l].frame \in Marcos \/ pag'[l].presencia => pag'[l].frame \in Marcos
  BY <1>1 DEF Base, TablasOK
<1>. QED
  BY <1>1, <1>2, <1>3, <1>4, <1>5, SigueBase

\* The entry of a found page is of the right type.
LEMMA EntradaTipo ==
  ASSUME Base, NEW p \in Procesos, hilo[p].pc \in {"actualizar", "reemplazar"}
  PROVE  /\ Entrada(p) \in TipoEntrada /\ hilo[p].fr \in Marcos
         /\ Entrada(p).pid = p /\ Entrada(p).pag = Buscada(p)[2]
         /\ Entrada(p).frame = hilo[p].fr
<1>1. Buscada(p) \in Claves /\ hilo[p].fr \in Marcos
  BY QuienBusca
<1>2. Buscada(p)[2] \in Ids
  BY <1>1 DEF Claves
<1>. QED
  BY <1>1, <1>2 DEF Entrada, TipoEntrada

\* The TLB is full, and will be replaced in, or gets the entry.
LEMMA ActualizarHace ==
  ASSUME Base, NEW p \in Procesos, ActualizarTLB(p)
  PROVE  /\ hilo[p].pc = "actualizar" /\ caido = "no" /\ hilo[p].fr \in Marcos
         /\ \/ /\ conf.entradas > 0 /\ Len(tlb) >= conf.entradas
               /\ Queda(p, "reemplazar", hilo[p].op, hilo[p].pags, hilo[p].frs, hilo[p].faltan,
                        hilo[p].fr, hilo[p].vic)
               /\ tlb' = tlb
            \/ /\ conf.entradas > 0 => Len(tlb) < conf.entradas
               /\ Encontrada(p, hilo[p].fr)
               /\ tlb' = IF conf.entradas = 0 THEN tlb ELSE Append(tlb, Entrada(p))
         /\ tlb' \in Seq(TipoEntrada)
         /\ UNCHANGED <<marco, mtxFrames, tablas, posClock, datos, caido, Resto>>
<1>1. /\ TypeOK /\ hilo[p].pc = "actualizar" /\ caido = "no" /\ tlb \in Seq(TipoEntrada)
      /\ UNCHANGED <<marco, mtxFrames, tablas, posClock, datos, caido, Resto>>
  BY Tipos DEF ActualizarTLB, En, Base
<1>2. Entrada(p) \in TipoEntrada /\ hilo[p].fr \in Marcos
  BY <1>1, EntradaTipo
<1>3. Append(tlb, Entrada(p)) \in Seq(TipoEntrada) /\ Len(tlb) \in Nat /\ conf.entradas \in Nat
  BY <1>1, <1>2, AppendProperties, LenProperties, ConfTipo
<1>4. CASE conf.entradas > 0 /\ Len(tlb) >= conf.entradas
  <2>1. Ir(p, "reemplazar") /\ tlb' = tlb
    BY <1>4 DEF ActualizarTLB
  <2>2. "reemplazar" \in PcAcceso
    BY DEF PcAcceso
  <2>3. Queda(p, "reemplazar", hilo[p].op, hilo[p].pags, hilo[p].frs, hilo[p].faltan,
              hilo[p].fr, hilo[p].vic)
    BY <1>1, <2>1, <2>2, IrHace
  <2>. QED
    BY <1>1, <1>2, <1>4, <2>1, <2>3
<1>5. CASE ~(conf.entradas > 0 /\ Len(tlb) >= conf.entradas)
  <2>1. /\ Encontrada(p, hilo[p].fr)
        /\ tlb' = IF conf.entradas = 0 THEN tlb ELSE Append(tlb, Entrada(p))
    BY <1>5 DEF ActualizarTLB
  <2>2. conf.entradas > 0 => Len(tlb) < conf.entradas
    BY <1>3, <1>5
  <2>. QED
    BY <1>1, <1>2, <1>3, <2>1, <2>2
<1>. QED
  BY <1>4, <1>5

\* An empty TLB kills memoria; with FIFO the first entry makes room, with LRU none.
LEMMA ReemplazarHace ==
  ASSUME Base, NEW p \in Procesos, ReemplazarTLB(p)
  PROVE  /\ hilo[p].pc = "reemplazar" /\ caido = "no" /\ hilo[p].fr \in Marcos
         /\ \/ tlb = <<>> /\ Morir("tlbVacia") /\ hilo' = hilo /\ tlb' = tlb
            \/ /\ tlb # <<>> /\ tlb' = Append(Quedan, Entrada(p))
               /\ Encontrada(p, hilo[p].fr) /\ caido' = caido
         /\ tlb' \in Seq(TipoEntrada)
         /\ UNCHANGED <<marco, mtxFrames, tablas, posClock, datos, Resto>>
<1>1. /\ TypeOK /\ hilo[p].pc = "reemplazar" /\ caido = "no" /\ tlb \in Seq(TipoEntrada)
      /\ UNCHANGED <<marco, mtxFrames, tablas, posClock, datos, Resto>>
  BY Tipos DEF ReemplazarTLB, En, Base
<1>2. Entrada(p) \in TipoEntrada /\ hilo[p].fr \in Marcos
  BY <1>1, EntradaTipo
<1>3. CASE tlb = <<>>
  BY <1>1, <1>2, <1>3 DEF ReemplazarTLB
<1>4. CASE tlb # <<>>
  <2>1. /\ tlb' = Append(Quedan, Entrada(p))
        /\ Encontrada(p, hilo[p].fr) /\ caido' = caido
    BY <1>4 DEF ReemplazarTLB
  <2>2. Quedan \in Seq(TipoEntrada)
    BY <1>1, <1>4, HeadTailProperties DEF Quedan
  <2>3. Append(Quedan, Entrada(p)) \in Seq(TipoEntrada)
    BY <1>2, <2>2, AppendProperties
  <2>. QED
    BY <1>1, <1>2, <1>4, <2>1, <2>3
<1>. QED
  BY <1>3, <1>4

\* Both keep Base.
LEMMA TLBBase ==
  ASSUME Base, NEW p \in Procesos, ActualizarTLB(p) \/ ReemplazarTLB(p)
  PROVE  Base'
<1>1. /\ hilo[p].pc \in {"actualizar", "reemplazar"} /\ tlb' \in Seq(TipoEntrada)
      /\ UNCHANGED <<marco, mtxFrames, tablas, posClock, datos, Resto>>
      /\ hilo[p].fr \in Marcos
  BY ActualizarHace, ReemplazarHace
<1>2. /\ hilo[p].op \in Accesos /\ hilo[p].op \notin Altas
      /\ Len(hilo[p].frs) < Len(hilo[p].pags)
  BY <1>1, QuienBusca
<1>3. TypeOK
  BY DEF Base
<1>4. /\ marco \in [Marcos -> TipoMarco] /\ pag \in [Claves -> TipoPagina]
      /\ mtxFrames \in Procesos \union {Nadie}
      /\ usos \in Seq(Claves) /\ ram \in [Marcos -> Claves \union {Nadie}]
      /\ enSwap \in [Claves -> BOOLEAN] /\ caido \in Causas
      /\ posClock \in Nat /\ SinMarco \notin Marcos
  BY <1>3, Tipos, MarcosTipo
<1>5. /\ pag' = pag /\ usos' = usos /\ posClock' = posClock /\ ram' = ram
      /\ enSwap' = enSwap /\ marco' = marco /\ mtxFrames' = mtxFrames /\ UNCHANGED <<tabla, Resto>>
  BY <1>1 DEF tablas, datos
<1>6. \A l \in Claves : pag[l].frame \in Marcos \/ pag'[l].presencia => pag'[l].frame \in Marcos
  BY <1>5 DEF Base, TablasOK
<1>7. CASE /\ Queda(p, "reemplazar", hilo[p].op, hilo[p].pags, hilo[p].frs, hilo[p].faltan,
                    hilo[p].fr, hilo[p].vic)
           /\ caido' = caido
  <2>1. /\ "reemplazar" \in PcAcceso /\ "reemplazar" \in PcConMarco
        /\ "reemplazar" \notin {"copiar", "quitar"} /\ "reemplazar" \notin {"expulsar", "soltar"}
    BY DEF PcAcceso, PcConMarco
  <2>. QED
    BY <1>1, <1>2, <1>4, <1>5, <1>6, <1>7, <2>1, SigueBase
<1>8. CASE Encontrada(p, hilo[p].fr) /\ caido' = caido
  <2>. DEFINE frs == Append(hilo[p].frs, hilo[p].fr)
  <2>1. /\ Queda(p, PcTras(p), hilo[p].op, hilo[p].pags, frs, hilo[p].faltan, SinMarco,
                 hilo[p].vic)
        /\ PcTras(p) \in PcAcceso /\ PcTras(p) \notin PcConMarco
        /\ PcTras(p) \notin {"expulsar", "soltar"}
        /\ IF PcTras(p) \in {"copiar", "quitar"}
           THEN Len(frs) = Len(hilo[p].pags) /\ (PcTras(p) = "quitar" <=> hilo[p].op = "liberar")
           ELSE Len(frs) < Len(hilo[p].pags)
    BY <1>1, <1>2, <1>8, EncontradaHace
  <2>. HIDE DEF frs
  <2>. QED
    BY <1>1, <1>2, <1>4, <1>5, <1>6, <1>8, <2>1, SigueBase
<1>9. CASE Morir("tlbVacia") /\ hilo' = hilo /\ tlb' = tlb
  <2>1. "tlbVacia" \in Causas
    BY DEF Causas
  <2>. QED
    BY <1>1, <1>9, <2>1, MorirBase
<1>. QED
  BY <1>7, <1>8, <1>9, ActualizarHace, ReemplazarHace

\* The pages a request has found.
Halladas(p) == {<<p, hilo[p].pags[i]>> : i \in DOMAIN hilo[p].frs}

\* A thread that has found them all.
LEMMA QuienTermina ==
  ASSUME Base, NEW p \in Procesos, hilo[p].pc \in {"copiar", "quitar"}
  PROVE  /\ hilo[p].op \in Accesos
         /\ Len(hilo[p].pags) \in 1 .. 2 /\ Len(hilo[p].frs) = Len(hilo[p].pags)
         /\ DOMAIN hilo[p].pags = 1 .. Len(hilo[p].pags) /\ DOMAIN hilo[p].frs = DOMAIN hilo[p].pags
         /\ \A i \in DOMAIN hilo[p].pags :
               /\ hilo[p].frs[i] \in Marcos
               /\ PaginasPedidas(p)[i] = <<p, hilo[p].pags[i]>>
               /\ <<p, hilo[p].pags[i]>> \in Claves /\ EnTabla(<<p, hilo[p].pags[i]>>)
         /\ DOMAIN PaginasPedidas(p) = DOMAIN hilo[p].pags
         /\ ToSet(PaginasPedidas(p)) = Halladas(p) /\ Halladas(p) \subseteq Claves
         /\ hilo[p].pc = "quitar" <=> hilo[p].op = "liberar"
         /\ hilo[p].pc = "quitar" => Len(hilo[p].pags) = 1
<1>1. ReposoOK(p) /\ AccesoOK(p) /\ AltaOK(p) /\ TypeOK
  BY DEF Base, HilosOK
<1>2. hilo[p].op \in Accesos
  BY <1>1 DEF ReposoOK, AltaOK, PcReposo, PcAlta
<1>3. /\ Len(hilo[p].pags) \in 1 .. 2 /\ Len(hilo[p].frs) = Len(hilo[p].pags)
      /\ hilo[p].pc = "quitar" <=> hilo[p].op = "liberar"
      /\ hilo[p].pc = "quitar" => Len(hilo[p].pags) = 1
      /\ \A i \in DOMAIN hilo[p].pags : EnTabla(<<p, hilo[p].pags[i]>>)
  BY <1>1, <1>2 DEF AccesoOK
<1>4. hilo[p].pags \in Seq(Ids) /\ hilo[p].frs \in Seq(Marcos)
  BY <1>1, Registro
<1>5. DOMAIN hilo[p].pags = 1 .. Len(hilo[p].pags) /\ DOMAIN hilo[p].frs = DOMAIN hilo[p].pags
  BY <1>3, <1>4, LenProperties
<1>6. ASSUME NEW i \in DOMAIN hilo[p].pags
      PROVE  hilo[p].frs[i] \in Marcos /\ hilo[p].pags[i] \in Ids
  BY <1>4, <1>5, ElementOfSeq, LenProperties
<1>7. \A i \in DOMAIN hilo[p].pags : <<p, hilo[p].pags[i]>> \in Claves
  BY <1>6 DEF Claves
<1>8. /\ DOMAIN PaginasPedidas(p) = DOMAIN hilo[p].pags
      /\ \A i \in DOMAIN hilo[p].pags : PaginasPedidas(p)[i] = <<p, hilo[p].pags[i]>>
  BY DEF PaginasPedidas
<1>9. ToSet(PaginasPedidas(p)) = Halladas(p) /\ Halladas(p) \subseteq Claves
  BY <1>5, <1>7, <1>8 DEF ToSet, Halladas
<1>. QED
  BY <1>2, <1>3, <1>5, <1>6, <1>7, <1>8, <1>9

\* A copy unlocks the pages; one that writes makes them modified, and every other copy of them
\* old.
LEMMA CopiarHace ==
  ASSUME Base, NEW p \in Procesos, Copiar(p)
  PROVE  LET frs == hilo[p].frs
             pags == hilo[p].pags
             escribe == hilo[p].op \in {"escribir", "guardar"} IN
         /\ hilo[p].pc = "copiar" /\ caido = "no"
         /\ hilo'[p] = Libre /\ \A q \in Procesos \ {p} : hilo'[q] = hilo[q]
         /\ hilo' \in [Procesos -> TipoHilo]
         /\ pag' \in [Claves -> TipoPagina]
         /\ \A l \in Claves :
               /\ pag'[l].frame = pag[l].frame /\ pag'[l].presencia = pag[l].presencia
               /\ pag'[l].modificado <=> pag[l].modificado \/ (escribe /\ l \in Halladas(p))
               /\ pag'[l].lock <=> pag[l].lock /\ l \notin Halladas(p)
         /\ ram' \in [Marcos -> Claves \union {Nadie}] /\ enSwap' \in [Claves -> BOOLEAN]
         /\ ~escribe => ram' = ram /\ enSwap' = enSwap
         /\ escribe =>
               /\ \A l \in Claves : enSwap'[l] <=> enSwap[l] /\ l \notin Halladas(p)
               /\ \A f \in Marcos :
                     \/ \E i \in DOMAIN frs : frs[i] = f /\ ram'[f] = <<p, pags[i]>>
                     \/ /\ \A i \in DOMAIN frs : frs[i] # f
                        /\ ram'[f] = IF ram[f] \in Halladas(p) THEN Nadie ELSE ram[f]
         /\ UNCHANGED <<marco, mtxFrames, tabla, usos, posClock, tlb, caido, Resto>>
<1>. DEFINE frs == hilo[p].frs
            pags == hilo[p].pags
            ks == PaginasPedidas(p)
            H == Halladas(p)
            escribe == hilo[p].op \in {"escribir", "guardar"}
<1>1. /\ hilo[p].pc = "copiar" /\ caido = "no" /\ TypeOK
      /\ ram \in [Marcos -> Claves \union {Nadie}] /\ enSwap \in [Claves -> BOOLEAN]
  BY Tipos DEF Copiar, En, Base
<1>2. /\ Len(pags) \in 1 .. 2 /\ DOMAIN frs = 1 .. Len(pags) /\ ToSet(ks) = H
      /\ \A i \in DOMAIN frs : /\ frs[i] \in Marcos /\ ks[i] = <<p, pags[i]>>
                               /\ <<p, pags[i]>> \in Claves
  BY <1>1, QuienTermina
<1>3. /\ hilo'[p] = Libre /\ \A q \in Procesos \ {p} : hilo'[q] = hilo[q]
      /\ hilo' \in [Procesos -> TipoHilo]
  BY TerminarHace DEF Copiar
<1>4. /\ IF escribe THEN Escribir(ks, frs) ELSE UNCHANGED datos
      /\ pag' = [k \in Claves |-> IF k \in ToSet(ks) THEN Copiada(k, escribe) ELSE pag[k]]
      /\ UNCHANGED <<marco, mtxFrames, tabla, usos, posClock, tlb, caido, Resto>>
  BY DEF Copiar
<1>5. escribe \in BOOLEAN
  OBVIOUS
<1>. HIDE DEF escribe, frs, pags, ks, H
<1>6. ASSUME NEW l \in Claves
      PROVE  /\ pag'[l] \in TipoPagina
             /\ pag'[l].frame = pag[l].frame /\ pag'[l].presencia = pag[l].presencia
             /\ pag'[l].modificado <=> pag[l].modificado \/ (escribe /\ l \in H)
             /\ pag'[l].lock <=> pag[l].lock /\ l \notin H
  <2>1. pag[l] \in TipoPagina
    BY <1>1, PaginaCampos
  <2>2. CASE l \notin H
    BY <1>2, <1>4, <2>1, <2>2
  <2>3. CASE l \in H
    <3>. DEFINE b == pag[l].modificado \/ escribe
                v1 == [pag[l] EXCEPT !.modificado = b]
                v2 == [v1 EXCEPT !.lock = FALSE]
    <3>1. pag'[l] = v2
      BY <1>2, <1>4, <2>3 DEF Copiada
    <3>2. b \in BOOLEAN
      BY <1>5, Zenon
    <3>. HIDE DEF b
    <3>3. v1 \in TipoPagina /\ v1.frame = pag[l].frame /\ v1.presencia = pag[l].presencia
          /\ v1.modificado = b
      BY <2>1, <3>2 DEF TipoPagina
    <3>. HIDE DEF v1
    <3>4. v2 \in TipoPagina /\ v2.frame = pag[l].frame /\ v2.presencia = pag[l].presencia
          /\ v2.modificado = b /\ v2.lock = FALSE
      BY <3>3 DEF TipoPagina
    <3>. HIDE DEF v2
    <3>5. pag'[l].modificado = b
      BY <3>1, <3>4
    <3>6. pag'[l].modificado <=> pag[l].modificado \/ escribe
      BY <3>5, Zenon DEF b
    <3>. QED
      BY <2>3, <3>1, <3>4, <3>6
  <2>. QED
    BY <2>2, <2>3
<1>7. pag' \in [Claves -> TipoPagina]
  BY <1>4, <1>6
<1>8. CASE ~escribe
  BY <1>1, <1>3, <1>4, <1>6, <1>7, <1>8 DEF datos, escribe, frs, pags, H
<1>9. CASE escribe
  <2>1. /\ ram' = [f \in Marcos |->
                     IF \E i \in DOMAIN frs : frs[i] = f
                     THEN ks[Max({i \in DOMAIN frs : frs[i] = f})]
                     ELSE IF ram[f] \in ToSet(ks) THEN Nadie ELSE ram[f]]
        /\ enSwap' = [k \in Claves |-> enSwap[k] /\ k \notin ToSet(ks)]
    BY <1>4, <1>9 DEF Escribir
  <2>2. ASSUME NEW f \in Marcos
        PROVE  /\ ram'[f] \in Claves \union {Nadie}
               /\ \/ \E i \in DOMAIN frs : frs[i] = f /\ ram'[f] = <<p, pags[i]>>
                  \/ /\ \A i \in DOMAIN frs : frs[i] # f
                     /\ ram'[f] = IF ram[f] \in H THEN Nadie ELSE ram[f]
    <3>1. CASE \A i \in DOMAIN frs : frs[i] # f
      BY <1>1, <1>2, <2>1, <3>1
    <3>2. CASE \E i \in DOMAIN frs : frs[i] = f
      <4>. DEFINE I == {i \in DOMAIN frs : frs[i] = f}
      <4>1. I \subseteq {1, 2} /\ I # {}
        <5>0. \A n \in 1 .. 2 : 1 .. n \subseteq {1, 2}
          OBVIOUS
        <5>1. 1 .. Len(pags) \subseteq {1, 2}
          BY <1>2, <5>0, Zenon
        <5>2. I \subseteq DOMAIN frs /\ I # {}
          BY <3>2
        <5>. QED
          BY <1>2, <5>1, <5>2
      <4>2. \E x \in I : \A y \in I : x >= y
        <5>. HIDE DEF I
        <5>1. CASE 2 \in I
          BY <4>1, <5>1
        <5>2. CASE 2 \notin I
          <6>1. I = {1}
            BY <4>1, <5>2
          <6>. QED
            BY <6>1
        <5>. QED
          BY <5>1, <5>2
      <4>3. Max(I) \in I
        <5>. HIDE DEF I
        <5>. QED
          BY <4>2 DEF Max
      <4>4. ram'[f] = ks[Max(I)]
        BY <2>1, <3>2
      <4>5. Max(I) \in DOMAIN frs /\ frs[Max(I)] = f
        BY <4>3
      <4>. HIDE DEF I
      <4>. QED
        BY <1>2, <4>4, <4>5
    <3>. QED
      BY <3>1, <3>2
  <2>3. ram' \in [Marcos -> Claves \union {Nadie}]
    <3>1. ram' = [f \in Marcos |-> ram'[f]]
      BY <2>1
    <3>. QED
      BY <2>2, <3>1
  <2>4. /\ enSwap' \in [Claves -> BOOLEAN]
        /\ \A l \in Claves : enSwap'[l] <=> enSwap[l] /\ l \notin H
    BY <1>1, <1>2, <2>1
  <2>. QED
    BY <1>1, <1>3, <1>4, <1>6, <1>7, <1>9, <2>2, <2>3, <2>4 DEF escribe, frs, pags, H
<1>. QED
  BY <1>8, <1>9

\* A step that ends a thread, and touches no table, keeps Base.
LEMMA TerminaBase ==
  ASSUME Base, NEW p \in Procesos, hilo'[p] = Libre, hilo' \in [Procesos -> TipoHilo],
         \A q \in Procesos \ {p} : hilo'[q] = hilo[q],
         UNCHANGED <<conf, tabla, usos, posClock, tlb, caido, suspendidos, achicados>>,
         marco' \in [Marcos -> TipoMarco], mtxFrames' \in Procesos \union {Nadie},
         pag' \in [Claves -> TipoPagina], ram' \in [Marcos -> Claves \union {Nadie}],
         enSwap' \in [Claves -> BOOLEAN], manchados' \subseteq Marcos, robados' \subseteq Procesos,
         \A k \in Claves : pag'[k].frame = pag[k].frame /\ pag'[k].presencia = pag[k].presencia
  PROVE  Base'
<1>1. TypeOK /\ TablasOK
  BY DEF Base
<1>2. TypeOK'
  BY <1>1, Tipos, TiposTras
<1>3. TablasOK'
  BY <1>1, TablasQuietas
<1>4. SoloDe(p) /\ HiloOK(p)'
  BY <1>1, LibreOK DEF SoloDe
<1>. QED
  BY <1>2, <1>3, <1>4, BaseTras

\* A copy does.
LEMMA CopiarBase ==
  ASSUME Base, NEW p \in Procesos, Copiar(p)
  PROVE  Base'
<1>1. /\ hilo'[p] = Libre /\ \A q \in Procesos \ {p} : hilo'[q] = hilo[q]
      /\ hilo' \in [Procesos -> TipoHilo] /\ pag' \in [Claves -> TipoPagina]
      /\ \A l \in Claves : pag'[l].frame = pag[l].frame /\ pag'[l].presencia = pag[l].presencia
      /\ ram' \in [Marcos -> Claves \union {Nadie}] /\ enSwap' \in [Claves -> BOOLEAN]
      /\ UNCHANGED <<marco, mtxFrames, tabla, usos, posClock, tlb, caido, Resto>>
  BY CopiarHace
<1>2. /\ marco \in [Marcos -> TipoMarco] /\ mtxFrames \in Procesos \union {Nadie}
      /\ manchados \subseteq Marcos /\ robados \subseteq Procesos
  BY Tipos DEF Base
<1>. QED
  BY <1>1, <1>2, TerminaBase DEF Resto, historia

\* Where the i-th element of a list without its m-th was in the list.
Corrida(i, m) == IF i < m THEN i ELSE i + 1

\* It was in it, not the m-th, and in the same order.
LEMMA CorridaEs ==
  ASSUME NEW n \in Nat, NEW m \in 1 .. n, NEW i \in 1 .. n - 1, NEW j \in 1 .. n - 1
  PROVE  /\ Corrida(i, m) \in 1 .. n
         /\ Corrida(i, m) < m \/ m < Corrida(i, m)
         /\ i < j => Corrida(i, m) < Corrida(j, m)
BY DEF Corrida

\* A growing list without one of its elements grows, and has the others.
LEMMA SinElCreciente ==
  ASSUME NEW l \in Seq(Nat), NEW r \in Seq(Nat), NEW m \in 1 .. Len(l), SinEl(m, l, r),
         \A i, j \in DOMAIN l : i < j => l[i] < l[j]
  PROVE  /\ \A i, j \in DOMAIN r : i < j => r[i] < r[j]
         /\ \A x : x \in ToSet(r) <=> x \in ToSet(l) /\ x # l[m]
<1>1. /\ Len(l) \in Nat /\ Len(r) \in Nat /\ Len(r) = Len(l) - 1
      /\ DOMAIN r = 1 .. Len(r) /\ DOMAIN l = 1 .. Len(l)
      /\ \A j \in 1 .. Len(l) : l[j] \in Nat
  BY LenProperties, ElementOfSeq DEF SinEl
<1>2. ASSUME NEW j \in 1 .. Len(r)
      PROVE  r[j] = l[Corrida(j, m)]
  <2>1. CASE j < m
    <3>1. j \in 1 .. m - 1
      BY <1>1, <2>1
    <3>. QED
      BY <2>1, <3>1 DEF SinEl, Corrida
  <2>2. CASE ~(j < m)
    <3>1. j \in m .. Len(r)
      BY <1>1, <2>2
    <3>. QED
      BY <2>2, <3>1 DEF SinEl, Corrida
  <2>. QED
    BY <2>1, <2>2
<1>3. ASSUME NEW i \in 1 .. Len(r), NEW j \in 1 .. Len(r), i < j  PROVE r[i] < r[j]
  <2>. DEFINE a == Corrida(i, m)
              b == Corrida(j, m)
  <2>0. i \in 1 .. Len(l) - 1 /\ j \in 1 .. Len(l) - 1
    BY <1>1
  <2>1. a \in 1 .. Len(l) /\ b \in 1 .. Len(l) /\ a < b
    BY <1>1, <1>3, <2>0, CorridaEs
  <2>2. r[i] = l[a] /\ r[j] = l[b]
    BY <1>2
  <2>. HIDE DEF a, b
  <2>. QED
    BY <1>1, <2>1, <2>2
<1>4. ToSet(l) = ToSet(r) \union {l[m]}
  BY MiembrosSinEl
<1>5. ASSUME NEW j \in 1 .. Len(r)  PROVE r[j] # l[m]
  <2>. DEFINE b == Corrida(j, m)
  <2>0. j \in 1 .. Len(l) - 1
    BY <1>1
  <2>1. b \in 1 .. Len(l) /\ (b < m \/ m < b) /\ r[j] = l[b]
    BY <1>1, <1>2, <2>0, CorridaEs
  <2>. HIDE DEF b
  <2>2. l[b] \in Nat /\ l[m] \in Nat
    BY <1>1, <2>1
  <2>3. CASE b < m
    <3>1. l[b] < l[m]
      BY <1>1, <2>1, <2>3
    <3>. QED
      BY <2>1, <2>2, <3>1
  <2>4. CASE m < b
    <3>1. l[m] < l[b]
      BY <1>1, <2>1, <2>4
    <3>. QED
      BY <2>1, <2>2, <3>1
  <2>. QED
    BY <2>1, <2>3, <2>4
<1>6. l[m] \notin ToSet(r)
  BY <1>1, <1>5 DEF ToSet
<1>. QED
  BY <1>1, <1>3, <1>4, <1>6

\* The page leaves the table and swamp, and its frame is released.
LEMMA QuitarHace ==
  ASSUME Base, NEW p \in Procesos, QuitarPagina(p)
  PROVE  LET k == <<p, hilo[p].pags[1]>>
             f == hilo[p].frs[1] IN
         /\ hilo[p].pc = "quitar" /\ caido = "no" /\ hilo[p].op = "liberar"
         /\ k \in Claves /\ f \in Marcos /\ EnTabla(k) /\ Halladas(p) = {k}
         /\ hilo'[p] = Libre /\ \A q \in Procesos \ {p} : hilo'[q] = hilo[q]
         /\ hilo' \in [Procesos -> TipoHilo]
         /\ marco' = [marco EXCEPT ![f].ocupado = FALSE]
         /\ tabla' \in [Procesos -> Seq(Ids)]
         /\ \A q \in Procesos : q # p => tabla'[q] = tabla[q]
         /\ \A i, j \in DOMAIN tabla'[p] : i < j => tabla'[p][i] < tabla'[p][j]
         /\ \A l \in Claves : EnTabla(l)' <=> EnTabla(l) /\ l # k
         /\ pag' \in [Claves -> TipoPagina]
         /\ \A l \in Claves : l # k => pag'[l] = pag[l]
         /\ pag'[k].frame = pag[k].frame /\ pag'[k].presencia = FALSE
         /\ pag'[k].modificado = FALSE /\ pag'[k].lock = FALSE
         /\ usos' \in Seq(Claves) /\ \A l : l \in ToSet(usos) /\ l # k => l \in ToSet(usos')
         /\ enSwap' = [enSwap EXCEPT ![k] = FALSE]
         /\ achicados' = achicados \union {p}
         /\ UNCHANGED <<conf, mtxFrames, posClock, ram, tlb, suspendidos, caido, manchados, robados>>
<1>. DEFINE k == <<p, hilo[p].pags[1]>>
            f == hilo[p].frs[1]
<1>1. hilo[p].pc = "quitar" /\ caido = "no" /\ TypeOK
  BY DEF QuitarPagina, En, Base
<1>2. /\ hilo[p].op = "liberar" /\ Len(hilo[p].pags) = 1 /\ DOMAIN hilo[p].pags = 1 .. 1
      /\ DOMAIN hilo[p].frs = 1 .. 1
      /\ PaginasPedidas(p)[1] = k /\ f \in Marcos /\ k \in Claves /\ EnTabla(k)
  <2>1. 1 \in 1 .. 1
    OBVIOUS
  <2>2. hilo[p].op = "liberar" /\ Len(hilo[p].pags) = 1 /\ DOMAIN hilo[p].pags = 1 .. 1
        /\ DOMAIN hilo[p].frs = 1 .. 1
    BY <1>1, QuienTermina
  <2>. QED
    BY <1>1, <2>1, <2>2, QuienTermina
<1>3. Halladas(p) = {k}
  <2>1. \A i : i \in 1 .. 1 <=> i = 1
    OBVIOUS
  <2>. QED
    BY <1>2, <2>1 DEF Halladas
<1>4. /\ marco' = [marco EXCEPT ![f].ocupado = FALSE]
      /\ tabla' = [tabla EXCEPT ![p] = RemoveFirst(tabla[p], k[2])]
      /\ pag' = [pag EXCEPT ![k] = [SinUsar EXCEPT !.frame = pag[k].frame]]
      /\ usos' = RemoveFirst(usos, k)
      /\ enSwap' = [enSwap EXCEPT ![k] = FALSE]
      /\ achicados' = achicados \union {p}
      /\ UNCHANGED <<conf, mtxFrames, posClock, ram, tlb, suspendidos, caido, manchados, robados>>
  BY <1>2 DEF QuitarPagina
<1>5. /\ hilo'[p] = Libre /\ \A q \in Procesos \ {p} : hilo'[q] = hilo[q]
      /\ hilo' \in [Procesos -> TipoHilo]
  BY TerminarHace DEF QuitarPagina
<1>6. k[1] = p /\ k[2] \in Ids /\ k = <<p, k[2]>> /\ k[2] \in ToSet(tabla[p])
  BY <1>2 DEF EnTabla, Claves
<1>. HIDE DEF k, f
<1>7. /\ tabla' \in [Procesos -> Seq(Ids)]
      /\ \A q \in Procesos : q # p => tabla'[q] = tabla[q]
      /\ \A i, j \in DOMAIN tabla'[p] : i < j => tabla'[p][i] < tabla'[p][j]
      /\ \A x : x \in ToSet(tabla'[p]) <=> x \in ToSet(tabla[p]) /\ x # k[2]
  <2>. DEFINE r == RemoveFirst(tabla[p], k[2])
  <2>1. /\ tabla[p] \in Seq(Ids) /\ Ids \subseteq Nat
        /\ \A i, j \in DOMAIN tabla[p] : i < j => tabla[p][i] < tabla[p][j]
        /\ tabla \in [Procesos -> Seq(Ids)]
    BY <1>1, TablaTipo, Tipos DEF Base, TablasOK
  <2>2. r \in Seq(Ids) /\ \E m \in 1 .. Len(tabla[p]) : tabla[p][m] = k[2] /\ SinEl(m, tabla[p], r)
    BY <1>6, <2>1, QuitarPrimero
  <2>. HIDE DEF r
  <2>3. tabla[p] \in Seq(Nat) /\ r \in Seq(Nat)
    BY <2>1, <2>2, SeqMonotonic
  <2>4. /\ \A i, j \in DOMAIN r : i < j => r[i] < r[j]
        /\ \A x : x \in ToSet(r) <=> x \in ToSet(tabla[p]) /\ x # k[2]
    <3>1. PICK m \in 1 .. Len(tabla[p]) : tabla[p][m] = k[2] /\ SinEl(m, tabla[p], r)
      BY <2>2
    <3>2. \A x : x \in ToSet(r) <=> x \in ToSet(tabla[p]) /\ x # tabla[p][m]
      BY <2>1, <2>3, <3>1, SinElCreciente
    <3>3. \A i, j \in DOMAIN r : i < j => r[i] < r[j]
      BY <2>1, <2>3, <3>1, SinElCreciente
    <3>. QED
      BY <3>1, <3>2, <3>3
  <2>5. tabla' = [tabla EXCEPT ![p] = r]
    BY <1>4 DEF r
  <2>6. tabla'[p] = r /\ tabla' \in [Procesos -> Seq(Ids)]
        /\ \A q \in Procesos : q # p => tabla'[q] = tabla[q]
    BY <2>1, <2>2, <2>5
  <2>. QED
    BY <2>4, <2>6
<1>8. ASSUME NEW l \in Claves  PROVE EnTabla(l)' <=> EnTabla(l) /\ l # k
  <2>1. l = <<l[1], l[2]>> /\ l[1] \in Procesos
    BY DEF Claves
  <2>2. CASE l[1] = p
    BY <1>6, <1>7, <2>1, <2>2 DEF EnTabla
  <2>3. CASE l[1] # p
    BY <1>6, <1>7, <2>1, <2>3 DEF EnTabla
  <2>. QED
    BY <2>2, <2>3
<1>9. /\ pag' \in [Claves -> TipoPagina]
      /\ \A l \in Claves : l # k => pag'[l] = pag[l]
      /\ pag'[k].frame = pag[k].frame /\ pag'[k].presencia = FALSE
      /\ pag'[k].modificado = FALSE /\ pag'[k].lock = FALSE
  <2>. DEFINE v == [SinUsar EXCEPT !.frame = pag[k].frame]
  <2>1. pag[k].frame \in Marcos \union {SinMarco}
    BY <1>1, <1>2, PaginaCampos
  <2>2. /\ v \in TipoPagina /\ v.frame = pag[k].frame /\ v.presencia = FALSE
        /\ v.modificado = FALSE /\ v.lock = FALSE
    BY <2>1 DEF TipoPagina, SinUsar
  <2>. HIDE DEF v
  <2>. QED
    BY <1>1, <1>2, <1>4, <2>2, PaginaTipo DEF v
<1>10. usos' \in Seq(Claves) /\ \A l : l \in ToSet(usos) /\ l # k => l \in ToSet(usos')
  <2>1. usos \in Seq(Claves)
    BY <1>1, Tipos
  <2>2. /\ usos' \in Seq(Claves)
        /\ \/ k \notin ToSet(usos) /\ usos' = usos
           \/ \E m \in 1 .. Len(usos) : usos[m] = k /\ SinEl(m, usos, usos')
    BY <1>4, <2>1, QuitarPrimero
  <2>3. ASSUME NEW m \in 1 .. Len(usos), usos[m] = k, SinEl(m, usos, usos')
        PROVE  ToSet(usos) = ToSet(usos') \union {k}
    BY <2>1, <2>2, <2>3, MiembrosSinEl
  <2>. QED
    BY <2>2, <2>3
<1>. QED
  BY <1>1, <1>2, <1>3, <1>4, <1>5, <1>7, <1>8, <1>9, <1>10 DEF k, f

\* And Base stays.
LEMMA QuitarBase ==
  ASSUME Base, NEW p \in Procesos, QuitarPagina(p)
  PROVE  Base'
<1>. DEFINE k == <<p, hilo[p].pags[1]>>
            f == hilo[p].frs[1]
<1>1. /\ k \in Claves /\ f \in Marcos /\ k[1] = p
      /\ hilo'[p] = Libre /\ \A q \in Procesos \ {p} : hilo'[q] = hilo[q]
      /\ hilo' \in [Procesos -> TipoHilo]
      /\ marco' = [marco EXCEPT ![f].ocupado = FALSE]
      /\ tabla' \in [Procesos -> Seq(Ids)]
      /\ \A q \in Procesos : q # p => tabla'[q] = tabla[q]
      /\ \A i, j \in DOMAIN tabla'[p] : i < j => tabla'[p][i] < tabla'[p][j]
      /\ \A l \in Claves : EnTabla(l)' <=> EnTabla(l) /\ l # k
      /\ pag' \in [Claves -> TipoPagina]
      /\ \A l \in Claves : l # k => pag'[l] = pag[l]
      /\ pag'[k].frame = pag[k].frame /\ pag'[k].presencia = FALSE
      /\ usos' \in Seq(Claves) /\ \A l : l \in ToSet(usos) /\ l # k => l \in ToSet(usos')
      /\ enSwap' = [enSwap EXCEPT ![k] = FALSE]
      /\ achicados' = achicados \union {p}
  BY QuitarHace
<1>2. UNCHANGED <<conf, mtxFrames, posClock, ram, tlb, suspendidos, caido, manchados, robados>>
  BY DEF QuitarPagina
<1>3. TypeOK /\ TablasOK
  BY DEF Base
<1>. HIDE DEF k, f
<1>4. marco' \in [Marcos -> TipoMarco] /\ enSwap' \in [Claves -> BOOLEAN]
      /\ achicados' \subseteq Procesos
  <2>1. enSwap \in [Claves -> BOOLEAN] /\ achicados \subseteq Procesos
    BY <1>3, Tipos
  <2>. QED
    BY <1>1, <1>3, <2>1, MarcarTipo
<1>5. TypeOK'
  BY <1>1, <1>2, <1>3, <1>4, Tipos, TiposTras
<1>6. Marcos' = Marcos
  BY <1>2 DEF Marcos
<1>7. \A l \in Claves : pag'[l].frame = pag[l].frame
  BY <1>1
<1>8. TablasOK'
  <2>1. \A q \in Procesos : \A i, j \in DOMAIN tabla'[q] : i < j => tabla'[q][i] < tabla'[q][j]
    <3>1. \A q \in Procesos : \A i, j \in DOMAIN tabla[q] : i < j => tabla[q][i] < tabla[q][j]
      BY <1>3 DEF TablasOK
    <3>2. ASSUME NEW q \in Procesos, q # p
          PROVE  \A i, j \in DOMAIN tabla'[q] : i < j => tabla'[q][i] < tabla'[q][j]
      BY <1>1, <3>1, <3>2
    <3>. QED
      BY <1>1, <3>2
  <2>2. \A q \in Procesos \ achicados' : \A i \in DOMAIN tabla'[q] : tabla'[q][i] = i - 1
    <3>1. \A q \in Procesos \ achicados' : q # p /\ q \notin achicados
      BY <1>1
    <3>. QED
      BY <1>1, <1>3, <3>1 DEF TablasOK
  <2>3. \A l \in Claves : pag'[l].presencia \/ EnTabla(l)' => pag'[l].frame \in Marcos
    BY <1>1, <1>3, <1>7 DEF TablasOK
  <2>4. conf.mmu = "LRU" => PaginasEnTablas' \subseteq ToSet(usos')
    BY <1>1, <1>3 DEF TablasOK, PaginasEnTablas
  <2>. QED
    BY <1>2, <1>6, <2>1, <2>2, <2>3, <2>4 DEF TablasOK
<1>9. SoloDe(p) /\ HiloOK(p)'
  BY <1>1, <1>2, <1>3, LibreOK DEF SoloDe
<1>. QED
  BY <1>5, <1>7, <1>8, <1>9, BaseTras

\* The kernel suspends a process: nothing happens to one without a table.
LEMMA SuspenderHace ==
  ASSUME Base, NEW p \in Procesos, Suspender(p)
  PROVE  /\ hilo[p] = Libre /\ hilo[p].op = "nada" /\ p \notin suspendidos /\ caido = "no"
         /\ suspendidos' = suspendidos \union {p}
         /\ \/ tabla[p] = <<>> /\ hilo' = hilo
            \/ /\ tabla[p] # <<>>
               /\ Queda(p, "suspender", "nada", <<>>, <<>>, Len(tabla[p]), SinMarco, Nadie)
         /\ UNCHANGED <<conf, marco, mtxFrames, tablas, posClock, datos, tlb, caido, historia>>
<1>1. /\ hilo[p].pc = "libre" /\ caido = "no" /\ p \notin suspendidos /\ TypeOK /\ ReposoOK(p)
      /\ suspendidos' = suspendidos \union {p}
      /\ UNCHANGED <<conf, marco, mtxFrames, tablas, posClock, datos, tlb, caido, historia>>
  BY DEF Suspender, En, Base, HilosOK
<1>2. hilo[p] = Libre /\ hilo[p].op = "nada"
  BY <1>1 DEF ReposoOK, PcReposo
<1>3. CASE tabla[p] = <<>>
  BY <1>1, <1>2, <1>3 DEF Suspender
<1>4. CASE tabla[p] # <<>>
  <2>. DEFINE h1 == [Libre EXCEPT !.pc = "suspender"]
              h2 == [h1 EXCEPT !.faltan = Len(tabla[p])]
  <2>1. hilo' = [hilo EXCEPT ![p] = h2]
    BY <1>4 DEF Suspender
  <2>2. h1 = [pc |-> "suspender", op |-> "nada", pags |-> <<>>, frs |-> <<>>, faltan |-> 0,
              fr |-> SinMarco, vic |-> Nadie]
    BY DEF Libre
  <2>. HIDE DEF h1
  <2>3. h2 = [pc |-> "suspender", op |-> "nada", pags |-> <<>>, frs |-> <<>>,
              faltan |-> Len(tabla[p]), fr |-> SinMarco, vic |-> Nadie]
    BY <2>2
  <2>. HIDE DEF h2
  <2>4. Deja(p, "suspender", "nada", <<>>, <<>>, Len(tabla[p]), SinMarco, Nadie)
    BY <2>1, <2>3 DEF Deja
  <2>5. <<>> \in Seq(Ids) /\ <<>> \in Seq(Marcos) /\ "suspender" \in PcReposo
        /\ Len(tabla[p]) \in Nat
    BY EmptySeq, TablaTipo DEF PcReposo
  <2>6. Queda(p, "suspender", "nada", <<>>, <<>>, Len(tabla[p]), SinMarco, Nadie)
    BY <1>1, <2>4, <2>5, QuedaSi
  <2>. QED
    BY <1>1, <1>2, <1>4, <2>6
<1>. QED
  BY <1>3, <1>4

\* Base after it.
LEMMA SuspenderBase ==
  ASSUME Base, NEW p \in Procesos, Suspender(p)
  PROVE  Base'
<1>1. /\ hilo[p] = Libre /\ hilo[p].op = "nada" /\ suspendidos' = suspendidos \union {p}
      /\ UNCHANGED <<conf, marco, mtxFrames, tablas, posClock, datos, tlb, caido, historia>>
  BY SuspenderHace
<1>2. TypeOK /\ SinMarco \notin Marcos
  BY MarcosTipo DEF Base
<1>3. conf' = conf /\ tabla' = tabla /\ Marcos' = Marcos
  BY <1>1 DEF tablas, Marcos
<1>4. /\ mtxFrames' \in Procesos \union {Nadie} /\ suspendidos' \subseteq Procesos
      /\ caido' \in Causas
  BY <1>1, <1>2, Tipos
<1>5. \A q \in Procesos \ {p} : q \in suspendidos' <=> q \in suspendidos
  BY <1>1
<1>6. CASE hilo' = hilo
  <2>1. HiloOK(p)'
    BY <1>1, <1>2, <1>3, <1>6, LibreOK
  <2>2. hilo' \in [Procesos -> TipoHilo] /\ SoloDe(p)
    BY <1>2, <1>3, <1>5, <1>6, Tipos DEF SoloDe
  <2>. QED
    BY <1>1, <1>4, <2>1, <2>2, SoloHilo
<1>7. CASE tabla[p] # <<>> /\ Queda(p, "suspender", "nada", <<>>, <<>>, Len(tabla[p]), SinMarco, Nadie)
  <2>1. /\ hilo'[p].pc = "suspender" /\ hilo'[p].op = "nada" /\ hilo'[p].frs = <<>>
        /\ hilo'[p].faltan = Len(tabla[p]) /\ hilo'[p].fr = SinMarco
        /\ \A q \in Procesos \ {p} : hilo'[q] = hilo[q]
        /\ hilo' \in [Procesos -> TipoHilo]
    BY <1>7 DEF Queda
  <2>2. Len(tabla[p]) \in Nat
    BY TablaTipo
  <2>3. ReposoOK(p)'
    BY <1>1, <1>3, <1>7, <2>1, <2>2 DEF ReposoOK, PcReposo
  <2>4. AltaOK(p)' /\ AccesoOK(p)'
    BY <2>1 DEF AltaOK, AccesoOK, Altas, Accesos
  <2>5. TenenciaOK(p)'
    BY <1>2, <1>3, <2>1 DEF TenenciaOK, PcConMarco
  <2>6. SoloDe(p)
    BY <1>3, <1>5, <2>1 DEF SoloDe
  <2>7. HiloOK(p)'
    BY <2>3, <2>4, <2>5 DEF HiloOK
  <2>. QED
    BY <1>1, <1>4, <2>1, <2>6, <2>7, SoloHilo
<1>. QED
  BY <1>6, <1>7, SuspenderHace

\* What a suspension goes through is a page of the table.
LEMMA SuspendidaTipo ==
  ASSUME Base, NEW p \in Procesos, hilo[p].pc \in {"suspender", "tirar"}, hilo[p].faltan > 0
  PROVE  /\ Suspendida(p) \in Claves /\ EnTabla(Suspendida(p)) /\ Suspendida(p)[1] = p
         /\ pag[Suspendida(p)].frame \in Marcos
         /\ hilo[p].op = "nada" /\ p \in suspendidos /\ tabla[p] # <<>>
         /\ hilo[p].frs = <<>> /\ hilo[p].fr = SinMarco
         /\ hilo[p].faltan \in Nat /\ hilo[p].faltan <= Len(tabla[p]) /\ Len(tabla[p]) \in Nat
<1>1. /\ TypeOK /\ ReposoOK(p) /\ TenenciaOK(p) /\ Len(tabla[p]) \in Nat
      /\ DOMAIN tabla[p] = 1 .. Len(tabla[p]) /\ hilo[p].faltan \in Nat
      /\ \A i \in DOMAIN tabla[p] : tabla[p][i] \in Ids
  BY TablaTipo, Registro DEF Base, HilosOK
<1>2. /\ hilo[p].op = "nada" /\ p \in suspendidos /\ tabla[p] # <<>>
      /\ hilo[p].frs = <<>> /\ hilo[p].faltan <= Len(tabla[p])
  BY <1>1 DEF ReposoOK, PcReposo
<1>3. Len(tabla[p]) - hilo[p].faltan + 1 \in DOMAIN tabla[p]
  BY <1>1, <1>2
<1>4. Suspendida(p) \in Claves /\ EnTabla(Suspendida(p)) /\ Suspendida(p)[1] = p
  BY <1>1, <1>3 DEF Suspendida, Claves, EnTabla, ToSet
<1>5. pag[Suspendida(p)].frame \in Marcos
  BY <1>4 DEF Base, TablasOK
<1>6. hilo[p].fr = SinMarco
  BY <1>1, Registro DEF TenenciaOK, PcConMarco
<1>. QED
  BY <1>1, <1>2, <1>4, <1>5, <1>6

\* A step of a suspension that goes on.
LEMMA SuspensionSigue ==
  ASSUME Base, NEW p \in Procesos, NEW pc \in {"suspender", "tirar"}, NEW faltan \in Nat,
         hilo[p].pc \in {"suspender", "tirar"}, hilo[p].faltan > 0,
         Queda(p, pc, hilo[p].op, hilo[p].pags, hilo[p].frs, faltan, hilo[p].fr, hilo[p].vic),
         faltan <= hilo[p].faltan, pc = "tirar" => faltan > 0,
         UNCHANGED <<conf, mtxFrames, tablas, posClock, ram, tlb, suspendidos, caido, achicados>>,
         marco' \in [Marcos -> TipoMarco], enSwap' \in [Claves -> BOOLEAN],
         manchados' \subseteq Marcos, robados' \subseteq Procesos
  PROVE  Base'
<1>1. /\ hilo'[p].pc = pc /\ hilo'[p].op = "nada" /\ hilo'[p].frs = <<>>
      /\ hilo'[p].faltan = faltan /\ hilo'[p].fr = SinMarco
      /\ \A q \in Procesos \ {p} : hilo'[q] = hilo[q]
      /\ hilo' \in [Procesos -> TipoHilo]
      /\ p \in suspendidos /\ tabla[p] # <<>> /\ faltan <= Len(tabla[p])
  <2>1. /\ hilo[p].op = "nada" /\ p \in suspendidos /\ tabla[p] # <<>>
        /\ hilo[p].frs = <<>> /\ hilo[p].fr = SinMarco
        /\ hilo[p].faltan \in Nat /\ hilo[p].faltan <= Len(tabla[p]) /\ Len(tabla[p]) \in Nat
    BY SuspendidaTipo
  <2>2. faltan <= Len(tabla[p])
    BY <2>1
  <2>. QED
    BY <2>1, <2>2 DEF Queda
<1>2. TypeOK /\ TablasOK /\ SinMarco \notin Marcos
  BY MarcosTipo DEF Base
<1>3. conf' = conf /\ tabla' = tabla /\ Marcos' = Marcos /\ pag' = pag /\ usos' = usos
  BY DEF tablas, Marcos
<1>4. TypeOK'
  BY <1>1, <1>2, <1>3, Tipos, TiposTras
<1>5. TablasOK'
  BY <1>2, <1>3, TablasQuietas
<1>6. HiloOK(p)'
  <2>1. ReposoOK(p)'
    BY <1>1, <1>3 DEF ReposoOK, PcReposo
  <2>2. AltaOK(p)' /\ AccesoOK(p)'
    BY <1>1 DEF AltaOK, AccesoOK, Altas, Accesos
  <2>3. TenenciaOK(p)'
    BY <1>1, <1>2, <1>3 DEF TenenciaOK, PcConMarco
  <2>. QED
    BY <2>1, <2>2, <2>3 DEF HiloOK
<1>7. SoloDe(p)
  BY <1>1, <1>3 DEF SoloDe
<1>. QED
  BY <1>3, <1>4, <1>5, <1>6, <1>7, BaseTras

\* A present page loses its frame, and stays to be thrown if it is modified.
LEMMA SoltarMarcoHace ==
  ASSUME Base, NEW p \in Procesos, SoltarMarco(p)
  PROVE  LET k == Suspendida(p)
             f == pag[k].frame IN
         /\ hilo[p].pc = "suspender" /\ caido = "no" /\ hilo[p].faltan > 0
         /\ \/ /\ Queda(p, "tirar", hilo[p].op, hilo[p].pags, hilo[p].frs, hilo[p].faltan,
                        hilo[p].fr, hilo[p].vic)
               /\ pag[k].presencia /\ pag[k].modificado
            \/ /\ Queda(p, "suspender", hilo[p].op, hilo[p].pags, hilo[p].frs, hilo[p].faltan - 1,
                        hilo[p].fr, hilo[p].vic)
               /\ hilo[p].faltan - 1 \in Nat
         /\ IF pag[k].presencia
            THEN /\ f \in Marcos
                 /\ marco' = [marco EXCEPT ![f] = [ocupado |-> FALSE, pid |-> Nadie]]
                 /\ manchados' = manchados \union {f}
                 /\ robados' = robados \union ({p, marco[f].pid} \ {Nadie})
            ELSE UNCHANGED <<marco, manchados, robados>>
         /\ marco' \in [Marcos -> TipoMarco] /\ manchados' \subseteq Marcos
         /\ robados' \subseteq Procesos
         /\ UNCHANGED <<conf, mtxFrames, tablas, posClock, datos, tlb, suspendidos, caido, achicados>>
<1>. DEFINE k == Suspendida(p)
            f == pag[k].frame
<1>1. /\ TypeOK /\ hilo[p].pc = "suspender" /\ caido = "no" /\ hilo[p].faltan > 0
      /\ UNCHANGED <<conf, mtxFrames, tablas, posClock, datos, tlb, suspendidos, caido, achicados>>
  BY DEF SoltarMarco, En, Base
<1>2. k \in Claves /\ f \in Marcos /\ hilo[p].faltan \in Nat
  BY <1>1, SuspendidaTipo
<1>3. hilo[p].faltan - 1 \in Nat
  BY <1>1, <1>2
<1>4. ASSUME Ir(p, "tirar")
      PROVE  Queda(p, "tirar", hilo[p].op, hilo[p].pags, hilo[p].frs, hilo[p].faltan,
                   hilo[p].fr, hilo[p].vic)
  <2>1. "tirar" \in PcReposo
    BY DEF PcReposo
  <2>. QED
    BY <1>1, <1>4, <2>1, IrHace
<1>5. ASSUME hilo' = [hilo EXCEPT ![p].faltan = hilo[p].faltan - 1]
      PROVE  Queda(p, "suspender", hilo[p].op, hilo[p].pags, hilo[p].frs, hilo[p].faltan - 1,
                   hilo[p].fr, hilo[p].vic)
  <2>. DEFINE n == hilo[p].faltan - 1
  <2>1. n \in Nat
    BY <1>3
  <2>. HIDE DEF n
  <2>2. hilo' = [hilo EXCEPT ![p].faltan = n]
    BY <1>5 DEF n
  <2>3. Deja(p, "suspender", hilo[p].op, hilo[p].pags, hilo[p].frs, n, hilo[p].fr, hilo[p].vic)
    BY <1>1, <2>2, DejaFaltan
  <2>4. "suspender" \in PcReposo
    BY DEF PcReposo
  <2>5. Queda(p, "suspender", hilo[p].op, hilo[p].pags, hilo[p].frs, n, hilo[p].fr, hilo[p].vic)
    BY <1>1, <2>1, <2>3, <2>4, QuedaSi, Registro
  <2>. QED
    BY <2>5 DEF n
<1>6. /\ marco \in [Marcos -> TipoMarco] /\ manchados \subseteq Marcos /\ robados \subseteq Procesos
  BY <1>1, Tipos
<1>7. CASE pag[k].presencia
  <2>1. /\ marco' = [marco EXCEPT ![f] = [ocupado |-> FALSE, pid |-> Nadie]]
        /\ manchados' = manchados \union {f}
        /\ robados' = robados \union ({p, marco[f].pid} \ {Nadie})
        /\ IF pag[k].modificado THEN Ir(p, "tirar")
           ELSE hilo' = [hilo EXCEPT ![p].faltan = hilo[p].faltan - 1]
    BY <1>7 DEF SoltarMarco
  <2>2. [ocupado |-> FALSE, pid |-> Nadie] \in TipoMarco /\ marco[f].pid \in Procesos \union {Nadie}
    BY <1>2, <1>6 DEF TipoMarco
  <2>3. /\ marco' \in [Marcos -> TipoMarco] /\ manchados' \subseteq Marcos
        /\ robados' \subseteq Procesos
    BY <1>2, <1>6, <2>1, <2>2
  <2>. QED
    BY <1>1, <1>2, <1>3, <1>4, <1>5, <1>7, <2>1, <2>3
<1>8. CASE ~pag[k].presencia
  <2>1. /\ UNCHANGED <<marco, manchados, robados>>
        /\ hilo' = [hilo EXCEPT ![p].faltan = hilo[p].faltan - 1]
    BY <1>8 DEF SoltarMarco
  <2>. QED
    BY <1>1, <1>3, <1>5, <1>6, <1>8, <2>1
<1>. QED
  BY <1>7, <1>8

\* Base after it.
LEMMA SoltarMarcoBase ==
  ASSUME Base, NEW p \in Procesos, SoltarMarco(p)
  PROVE  Base'
<1>1. /\ hilo[p].pc = "suspender" /\ hilo[p].faltan > 0
      /\ marco' \in [Marcos -> TipoMarco] /\ manchados' \subseteq Marcos /\ robados' \subseteq Procesos
      /\ UNCHANGED <<conf, mtxFrames, tablas, posClock, datos, tlb, suspendidos, caido, achicados>>
  BY SoltarMarcoHace
<1>2. enSwap' \in [Claves -> BOOLEAN] /\ hilo[p].faltan \in Nat /\ ram' = ram
  BY <1>1, Tipos, Registro DEF datos, Base
<1>3. CASE Queda(p, "tirar", hilo[p].op, hilo[p].pags, hilo[p].frs, hilo[p].faltan,
                 hilo[p].fr, hilo[p].vic)
  <2>1. hilo[p].faltan <= hilo[p].faltan
    BY <1>2
  <2>. QED
    BY <1>1, <1>2, <1>3, <2>1, SuspensionSigue
<1>4. CASE Queda(p, "suspender", hilo[p].op, hilo[p].pags, hilo[p].frs, hilo[p].faltan - 1,
                 hilo[p].fr, hilo[p].vic)
  <2>. DEFINE n == hilo[p].faltan - 1
  <2>1. n \in Nat /\ n <= hilo[p].faltan
    BY <1>1, <1>2
  <2>. HIDE DEF n
  <2>2. Queda(p, "suspender", hilo[p].op, hilo[p].pags, hilo[p].frs, n, hilo[p].fr, hilo[p].vic)
    BY <1>4 DEF n
  <2>. QED
    BY <1>1, <1>2, <2>1, <2>2, SuspensionSigue
<1>. QED
  BY <1>3, <1>4, SoltarMarcoHace

\* What is in the frame of the page goes to swamp.
LEMMA TirarHace ==
  ASSUME Base, NEW p \in Procesos, TirarSuspendida(p)
  PROVE  LET k == Suspendida(p) IN
         /\ hilo[p].pc = "tirar" /\ caido = "no" /\ hilo[p].faltan > 0 /\ k \in Claves
         /\ Queda(p, "suspender", hilo[p].op, hilo[p].pags, hilo[p].frs, hilo[p].faltan - 1,
                  hilo[p].fr, hilo[p].vic)
         /\ hilo[p].faltan - 1 \in Nat
         /\ enSwap' \in [Claves -> BOOLEAN]
         /\ \A l \in Claves : l # k => enSwap'[l] = enSwap[l]
         /\ UNCHANGED <<marco, mtxFrames, tablas, posClock, ram, tlb, caido, Resto>>
<1>. DEFINE k == Suspendida(p)
            n == hilo[p].faltan - 1
<1>1. /\ TypeOK /\ hilo[p].pc = "tirar" /\ caido = "no" /\ ReposoOK(p) /\ TirarASwap(k)
      /\ UNCHANGED <<marco, mtxFrames, tablas, posClock, ram, tlb, caido, Resto>>
      /\ hilo' = [hilo EXCEPT ![p].pc = "suspender", ![p].faltan = n]
      /\ enSwap \in [Claves -> BOOLEAN]
  BY Tipos DEF TirarSuspendida, En, Base, HilosOK
<1>2. hilo[p].faltan > 0
  BY <1>1 DEF ReposoOK
<1>3. k \in Claves /\ hilo[p].faltan \in Nat
  BY <1>1, <1>2, SuspendidaTipo
<1>4. n \in Nat
  BY <1>2, <1>3
<1>. HIDE DEF n, k
<1>5. Deja(p, "suspender", hilo[p].op, hilo[p].pags, hilo[p].frs, n, hilo[p].fr, hilo[p].vic)
  BY <1>1, DejaPcFaltan
<1>6. "suspender" \in PcReposo
  BY DEF PcReposo
<1>7. Queda(p, "suspender", hilo[p].op, hilo[p].pags, hilo[p].frs, n, hilo[p].fr, hilo[p].vic)
  BY <1>1, <1>4, <1>5, <1>6, QuedaSi, Registro
<1>8. enSwap' \in [Claves -> BOOLEAN] /\ \A l \in Claves : l # k => enSwap'[l] = enSwap[l]
  BY <1>1, <1>3 DEF TirarASwap
<1>. QED
  BY <1>1, <1>2, <1>3, <1>4, <1>7, <1>8 DEF k, n

\* Base after it.
LEMMA TirarBase ==
  ASSUME Base, NEW p \in Procesos, TirarSuspendida(p)
  PROVE  Base'
<1>. DEFINE n == hilo[p].faltan - 1
<1>1. /\ hilo[p].pc = "tirar" /\ hilo[p].faltan > 0 /\ n \in Nat
      /\ Queda(p, "suspender", hilo[p].op, hilo[p].pags, hilo[p].frs, n, hilo[p].fr, hilo[p].vic)
      /\ enSwap' \in [Claves -> BOOLEAN]
      /\ UNCHANGED <<marco, mtxFrames, tablas, posClock, ram, tlb, caido, Resto>>
  BY TirarHace
<1>2. n <= hilo[p].faltan
  <2>1. hilo[p].faltan \in Nat
    BY Registro DEF Base
  <2>. QED
    BY <2>1
<1>3. /\ marco \in [Marcos -> TipoMarco] /\ manchados \subseteq Marcos /\ robados \subseteq Procesos
  BY Tipos DEF Base
<1>. HIDE DEF n
<1>4. UNCHANGED <<conf, suspendidos, achicados, manchados, robados>>
  BY <1>1 DEF Resto, historia
<1>. QED
  BY <1>1, <1>2, <1>3, <1>4, SuspensionSigue

\* With fixed assignment the process loses every other frame.
LEMMA SoltarRestoHace ==
  ASSUME Base, NEW p \in Procesos, SoltarElResto(p)
  PROVE  /\ hilo[p].pc = "suspender" /\ caido = "no" /\ hilo[p].op = "nada"
         /\ hilo'[p] = Libre /\ \A q \in Procesos \ {p} : hilo'[q] = hilo[q]
         /\ hilo' \in [Procesos -> TipoHilo] /\ marco' \in [Marcos -> TipoMarco]
         /\ ~Fija => UNCHANGED <<marco, manchados, robados>>
         /\ Fija => /\ \A f \in Marcos : marco[f].pid # p => marco'[f] = marco[f] 
                    /\ \A f \in Marcos : marco[f].pid = p => marco'[f].pid = Nadie /\ f \in manchados'
                    /\ \A f \in Marcos : marco[f].pid # p => (f \in manchados' <=> f \in manchados)
                    /\ robados' \subseteq robados \union {p} /\ robados \subseteq robados'
                    /\ (\E f \in Marcos : marco[f].pid = p) => p \in robados'
                    /\ (\A f \in Marcos : marco[f].pid # p) => robados' = robados
         /\ manchados' \subseteq Marcos /\ robados' \subseteq Procesos
         /\ UNCHANGED <<conf, mtxFrames, tablas, posClock, datos, tlb, suspendidos, caido, achicados>>
<1>. DEFINE suyos == {f \in Marcos : Fija /\ marco[f].pid = p}
            nadie == [ocupado |-> FALSE, pid |-> Nadie]
<1>1. /\ TypeOK /\ hilo[p].pc = "suspender" /\ caido = "no" /\ ReposoOK(p)
      /\ marco' = [f \in Marcos |-> IF f \in suyos THEN nadie ELSE marco[f]]
      /\ manchados' = manchados \union suyos
      /\ robados' = robados \union {q \in {p} : suyos # {}}
      /\ UNCHANGED <<conf, mtxFrames, tablas, posClock, datos, tlb, suspendidos, caido, achicados>>
      /\ marco \in [Marcos -> TipoMarco] /\ manchados \subseteq Marcos /\ robados \subseteq Procesos
  BY Tipos DEF SoltarElResto, En, Base, HilosOK
<1>2. hilo[p].op = "nada"
  BY <1>1 DEF ReposoOK, PcReposo
<1>3. /\ hilo'[p] = Libre /\ \A q \in Procesos \ {p} : hilo'[q] = hilo[q]
      /\ hilo' \in [Procesos -> TipoHilo]
  BY TerminarHace DEF SoltarElResto
<1>4. nadie \in TipoMarco /\ nadie.pid = Nadie
  BY DEF TipoMarco
<1>. HIDE DEF nadie
<1>5. marco' \in [Marcos -> TipoMarco]
  BY <1>1, <1>4
<1>6. ~Fija => UNCHANGED <<marco, manchados, robados>>
  <2>1. SUFFICES ASSUME ~Fija PROVE UNCHANGED <<marco, manchados, robados>>
    OBVIOUS
  <2>2. suyos = {}
    BY <2>1
  <2>. HIDE DEF suyos
  <2>3. marco' = marco
    BY <1>1, <2>2
  <2>. QED
    BY <1>1, <2>2, <2>3
<1>7. Fija => /\ \A f \in Marcos : marco[f].pid # p => marco'[f] = marco[f]
              /\ \A f \in Marcos : marco[f].pid = p => marco'[f].pid = Nadie /\ f \in manchados'
              /\ \A f \in Marcos : marco[f].pid # p => (f \in manchados' <=> f \in manchados)
              /\ robados' \subseteq robados \union {p} /\ robados \subseteq robados'
              /\ (\E f \in Marcos : marco[f].pid = p) => p \in robados'
              /\ (\A f \in Marcos : marco[f].pid # p) => robados' = robados
  <2>1. SUFFICES ASSUME Fija PROVE <1>7!2
    OBVIOUS
  <2>2. \A f \in Marcos : f \in suyos <=> marco[f].pid = p
    BY <2>1
  <2>3. suyos \subseteq Marcos
    OBVIOUS
  <2>. HIDE DEF suyos
  <2>. QED
    BY <1>1, <1>4, <2>2, <2>3
<1>8. manchados' \subseteq Marcos /\ robados' \subseteq Procesos
  BY <1>1
<1>. QED
  BY <1>1, <1>2, <1>3, <1>5, <1>6, <1>7, <1>8

\* Base after it.
LEMMA SoltarRestoBase ==
  ASSUME Base, NEW p \in Procesos, SoltarElResto(p)
  PROVE  Base'
<1>1. /\ hilo'[p] = Libre /\ \A q \in Procesos \ {p} : hilo'[q] = hilo[q]
      /\ hilo' \in [Procesos -> TipoHilo] /\ marco' \in [Marcos -> TipoMarco]
      /\ manchados' \subseteq Marcos /\ robados' \subseteq Procesos
      /\ UNCHANGED <<conf, mtxFrames, tablas, posClock, datos, tlb, suspendidos, caido, achicados>>
  BY SoltarRestoHace
<1>2. /\ mtxFrames \in Procesos \union {Nadie} /\ pag \in [Claves -> TipoPagina]
      /\ ram \in [Marcos -> Claves \union {Nadie}] /\ enSwap \in [Claves -> BOOLEAN]
  BY Tipos DEF Base
<1>3. pag' = pag /\ tabla' = tabla /\ usos' = usos /\ ram' = ram /\ enSwap' = enSwap
  BY <1>1 DEF tablas, datos
<1>. QED
  BY <1>1, <1>2, <1>3, TerminaBase

\* The kernel takes a process back: with fixed assignment it asks for frames.
LEMMA DessuspenderHace ==
  ASSUME Base, NEW p \in Procesos, Dessuspender(p)
  PROVE  /\ hilo[p] = Libre /\ p \in suspendidos /\ caido = "no"
         /\ suspendidos' = suspendidos \ {p}
         /\ \/ Morir("sinTabla") /\ hilo' = hilo /\ Fija /\ tabla[p] = <<>>
            \/ hilo' = hilo /\ caido' = caido /\ ~Fija
            \/ /\ Fija /\ tabla[p] # <<>> /\ caido' = caido
               /\ Queda(p, "pedir", "volver", <<>>, <<>>, conf.marcos, SinMarco, Nadie)
         /\ UNCHANGED <<conf, marco, mtxFrames, tablas, posClock, datos, tlb, historia>>
<1>1. /\ hilo[p].pc = "libre" /\ caido = "no" /\ p \in suspendidos /\ TypeOK /\ ReposoOK(p)
      /\ suspendidos' = suspendidos \ {p}
      /\ UNCHANGED <<conf, marco, mtxFrames, tablas, posClock, datos, tlb, historia>>
  BY DEF Dessuspender, En, Base, HilosOK
<1>2. hilo[p] = Libre
  BY <1>1 DEF ReposoOK
<1>3. CASE Fija /\ tabla[p] = <<>>
  BY <1>1, <1>2, <1>3 DEF Dessuspender
<1>4. CASE ~Fija
  BY <1>1, <1>2, <1>4 DEF Dessuspender
<1>5. CASE Fija /\ tabla[p] # <<>>
  <2>. DEFINE h1 == [Libre EXCEPT !.pc = "pedir"]
              h2 == [h1 EXCEPT !.op = "volver"]
              h3 == [h2 EXCEPT !.faltan = conf.marcos]
  <2>1. hilo' = [hilo EXCEPT ![p] = h3] /\ caido' = caido
    BY <1>5 DEF Dessuspender
  <2>2. h1 = [pc |-> "pedir", op |-> "nada", pags |-> <<>>, frs |-> <<>>, faltan |-> 0,
              fr |-> SinMarco, vic |-> Nadie]
    BY DEF Libre
  <2>. HIDE DEF h1
  <2>3. h2 = [pc |-> "pedir", op |-> "volver", pags |-> <<>>, frs |-> <<>>, faltan |-> 0,
              fr |-> SinMarco, vic |-> Nadie]
    BY <2>2
  <2>. HIDE DEF h2
  <2>4. h3 = [pc |-> "pedir", op |-> "volver", pags |-> <<>>, frs |-> <<>>,
              faltan |-> conf.marcos, fr |-> SinMarco, vic |-> Nadie]
    BY <2>3
  <2>. HIDE DEF h3
  <2>5. Deja(p, "pedir", "volver", <<>>, <<>>, conf.marcos, SinMarco, Nadie)
    BY <2>1, <2>4 DEF Deja
  <2>6. <<>> \in Seq(Ids) /\ <<>> \in Seq(Marcos) /\ "pedir" \in PcAlta /\ conf.marcos \in Nat
    BY <1>1, EmptySeq, ConfTipo DEF PcAlta
  <2>7. Queda(p, "pedir", "volver", <<>>, <<>>, conf.marcos, SinMarco, Nadie)
    BY <1>1, <2>5, <2>6, QuedaSi
  <2>. QED
    BY <1>1, <1>2, <1>5, <2>1, <2>7
<1>. QED
  BY <1>3, <1>4, <1>5

\* Base after the kernel takes a process back; it is asked for some frame.
LEMMA DessuspenderBase ==
  ASSUME Base, NEW p \in Procesos, Dessuspender(p),
         Fija /\ tabla[p] # <<>> => conf.marcos # 0
  PROVE  Base'
<1>1. /\ hilo[p] = Libre /\ p \in suspendidos /\ suspendidos' = suspendidos \ {p}
      /\ UNCHANGED <<conf, marco, mtxFrames, tablas, posClock, datos, tlb, historia>>
  BY DessuspenderHace
<1>2. TypeOK /\ SinMarco \notin Marcos /\ conf.marcos \in Nat
  BY MarcosTipo, ConfTipo DEF Base
<1>3. conf' = conf /\ tabla' = tabla /\ Marcos' = Marcos /\ Fija' = Fija
  BY <1>1 DEF tablas, Marcos, Fija
<1>4. mtxFrames' \in Procesos \union {Nadie} /\ suspendidos' \subseteq Procesos
  BY <1>1, <1>2, Tipos
<1>5. \A q \in Procesos \ {p} : q \in suspendidos' <=> q \in suspendidos
  BY <1>1
<1>6. caido' \in Causas
  <2>1. caido \in Causas
    BY <1>2, Tipos
  <2>. QED
    BY <2>1, DessuspenderHace DEF Morir, Causas
<1>7. CASE hilo' = hilo
  <2>1. HiloOK(p)'
    BY <1>1, <1>2, <1>3, <1>7, LibreOK
  <2>2. hilo' \in [Procesos -> TipoHilo] /\ SoloDe(p)
    BY <1>2, <1>3, <1>5, <1>7, Tipos DEF SoloDe
  <2>. QED
    BY <1>1, <1>4, <1>6, <2>1, <2>2, SoloHilo
<1>8. CASE /\ Fija /\ tabla[p] # <<>>
           /\ Queda(p, "pedir", "volver", <<>>, <<>>, conf.marcos, SinMarco, Nadie)
  <2>1. /\ hilo'[p].pc = "pedir" /\ hilo'[p].op = "volver" /\ hilo'[p].frs = <<>>
        /\ hilo'[p].faltan = conf.marcos /\ hilo'[p].fr = SinMarco
        /\ \A q \in Procesos \ {p} : hilo'[q] = hilo[q]
        /\ hilo' \in [Procesos -> TipoHilo]
    BY <1>8 DEF Queda
  <2>2. ReposoOK(p)'
    BY <1>1, <2>1 DEF ReposoOK, PcReposo, Altas
  <2>3. conf.marcos > 0
    BY <1>2, <1>8
  <2>4. AltaOK(p)'
    BY <1>3, <1>8, <2>1, <2>3 DEF AltaOK, PcAlta
  <2>5. AccesoOK(p)'
    BY <2>1 DEF AccesoOK, Accesos
  <2>6. TenenciaOK(p)'
    BY <1>2, <1>3, <2>1 DEF TenenciaOK, PcConMarco
  <2>7. SoloDe(p)
    BY <1>3, <1>5, <2>1 DEF SoloDe
  <2>8. HiloOK(p)'
    BY <2>2, <2>4, <2>5, <2>6 DEF HiloOK
  <2>. QED
    BY <1>1, <1>4, <1>6, <2>1, <2>7, <2>8, SoloHilo
<1>. QED
  BY <1>7, <1>8, DessuspenderHace

\* memalloc begins.
LEMMA PedirHace ==
  ASSUME Base, NEW p \in Procesos, NEW n, MemallocNuevo(p, n) \/ MemallocCrecer(p, n)
  PROVE  LET pc == IF tabla[p] = <<>> /\ Fija THEN "reservar" ELSE "pedir" IN
         /\ hilo[p] = Libre /\ p \notin suspendidos /\ caido = "no"
         /\ PuedePedir(p, "memalloc")
         /\ Queda(p, pc, "memalloc", <<>>, <<>>, n, SinMarco, Nadie)
         /\ UNCHANGED <<marco, mtxFrames, tablas, posClock, datos, tlb, caido, Resto>>
<1>. DEFINE pc == IF tabla[p] = <<>> /\ Fija THEN "reservar" ELSE "pedir"
<1>1. /\ hilo[p] = Libre /\ p \notin suspendidos /\ caido = "no" /\ TypeOK
      /\ PuedePedir(p, "memalloc")
      /\ UNCHANGED <<marco, mtxFrames, tablas, posClock, datos, tlb, caido, Resto>>
  BY PuedePedirHace DEF MemallocNuevo, MemallocCrecer, Base
<1>2. n \in Nat
  BY ConfTipo, TablaTipo, <1>1 DEF MemallocNuevo, MemallocCrecer
<1>3. Deja(p, pc, "memalloc", <<>>, <<>>, n, SinMarco, Nadie)
  BY DEF MemallocNuevo, MemallocCrecer, Deja, Libre
<1>4. pc \in PcAlta /\ <<>> \in Seq(Ids) /\ <<>> \in Seq(Marcos) /\ "memalloc" \in Llamadas
  BY EmptySeq DEF PcAlta, Llamadas
<1>. HIDE DEF pc
<1>5. Queda(p, pc, "memalloc", <<>>, <<>>, n, SinMarco, Nadie)
  BY <1>1, <1>2, <1>3, <1>4, QuedaSi
<1>. QED
  BY <1>1, <1>5 DEF pc

\* It fails for lack of frames.
LEMMA NegarHace ==
  ASSUME Base, NEW p \in Procesos, NegarMarcos(p)
  PROVE  /\ hilo[p].pc = "reservar" /\ caido = "no"
         /\ hilo' \in [Procesos -> TipoHilo] /\ hilo'[p] = Libre
         /\ \A q \in Procesos \ {p} : hilo'[q] = hilo[q]
         /\ UNCHANGED <<marco, tablas, posClock, datos, tlb, caido, Resto>>
BY TerminarHace DEF NegarMarcos, En

\* The frame got for a process that comes back is forgotten.
LEMMA OlvidarHace ==
  ASSUME Base, NEW p \in Procesos, OlvidarMarco(p)
  PROVE  /\ hilo[p].pc = "crear" /\ hilo[p].op = "volver" /\ caido = "no" /\ hilo[p].faltan > 0
         /\ OtroMas(p)
         /\ UNCHANGED <<marco, mtxFrames, tablas, posClock, datos, tlb, caido, Resto>>
<1>1. /\ hilo[p].pc = "crear" /\ hilo[p].op = "volver" /\ caido = "no" /\ OtroMas(p)
      /\ UNCHANGED <<marco, mtxFrames, tablas, posClock, datos, tlb, caido, Resto>>
      /\ AltaOK(p)
  BY DEF OlvidarMarco, En, Base, HilosOK
<1>. QED
  BY <1>1 DEF AltaOK, Altas

\* A step of the process p.
PasoDe(p) ==
    \/ \E n : MemallocNuevo(p, n) \/ MemallocCrecer(p, n)
    \/ UsaPaginas(p) \/ Suspender(p) \/ Dessuspender(p)
    \/ ReservarMarcos(p) \/ NegarMarcos(p) \/ SolicitarFrame(p) \/ BuscarMarco(p)
    \/ TomarMarcos(p) \/ CrearPagina(p) \/ OlvidarMarco(p)
    \/ ElegirVictima(p) \/ SinVictima(p) \/ Expulsar(p) \/ SoltarVictima(p)
    \/ BuscarPagina(p) \/ TraerPagina(p) \/ ActualizarTLB(p) \/ ReemplazarTLB(p)
    \/ Copiar(p) \/ QuitarPagina(p)
    \/ SoltarMarco(p) \/ TirarSuspendida(p) \/ SoltarElResto(p)

\* Every step is of one process.
LEMMA QuienDaElPaso ==
  ASSUME Next
  PROVE  \E p \in Procesos : PasoDe(p)
BY Zenon DEF Next, PedidoNuevo, PasoDelHilo, PasoConMutex, UsaPaginas, PasoDe

\* A request that uses pages begins, unless an id of the table is missing.
LEMMA UsaPaginasHace ==
  ASSUME Base, NEW p \in Procesos, UsaPaginas(p)
  PROVE  /\ hilo[p] = Libre /\ p \notin suspendidos /\ caido = "no"
         /\ \E op \in Accesos :
               /\ PuedePedir(p, op)
               /\ \/ Morir("sinPagina") /\ hilo' = hilo /\ ConHuecos(p)
                  \/ /\ caido' = caido
                     /\ \E pags \in Seq(Ids) :
                           /\ Queda(p, "buscar", op, pags, <<>>, 0, SinMarco, Nadie)
                           /\ Len(pags) \in 1 .. 2 /\ DOMAIN pags = 1 .. Len(pags)
                           /\ op \in {"leer", "escribir", "liberar"} => Len(pags) = 1
                           /\ \A i \in DOMAIN pags : EnTabla(<<p, pags[i]>>)
                           /\ \A i, j \in DOMAIN pags : pags[i] = pags[j] => i = j
         /\ UNCHANGED <<marco, mtxFrames, tablas, posClock, datos, tlb, Resto>>
<1>1. PICK op \in Accesos, s \in Seq(Nat) :
         /\ Acceder(p, op, s) /\ Len(s) \in 1 .. 2 /\ IsInjective(s)
         /\ op \in {"leer", "escribir", "liberar"} => Len(s) = 1
  BY UsaPaginasEs
<1>2. PuedePedir(p, op)
  BY <1>1 DEF Acceder
<1>3. caido = "no"
  BY <1>2, PuedePedirHace
<1>4. /\ hilo[p] = Libre /\ p \notin suspendidos
      /\ \/ /\ Morir("sinPagina") /\ hilo' = hilo /\ ConHuecos(p)
         \/ /\ caido' = caido
            /\ \E pags \in Seq(Ids) :
                  /\ Queda(p, "buscar", op, pags, <<>>, 0, SinMarco, Nadie)
                  /\ Len(pags) \in 1 .. 2 /\ DOMAIN pags = 1 .. Len(pags)
                  /\ op \in {"leer", "escribir", "liberar"} => Len(pags) = 1
                  /\ \A i \in DOMAIN pags : EnTabla(<<p, pags[i]>>)
                  /\ \A i, j \in DOMAIN pags : pags[i] = pags[j] => i = j
      /\ UNCHANGED <<marco, mtxFrames, tablas, posClock, datos, tlb, Resto>>
  BY <1>1, AccederHace
<1>. QED
  BY <1>2, <1>3, <1>4, Zenon

\* memoria never reads its configuration again.
LEMMA ConfQuieta ==
  ASSUME Next
  PROVE  conf' = conf
<1>1. PICK p \in Procesos : PasoDe(p)
  BY QuienDaElPaso, Zenon
<1>2. ASSUME NEW n, MemallocNuevo(p, n) \/ MemallocCrecer(p, n)  PROVE conf' = conf
  BY <1>2 DEF MemallocNuevo, MemallocCrecer, Resto
<1>3. ASSUME UsaPaginas(p)  PROVE conf' = conf
  <2>1. \A op, s : Acceder(p, op, s) => conf' = conf
    BY DEF Acceder, Resto
  <2>. QED
    BY <1>3, <2>1, Zenon DEF UsaPaginas, Leer, EscribirPagina, GuardarHeader, DesserializarHeader,
       LiberarPagina
<1>4. ASSUME Suspender(p) \/ Dessuspender(p)  PROVE conf' = conf
  BY <1>4 DEF Suspender, Dessuspender
<1>5. ASSUME ReservarMarcos(p) \/ NegarMarcos(p) \/ SolicitarFrame(p) \/ BuscarMarco(p)
      PROVE  conf' = conf
  BY <1>5 DEF ReservarMarcos, NegarMarcos, SolicitarFrame, BuscarMarco, Resto
<1>6. ASSUME TomarMarcos(p) \/ CrearPagina(p) \/ OlvidarMarco(p)
      PROVE  conf' = conf
  BY <1>6 DEF TomarMarcos, CrearPagina, OlvidarMarco, Resto
<1>7. ASSUME ElegirVictima(p) \/ SinVictima(p) \/ Expulsar(p) \/ SoltarVictima(p)
      PROVE  conf' = conf
  BY <1>7 DEF ElegirVictima, SinVictima, Expulsar, SoltarVictima, Resto
<1>8. ASSUME BuscarPagina(p) \/ TraerPagina(p) \/ ActualizarTLB(p) \/ ReemplazarTLB(p)
      PROVE  conf' = conf
  BY <1>8 DEF BuscarPagina, TraerPagina, ActualizarTLB, ReemplazarTLB, Resto
<1>9. ASSUME Copiar(p) \/ QuitarPagina(p) \/ SoltarMarco(p) \/ TirarSuspendida(p)
             \/ SoltarElResto(p)
      PROVE  conf' = conf
  BY <1>9 DEF Copiar, QuitarPagina, SoltarMarco, TirarSuspendida, SoltarElResto, Resto
<1>. QED
  BY <1>1, <1>2, <1>3, <1>4, <1>5, <1>6, <1>7, <1>8, <1>9, Zenon DEF PasoDe

\* Without frames of its own (FIJA, MARCOS_MAXIMOS=0) no process gets a page.
SinCuota ==
    Fija /\ conf.marcos = 0 =>
        \A p \in Procesos :
            tabla[p] = <<>> /\ hilo[p].pc \in {"libre", "reservar", "tomar", "pedir", "elegir"}

\* And none ever will.
LEMMA SinCuotaSigue ==
  ASSUME Base, SinCuota, Next
  PROVE  SinCuota'
<1>1. SUFFICES ASSUME (Fija /\ conf.marcos = 0)'
      PROVE  \A q \in Procesos : /\ tabla'[q] = <<>>
                                 /\ hilo'[q].pc \in {"libre", "reservar", "tomar", "pedir", "elegir"}
  BY DEF SinCuota
<1>2. conf' = conf
  BY ConfQuieta
<1>3. Fija /\ conf.marcos = 0
  BY <1>1, <1>2 DEF Fija
<1>4. \A q \in Procesos : /\ tabla[q] = <<>>
                          /\ hilo[q].pc \in {"libre", "reservar", "tomar", "pedir", "elegir"}
  BY <1>3 DEF SinCuota
<1>5. SUFFICES ASSUME NEW p \in Procesos
      PROVE  LET bien == /\ tabla' = tabla
                         /\ \A q \in Procesos \ {p} : hilo'[q] = hilo[q]
                         /\ hilo'[p].pc \in {"libre", "reservar", "tomar", "pedir", "elegir"} IN
             /\ \A n : MemallocNuevo(p, n) \/ MemallocCrecer(p, n) => bien
             /\ UsaPaginas(p) \/ Suspender(p) \/ Dessuspender(p) => bien
             /\ ReservarMarcos(p) \/ NegarMarcos(p) \/ SolicitarFrame(p) \/ BuscarMarco(p) => bien
             /\ TomarMarcos(p) \/ CrearPagina(p) \/ OlvidarMarco(p) => bien
             /\ ElegirVictima(p) \/ SinVictima(p) \/ Expulsar(p) \/ SoltarVictima(p) => bien
             /\ BuscarPagina(p) \/ TraerPagina(p) \/ ActualizarTLB(p) \/ ReemplazarTLB(p) => bien
             /\ Copiar(p) \/ QuitarPagina(p) => bien
             /\ SoltarMarco(p) \/ TirarSuspendida(p) \/ SoltarElResto(p) => bien
  BY <1>4, QuienDaElPaso, Zenon DEF PasoDe
<1>. DEFINE bien == /\ tabla' = tabla
                    /\ \A q \in Procesos \ {p} : hilo'[q] = hilo[q]
                    /\ hilo'[p].pc \in {"libre", "reservar", "tomar", "pedir", "elegir"}
<1>6. tabla[p] = <<>> /\ hilo[p].pc \in {"libre", "reservar", "tomar", "pedir", "elegir"}
  BY <1>4
<1>7. /\ ~EnTabla(<<p, 1>>) /\ (\A k : k[1] = p => ~EnTabla(k)) /\ Len(tabla[p]) = 0
  BY <1>6 DEF EnTabla, ToSet
<1>8. ASSUME NEW n, MemallocNuevo(p, n) \/ MemallocCrecer(p, n)  PROVE bien
  BY <1>8, PedirHace DEF Queda, tablas
<1>9. ASSUME UsaPaginas(p)  PROVE bien
  <2>1. ASSUME NEW op, NEW pags, Queda(p, "buscar", op, pags, <<>>, 0, SinMarco, Nadie),
               Len(pags) \in 1 .. 2, DOMAIN pags = 1 .. Len(pags),
               \A i \in DOMAIN pags : EnTabla(<<p, pags[i]>>)
        PROVE  FALSE
    <3>1. 1 \in DOMAIN pags
      BY <2>1
    <3>. QED
      BY <2>1, <3>1, <1>7
  <2>2. /\ hilo' = hilo
        /\ UNCHANGED <<marco, mtxFrames, tablas, posClock, datos, tlb, Resto>>
    BY <1>9, <2>1, UsaPaginasHace
  <2>. QED
    BY <1>6, <2>2 DEF tablas
<1>10. ASSUME Suspender(p)  PROVE bien
  <2>1. hilo' = hilo /\ tabla' = tabla
    BY <1>6, <1>10, SuspenderHace DEF tablas
  <2>. QED
    BY <1>6, <2>1
<1>11. ASSUME Dessuspender(p)  PROVE bien
  <2>1. hilo' = hilo /\ tabla' = tabla
    BY <1>6, <1>11, DessuspenderHace DEF tablas
  <2>. QED
    BY <1>6, <2>1
<1>12. ASSUME ReservarMarcos(p)  PROVE bien
  BY <1>12, ReservarHace DEF tablas
<1>13. ASSUME NegarMarcos(p)  PROVE bien
  BY <1>13, NegarHace DEF tablas, Libre
<1>14. ASSUME SolicitarFrame(p)  PROVE bien
  <2>1. ~(Fija => Len(tabla[p]) < conf.marcos)
    BY <1>3, <1>7
  <2>2. /\ UNCHANGED <<tablas, posClock, datos, tlb, caido, Resto>>
        /\ Queda(p, "elegir", hilo[p].op, hilo[p].pags, hilo[p].frs, hilo[p].faltan,
                 hilo[p].fr, hilo[p].vic)
    BY <1>14, <2>1, SolicitarHace
  <2>. QED
    BY <2>2 DEF Queda, tablas
<1>15. ASSUME TomarMarcos(p)  PROVE bien
  BY <1>15, TomarHace DEF tablas
<1>16. ASSUME ElegirVictima(p)  PROVE bien
  <2>1. Candidatas(p) # {} /\ \A k \in Candidatas(p) : EnTabla(k) /\ k[1] = p
    BY <1>3, <1>16, CandidatasTipo DEF ElegirVictima
  <2>. QED
    BY <1>7, <2>1
<1>17. ASSUME SinVictima(p)  PROVE bien
  <2>1. hilo' = hilo /\ tabla' = tabla
    BY <1>17 DEF SinVictima, tablas
  <2>. QED
    BY <1>6, <2>1
<1>18. ASSUME BuscarMarco(p) \/ CrearPagina(p) \/ OlvidarMarco(p) \/ Expulsar(p)
              \/ SoltarVictima(p) \/ BuscarPagina(p) \/ TraerPagina(p) \/ ActualizarTLB(p)
              \/ ReemplazarTLB(p) \/ Copiar(p) \/ QuitarPagina(p) \/ SoltarMarco(p)
              \/ TirarSuspendida(p) \/ SoltarElResto(p)
       PROVE  bien
  <2>1. hilo[p].pc \notin {"libre", "reservar", "tomar", "pedir", "elegir"}
    BY <1>18, Zenon DEF En, BuscarMarco, CrearPagina, OlvidarMarco, Expulsar, SoltarVictima,
       BuscarPagina, TraerPagina, ActualizarTLB, ReemplazarTLB, Copiar, QuitarPagina, SoltarMarco,
       TirarSuspendida, SoltarElResto
  <2>. QED
    BY <1>6, <2>1
<1>. QED
  BY <1>8, <1>9, <1>10, <1>11, <1>12, <1>13, <1>14, <1>15, <1>16, <1>17, <1>18, Zenon

\* The invariant of the control of memoria.
Control == Base /\ SinCuota

\* It holds when memoria starts ...
LEMMA ControlInicial ==
  ASSUME Init
  PROVE  Control
<1>1. TypeOK
  <2>1. conf.frames \in Nat /\ Marcos = 0 .. conf.frames - 1
    BY ConfiguracionesAssumption DEF Init, Marcos
  <2>2. <<>> \in Seq(Claves) /\ <<>> \in Seq([pid : Procesos, pag : Ids, frame : Marcos])
        /\ <<>> \in Seq(Ids) /\ <<>> \in Seq(Marcos)
    BY EmptySeq
  <2>3. tabla \in [Procesos -> Seq(Ids)] /\ ram \in [Marcos -> Claves \union {Nadie}]
        /\ marco \in [Marcos -> [ocupado : BOOLEAN, pid : Procesos \union {Nadie}]]
        /\ enSwap \in [Claves -> BOOLEAN]
    BY <2>2 DEF Init
  <2>4. SinUsar \in [frame : Marcos \union {SinMarco}, presencia : BOOLEAN,
                     modificado : BOOLEAN, lock : BOOLEAN, uso : BOOLEAN]
    BY DEF SinUsar
  <2>5. pag \in [Claves -> [frame : Marcos \union {SinMarco}, presencia : BOOLEAN,
                            modificado : BOOLEAN, lock : BOOLEAN, uso : BOOLEAN]]
    BY <2>4 DEF Init
  <2>6. Libre \in [pc : {"libre", "reservar", "tomar", "pedir", "crear", "elegir", "expulsar",
                         "soltar", "buscar", "falta", "traer", "actualizar", "reemplazar",
                         "copiar", "quitar", "suspender", "tirar"},
                   op : Llamadas \union {"nada", "volver"},
                   pags : Seq(Ids), frs : Seq(Marcos), faltan : Nat,
                   fr : Marcos \union {SinMarco}, vic : Claves \union {Nadie}]
    BY <2>2 DEF Libre
  <2>7. hilo \in [Procesos ->
         [pc : {"libre", "reservar", "tomar", "pedir", "crear", "elegir", "expulsar", "soltar",
                "buscar", "falta", "traer", "actualizar", "reemplazar", "copiar", "quitar",
                "suspender", "tirar"},
          op : Llamadas \union {"nada", "volver"},
          pags : Seq(Ids), frs : Seq(Marcos), faltan : Nat,
          fr : Marcos \union {SinMarco}, vic : Claves \union {Nadie}]]
    BY <2>6 DEF Init
  <2>. QED
    BY <2>2, <2>3, <2>5, <2>7 DEF Init, TypeOK
<1>2. \A p \in Procesos : tabla[p] = <<>> /\ hilo[p] = Libre
  BY DEF Init
<1>3. \A k \in Claves : ~EnTabla(k) /\ pag[k].presencia = FALSE
  BY DEF Init, EnTabla, ToSet, Claves, SinUsar
<1>4. TablasOK
  <2>1. \A p \in Procesos : DOMAIN tabla[p] = {}
    BY <1>2
  <2>2. PaginasEnTablas = {}
    BY <1>3 DEF PaginasEnTablas
  <2>. QED
    BY <1>3, <2>1, <2>2 DEF TablasOK
<1>5. HilosOK
  <2>1. SUFFICES ASSUME NEW p \in Procesos PROVE HiloOK(p)
    BY DEF HilosOK, HiloOK
  <2>2. /\ hilo[p].pc = "libre" /\ hilo[p].op = "nada" /\ hilo[p].fr = SinMarco
        /\ p \notin suspendidos
    BY <1>2 DEF Libre, Init
  <2>3. SinMarco \notin Marcos
    BY <1>1, MarcosTipo
  <2>4. ReposoOK(p)
    BY <1>2, <2>2 DEF ReposoOK, PcReposo
  <2>5. AltaOK(p) /\ AccesoOK(p)
    BY <2>2 DEF AltaOK, AccesoOK, Altas, Accesos
  <2>6. TenenciaOK(p)
    BY <2>2, <2>3 DEF TenenciaOK, PcConMarco
  <2>. QED
    BY <2>4, <2>5, <2>6 DEF HiloOK
<1>6. SinCuota
  BY <1>2 DEF SinCuota, Libre
<1>. QED
  BY <1>1, <1>4, <1>5, <1>6 DEF Control, Base

\* ... and after every step.
LEMMA ControlSigue ==
  ASSUME Control, [Next]_vars
  PROVE  Control'
<1>. USE DEF Control
<1>1. CASE Next
  <2>1. SinCuota'
    BY <1>1, SinCuotaSigue
  <2>2. ASSUME NEW p \in Procesos
        PROVE  /\ (\E n : MemallocNuevo(p, n) \/ MemallocCrecer(p, n)) => Base'
               /\ UsaPaginas(p) \/ Suspender(p) \/ Dessuspender(p) => Base'
    <3>1. Dessuspender(p) => Base'
      BY DessuspenderBase DEF SinCuota
    <3>. QED
      BY <3>1, PedirBase, UsaPaginasBase, SuspenderBase
  <2>3. ASSUME NEW p \in Procesos
        PROVE  /\ ReservarMarcos(p) \/ NegarMarcos(p) \/ SolicitarFrame(p) \/ BuscarMarco(p)
                  \/ TomarMarcos(p) \/ CrearPagina(p) \/ OlvidarMarco(p) => Base'
               /\ ElegirVictima(p) \/ SinVictima(p) \/ Expulsar(p) \/ SoltarVictima(p) => Base'
    BY ReservarBase, NegarBase, SolicitarBase, BuscarMarcoBase, TomarBase, CrearBase, OlvidarBase,
       ElegirBase, SinVictimaBase, ExpulsarBase, SoltarVictimaBase
  <2>4. ASSUME NEW p \in Procesos
        PROVE  BuscarPagina(p) \/ TraerPagina(p) \/ ActualizarTLB(p) \/ ReemplazarTLB(p)
               \/ Copiar(p) \/ QuitarPagina(p)
               \/ SoltarMarco(p) \/ TirarSuspendida(p) \/ SoltarElResto(p) => Base'
    BY BuscarPaginaBase, TraerBase, TLBBase, CopiarBase, QuitarBase, SoltarMarcoBase, TirarBase,
       SoltarRestoBase
  <2>5. Base'
    BY <1>1, <2>2, <2>3, <2>4, QuienDaElPaso, Zenon DEF PasoDe
  <2>. QED
    BY <2>1, <2>5
<1>2. CASE UNCHANGED vars
  <2>1. /\ conf' = conf /\ marco' = marco /\ mtxFrames' = mtxFrames /\ tabla' = tabla
        /\ pag' = pag /\ usos' = usos /\ posClock' = posClock /\ ram' = ram /\ enSwap' = enSwap
        /\ tlb' = tlb /\ hilo' = hilo /\ suspendidos' = suspendidos /\ caido' = caido
        /\ manchados' = manchados /\ robados' = robados /\ achicados' = achicados
    BY <1>2 DEF vars, tablas, datos, historia
  <2>2. TypeOK /\ TablasOK
    BY DEF Base
  <2>3. TypeOK'
    BY <2>1, <2>2, Tipos, TiposTras
  <2>4. TablasOK'
    BY <2>1, <2>2, TablasQuietas
  <2>5. HilosOK'
    BY <2>1, HiloQuieto DEF HilosOK, HiloOK
  <2>6. SinCuota'
    BY <2>1 DEF SinCuota, Fija
  <2>. QED
    BY <2>3, <2>4, <2>5, <2>6 DEF Base
<1>. QED
  BY <1>1, <1>2

\* The control of memoria is always right: every thread is where its request may take it, with
\* what it needs there.
LEMMA ControlSiempre == Spec => []Control
<1>1. Init => Control
  BY ControlInicial
<1>2. Control /\ [Next]_vars => Control'
  BY ControlSigue
<1>. QED
  BY <1>1, <1>2, PTL DEF Spec

\* Every variable stays within its type, and so do the threads with the pages and the frames
\* they work on (memoria.c, tlb.c).
THEOREM TiposDePaginacion == Spec => []TypeOK
<1>1. Control => TypeOK
  BY DEF Control, Base
<1>. QED
  BY <1>1, ControlSiempre, PTL

\* A step of a process leaves the thread and the table of every other alone.
LEMMA SoloElSuyo ==
  ASSUME Base, NEW p \in Procesos, PasoDe(p)
  PROVE  \A q \in Procesos \ {p} : hilo'[q] = hilo[q] /\ tabla'[q] = tabla[q]
<1>. DEFINE bien == \A q \in Procesos \ {p} : hilo'[q] = hilo[q] /\ tabla'[q] = tabla[q]
<1>1. ASSUME NEW n, MemallocNuevo(p, n) \/ MemallocCrecer(p, n)  PROVE bien
  BY <1>1, PedirHace DEF Queda, tablas
<1>2. ASSUME UsaPaginas(p)  PROVE bien
  BY <1>2, UsaPaginasHace DEF Queda, tablas
<1>3. ASSUME Suspender(p)  PROVE bien
  BY <1>3, SuspenderHace DEF Queda, tablas
<1>4. ASSUME Dessuspender(p)  PROVE bien
  BY <1>4, DessuspenderHace DEF Queda, tablas
<1>5. ASSUME ReservarMarcos(p)  PROVE bien
  BY <1>5, ReservarHace DEF tablas
<1>6. ASSUME NegarMarcos(p)  PROVE bien
  BY <1>6, NegarHace DEF tablas
<1>7. ASSUME SolicitarFrame(p)  PROVE bien
  BY <1>7, SolicitarHace DEF Queda, tablas
<1>8. ASSUME BuscarMarco(p)  PROVE bien
  BY <1>8, BuscarMarcoHace DEF Queda, tablas
<1>9. ASSUME TomarMarcos(p)  PROVE bien
  BY <1>9, TomarHace DEF tablas
<1>10. ASSUME CrearPagina(p)  PROVE bien
  <2>1. OtroMas(p) /\ hilo[p].faltan > 0 /\ \A q \in Procesos : q # p => tabla'[q] = tabla[q]
    BY <1>10, CrearHace, Zenon
  <2>2. \A q \in Procesos \ {p} : hilo'[q] = hilo[q]
    BY <2>1, OtroMasHace DEF Queda, Base
  <2>. QED
    BY <2>1, <2>2
<1>11. ASSUME OlvidarMarco(p)  PROVE bien
  BY <1>11, OlvidarHace, OtroMasHace DEF Queda, Base, tablas
<1>12. ASSUME ElegirVictima(p)  PROVE bien
  BY <1>12, ElegirHace DEF Queda
<1>13. ASSUME SinVictima(p)  PROVE bien
  BY <1>13 DEF SinVictima, tablas
<1>14. ASSUME Expulsar(p)  PROVE bien
  <2>1. tabla' = tabla
    BY <1>14 DEF Expulsar
  <2>2. \A q \in Procesos \ {p} : hilo'[q] = hilo[q]
    BY <1>14, ExpulsarHace, Zenon DEF Queda
  <2>. QED
    BY <2>1, <2>2
<1>15. ASSUME SoltarVictima(p)  PROVE bien
  BY <1>15, SoltarVictimaHace DEF Queda
<1>16. ASSUME BuscarPagina(p)  PROVE bien
  <2>1. hilo[p].op \in Accesos /\ Len(hilo[p].frs) < Len(hilo[p].pags)
    BY <1>16, BuscarPaginaHace, QuienBusca
  <2>. QED
    BY <1>16, <2>1, BuscarPaginaHace, EncontradaHace DEF Queda
<1>17. ASSUME TraerPagina(p)  PROVE bien
  BY <1>17, TraerHace DEF Queda
<1>18. ASSUME ActualizarTLB(p)  PROVE bien
  <2>1. hilo[p].op \in Accesos /\ Len(hilo[p].frs) < Len(hilo[p].pags)
    BY <1>18, ActualizarHace, QuienBusca
  <2>. QED
    BY <1>18, <2>1, ActualizarHace, EncontradaHace DEF Queda, tablas
<1>19. ASSUME ReemplazarTLB(p)  PROVE bien
  <2>1. hilo[p].op \in Accesos /\ Len(hilo[p].frs) < Len(hilo[p].pags)
    BY <1>19, ReemplazarHace, QuienBusca
  <2>. QED
    BY <1>19, <2>1, ReemplazarHace, EncontradaHace DEF Queda, tablas
<1>20. ASSUME Copiar(p)  PROVE bien
  BY <1>20, CopiarHace
<1>21. ASSUME QuitarPagina(p)  PROVE bien
  BY <1>21, QuitarHace
<1>22. ASSUME SoltarMarco(p)  PROVE bien
  BY <1>22, SoltarMarcoHace DEF Queda, tablas
<1>23. ASSUME TirarSuspendida(p)  PROVE bien
  BY <1>23, TirarHace DEF Queda, tablas
<1>24. ASSUME SoltarElResto(p)  PROVE bien
  BY <1>24, SoltarRestoHace DEF tablas
<1>. QED
  BY <1>1, <1>2, <1>3, <1>4, <1>5, <1>6, <1>7, <1>8, <1>9, <1>10, <1>11, <1>12, <1>13, <1>14,
     <1>15, <1>16, <1>17, <1>18, <1>19, <1>20, <1>21, <1>22, <1>23, <1>24, Zenon DEF PasoDe

-----------------------------------------------------------------------------
\* The size of the TLB.

\* Only a replacement of a page, of an entry, or a page that is found write the TLB.
LEMMA QuienEscribeTLB ==
  ASSUME NEW p, PasoDe(p)
  PROVE  tlb' = tlb \/ Expulsar(p) \/ ActualizarTLB(p) \/ ReemplazarTLB(p)
<1>1. ASSUME NEW n, MemallocNuevo(p, n) \/ MemallocCrecer(p, n)  PROVE tlb' = tlb
  BY <1>1 DEF MemallocNuevo, MemallocCrecer
<1>2. ASSUME UsaPaginas(p)  PROVE tlb' = tlb
  <2>1. \A op, s : Acceder(p, op, s) => tlb' = tlb
    BY DEF Acceder
  <2>. QED
    BY <1>2, <2>1, Zenon DEF UsaPaginas, Leer, EscribirPagina, GuardarHeader, DesserializarHeader,
       LiberarPagina
<1>3. ASSUME Suspender(p) \/ Dessuspender(p)  PROVE tlb' = tlb
  BY <1>3 DEF Suspender, Dessuspender
<1>4. ASSUME ReservarMarcos(p) \/ NegarMarcos(p) \/ SolicitarFrame(p) \/ BuscarMarco(p)
             \/ TomarMarcos(p) \/ CrearPagina(p) \/ OlvidarMarco(p)
      PROVE  tlb' = tlb
  BY <1>4 DEF ReservarMarcos, NegarMarcos, SolicitarFrame, BuscarMarco, TomarMarcos, CrearPagina,
     OlvidarMarco
<1>5. ASSUME ElegirVictima(p) \/ SinVictima(p) \/ SoltarVictima(p) \/ BuscarPagina(p)
             \/ TraerPagina(p)
      PROVE  tlb' = tlb
  BY <1>5 DEF ElegirVictima, SinVictima, SoltarVictima, BuscarPagina, TraerPagina
<1>6. ASSUME Copiar(p) \/ QuitarPagina(p) \/ SoltarMarco(p) \/ TirarSuspendida(p)
             \/ SoltarElResto(p)
      PROVE  tlb' = tlb
  BY <1>6 DEF Copiar, QuitarPagina, SoltarMarco, TirarSuspendida, SoltarElResto
<1>. QED
  BY <1>1, <1>2, <1>3, <1>4, <1>5, <1>6, Zenon DEF PasoDe

\* actualizar_tlb decides in one critical section to replace and replaces in another, so the
\* argument cannot be that the TLB is still full then: it is that the only step that adds
\* without removing looks at the size in the section that adds.
LEMMA TLBAcotadaSigue ==
  ASSUME Control, TLBAcotada, [Next]_vars
  PROVE  TLBAcotada'
<1>1. CASE UNCHANGED vars
  BY <1>1 DEF vars, TLBAcotada
<1>2. CASE Next
  <2>1. PICK p \in Procesos : PasoDe(p)
    BY <1>2, QuienDaElPaso
  <2>2. /\ Base /\ tlb \in Seq(TipoEntrada) /\ Len(tlb) \in Nat /\ conf.entradas \in Nat
        /\ conf' = conf
    BY <1>2, Tipos, ConfTipo, ConfQuieta, LenProperties DEF Control, Base
  <2>3. SUFFICES ASSUME conf.tlb = "FIFO", Len(tlb) <= conf.entradas
        PROVE  Len(tlb') <= conf.entradas
    BY <2>2 DEF TLBAcotada
  <2>4. CASE tlb' = tlb
    BY <2>3, <2>4
  <2>5. CASE Expulsar(p)
    <3>1. tlb' = tlb \/ Len(tlb') = Len(tlb) - 1
      BY <2>2, <2>5, ExpulsarHace DEF SinEl
    <3>. QED
      BY <2>2, <2>3, <3>1
  <2>6. CASE ActualizarTLB(p)
    <3>1. tlb' = tlb \/ (conf.entradas # 0 /\ tlb' = Append(tlb, Entrada(p))
                         /\ (conf.entradas > 0 => Len(tlb) < conf.entradas))
      BY <2>2, <2>6, ActualizarHace
    <3>2. Entrada(p) \in TipoEntrada
      BY <2>2, <2>6, ActualizarHace, EntradaTipo
    <3>3. Len(Append(tlb, Entrada(p))) = Len(tlb) + 1
      BY <2>2, <3>2, AppendProperties
    <3>. QED
      BY <2>2, <2>3, <3>1, <3>3
  <2>7. CASE ReemplazarTLB(p)
    <3>1. tlb' = tlb \/ (tlb # <<>> /\ tlb' = Append(Tail(tlb), Entrada(p)))
      BY <2>2, <2>3, <2>7, ReemplazarHace DEF Quedan
    <3>2. Entrada(p) \in TipoEntrada
      BY <2>2, <2>7, ReemplazarHace, EntradaTipo
    <3>3. ASSUME tlb # <<>>  PROVE Len(Append(Tail(tlb), Entrada(p))) = Len(tlb)
      <4>1. Tail(tlb) \in Seq(TipoEntrada) /\ Len(Tail(tlb)) = Len(tlb) - 1
        BY <2>2, <3>3, HeadTailProperties
      <4>2. Len(Append(Tail(tlb), Entrada(p))) = Len(Tail(tlb)) + 1
        BY <3>2, <4>1, AppendProperties
      <4>. QED
        BY <2>2, <4>1, <4>2
    <3>. QED
      BY <2>3, <3>1, <3>3
  <2>. QED
    BY <2>1, <2>4, <2>5, <2>6, <2>7, QuienEscribeTLB
<1>. QED
  BY <1>1, <1>2

\* With FIFO the TLB never has more entries than CANTIDAD_ENTRADAS_TLB (tlb.c, actualizar_tlb).
THEOREM TLBSiempreAcotada == Spec => []TLBAcotada
<1>1. Init => TLBAcotada
  <2>1. SUFFICES ASSUME Init PROVE TLBAcotada
    OBVIOUS
  <2>2. Len(tlb) = 0 /\ conf.entradas \in Nat
    BY <2>1, ConfiguracionesAssumption DEF Init
  <2>. QED
    BY <2>2 DEF TLBAcotada
<1>2. Control /\ TLBAcotada /\ [Next]_vars => TLBAcotada'
  BY TLBAcotadaSigue
<1>. QED
  BY <1>1, <1>2, ControlSiempre, PTL DEF Spec

-----------------------------------------------------------------------------
\* CLOCK-M.

\* A thread that goes from choosing a victim to throwing it has chosen it in that step.
LEMMA QuienElige ==
  ASSUME Base, Next, NEW q \in Procesos, hilo[q].pc = "elegir", hilo'[q].pc = "expulsar"
  PROVE  ElegirVictima(q)
<1>1. PICK p \in Procesos : PasoDe(p)
  BY QuienDaElPaso
<1>2. p = q
  BY <1>1, SoloElSuyo
<1>3. ~(\E n : MemallocNuevo(q, n) \/ MemallocCrecer(q, n)) /\ ~UsaPaginas(q)
  BY PedirHace, UsaPaginasHace DEF Libre
<1>4. ~Suspender(q) /\ ~Dessuspender(q)
  BY Zenon DEF Suspender, Dessuspender, En
<1>5. /\ ~ReservarMarcos(q) /\ ~NegarMarcos(q) /\ ~SolicitarFrame(q) /\ ~BuscarMarco(q)
      /\ ~TomarMarcos(q) /\ ~CrearPagina(q) /\ ~OlvidarMarco(q) /\ ~Expulsar(q)
      /\ ~SoltarVictima(q) /\ ~BuscarPagina(q) /\ ~TraerPagina(q) /\ ~ActualizarTLB(q)
      /\ ~ReemplazarTLB(q) /\ ~Copiar(q) /\ ~QuitarPagina(q) /\ ~SoltarMarco(q)
      /\ ~TirarSuspendida(q) /\ ~SoltarElResto(q)
  BY Zenon DEF En, ReservarMarcos, NegarMarcos, SolicitarFrame, BuscarMarco, TomarMarcos,
     CrearPagina, OlvidarMarco, Expulsar, SoltarVictima, BuscarPagina, TraerPagina, ActualizarTLB,
     ReemplazarTLB, Copiar, QuitarPagina, SoltarMarco, TirarSuspendida, SoltarElResto
<1>6. ~SinVictima(q)
  BY DEF SinVictima
<1>. QED
  BY <1>1, <1>2, <1>3, <1>4, <1>5, <1>6, Zenon DEF PasoDe

\* A step of that kind takes a page of the best class among the candidates.
LEMMA VictimaDelPaso ==
  ASSUME Base, Next, NEW p \in Procesos,
         conf.mmu = "CLOCK-M", hilo[p].pc = "elegir", hilo'[p].pc = "expulsar"
  PROVE  \A k \in Candidatas(p) : Clase(hilo'[p].vic) <= Clase(k)
<1>1. ElegirVictima(p)
  BY QuienElige
<1>2. PICK k \in Candidatas(p) : /\ hilo'[p].vic = k
                                 /\ \A l \in Candidatas(p) : Clase(k) <= Clase(l)
  BY <1>1, ElegirHace DEF Queda
<1>. QED
  BY <1>2

\* algoritmo_CLOCK_M takes, in at most four turns from POSICION_CLOCK, a page of the best
\* class there is, whatever the pages, their frames and where the hand was (memoria.c).
THEOREM VictimaSiempreDeLaMejorClase == Spec => VictimaDeLaMejorClase
<1>. DEFINE Mejor == \A p \in Procesos :
         conf.mmu = "CLOCK-M" /\ hilo[p].pc = "elegir" /\ hilo'[p].pc = "expulsar" =>
             \A k \in Candidatas(p) : Clase(hilo'[p].vic) <= Clase(k)
<1>1. Control /\ [Next]_vars => [Mejor]_vars
  BY VictimaDelPaso DEF Control
<1>. HIDE DEF Mejor
<1>2. Spec => [][Mejor]_vars
  BY <1>1, ControlSiempre, PTL DEF Spec
<1>. QED
  BY <1>2 DEF VictimaDeLaMejorClase, Mejor
=============================================================================
