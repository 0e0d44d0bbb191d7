---------------------------- MODULE Conexion_proofs ----------------------------
(***************************************************************************)
(* The heaps of the processes and the blocks of the clients, for any       *)
(* number of clients and any size of pages, headers and blocks.            *)
(*                                                                         *)
(*   TypeOK              every variable stays within its type              *)
(*   CadenaDeBloques     the headers of a heap are one chain, up to a last *)
(*                       one that is free and inside the pages             *)
(*   SinLibresContiguos  no free block follows another                     *)
(*   BloquesDelCliente   what a client holds are the used blocks of its    *)
(*                       own heap                                          *)
(*                                                                         *)
(* The model walks a heap from address 0 along next (Recorrido, a          *)
(* recursive function as long as there are headers).  The proofs do not:   *)
(* EnCadena says of the set of headers that each leads to the next higher  *)
(* one and back, which a change of two links keeps or breaks at two        *)
(* headers.  CadenaDe brings that back to the walk: it goes through all    *)
(* the headers in order and ends, since between one and the next there is  *)
(* no other.  With it memalloc and memfree are, whatever the code's case,  *)
(* one of three changes of the chain: a header more (Insertar), the        *)
(* headers between two left out (Saltar), and what is past a page moved    *)
(* down (QuitarPaginaBien).                                                *)
(*                                                                         *)
(* BloquesDelCliente needs more than the heaps.  A block on its way        *)
(* between a client and its heap belongs to the client (Suyos); a block    *)
(* that is freed is used, since the client is correct, so it is not the    *)
(* last one (EsBloque); and the heap of a client is nobody else's, which   *)
(* rests on who gets which PID: with a kernel each carpincho a new one,    *)
(* without one each open descriptor a record of its own (SinKernelOK).     *)
(* That PIDs do not run out, TypeOK's bound of PID_GLOBAL, is a count of   *)
(* the clients that have had theirs (PidsAlcanzan).                        *)
(***************************************************************************)
EXTENDS Conexion, Conteo
-----------------------------------------------------------------------------
\* Heaps.

\* The headers at the addresses in C are a chain from address 0 to the highest of them: each
\* one leads to the next and the next leads back.
EnCadena(hdr, C) ==
    /\ 0 \in C /\ C \subseteq DOMAIN hdr
    /\ \A d \in C : hdr[d].next # 0 =>
          /\ hdr[d].next \in C /\ d + TamHeader < hdr[d].next
          /\ hdr[hdr[d].next].prev = d
    /\ \A d, e \in C : d < e => hdr[d].next # 0 /\ hdr[d].next <= e

\* The last block is free and its header is below tope; no free block follows another.
LibresOK(hdr, C, tope) ==
    \A d \in C :
        /\ hdr[d].next = 0 => hdr[d].libre /\ d + TamHeader <= tope
        /\ hdr[d].libre /\ hdr[d].next # 0 => ~hdr[hdr[d].next].libre

\* A header: the two neighbours and whether its block is free.
Headers == [prev : Nat, next : Nat, libre : BOOLEAN]
\* The types of a heap.
EsHeap(h) ==
    /\ h = [ids |-> h.ids, hdr |-> h.hdr, defecto |-> h.defecto]
    /\ h.ids \in Seq(Nat) /\ Len(h.ids) <= MaxPaginas /\ h.defecto \in Defectos
    /\ h.hdr \in [DOMAIN h.hdr -> Headers]
    /\ DOMAIN h.hdr \subseteq Nat /\ IsFiniteSet(DOMAIN h.hdr)

\* A heap with pages whose headers in C are all that matter.
Encadenado(h, C) ==
    /\ EsHeap(h) /\ h.ids # <<>> /\ Servible(h)
    /\ EnCadena(h.hdr, C) /\ LibresOK(h.hdr, C, Total(h))

\* A heap is without pages, or broken by a defect, of which nothing is said, or a chain.
Vacio(h) == h = SinHeap
Roto(h) == EsHeap(h) /\ ~Servible(h) /\ h.hdr = <<>>
HeapOK(h) == Vacio(h) \/ Roto(h) \/ Encadenado(h, DOMAIN h.hdr)

\* The used blocks, by the address of their header.
EnUso(h) == {d \in DOMAIN h.hdr : ~h.hdr[d].libre /\ h.hdr[d].next # 0}

-----------------------------------------------------------------------------
\* Connections.

\* The types of a record of memoria, of a client and of an answer.
Registros == [fd : Descriptores, pid : Pids]
Estados == {"afuera", "listo", "pidiendo", "reenviado", "respondido", "sinHilo", "cerrado", "muerto"}
Respuestas == (-7 .. TamPagina * MaxPaginas) \union {1}
Estado ==
    [pc : Estados, fd : Descriptores \union {0}, pid : Pids \union {SinPid},
     op : Pedidos \union {"nada"}, bloque : Bloques, resp : Respuestas]

\* A client is connected, or connected and served; the descriptors memoria has a record of.
Vivo(c) == cliente[c].pc \notin {"afuera", "muerto"}
Activo(c) == cliente[c].pc \in {"listo", "pidiendo", "reenviado", "respondido"}
Registrados == {pidsCliente[i].fd : i \in DOMAIN pidsCliente}

\* TypeOK, but for what the headers are.
TiposOK ==
    /\ conf \in Configuraciones
    /\ cliente \in [Clientes -> Estado]
    /\ tiene \in [Clientes -> SUBSET Bloques]
    /\ abiertos \subseteq Descriptores /\ muertos \subseteq Descriptores
    /\ pidsCliente \in Seq(Registros)
    /\ pidGlobal \in Nat
    /\ heap = [p \in Pids |-> heap[p]]
    /\ caido \in BOOLEAN

\* A client that is not connected has nothing; one that asks for a block says its size.
ClientesOK ==
    \A c \in Clientes :
        /\ ~Vivo(c) \/ cliente[c].pc = "listo" => cliente[c].op = "nada"
        /\ ~Vivo(c) => tiene[c] = {}
        /\ cliente[c].op = "memalloc" => cliente[c].bloque.tam # 0

\* With a kernel each carpincho has a PID of its own and memoria no record.
ConKernelOK ==
    conf.kernel =>
        /\ pidsCliente = <<>> /\ muertos = {}
        /\ \A c \in Clientes : Vivo(c) => cliente[c].pid \in 0 .. pidGlobal - 1
        /\ \A c, e \in Clientes : Vivo(c) /\ Vivo(e) /\ c # e => cliente[c].pid # cliente[e].pid

\* No descriptor and no PID has two records.
Unicos(l) == \A i, j \in DOMAIN l : i # j => l[i].fd # l[j].fd /\ l[i].pid # l[j].pid

\* Without one each client has a descriptor of its own and memoria at most one record of it.
SinKernelOK ==
    ~conf.kernel =>
        /\ \A c \in Clientes : cliente[c].pid = SinPid
        /\ abiertos = {cliente[c].fd : c \in {e \in Clientes : Vivo(e)}}
        /\ \A c, e \in Clientes : Vivo(c) /\ Vivo(e) /\ c # e => cliente[c].fd # cliente[e].fd
        /\ Registrados \subseteq abiertos \union muertos
        /\ \A i \in DOMAIN pidsCliente : pidsCliente[i].pid < pidGlobal
        /\ Unicos(pidsCliente)

\* The clients that have had their PID, or will not get one.
Contado(c) ==
    IF conf.kernel THEN Vivo(c)
    ELSE \/ cliente[c].pc \in {"cerrado", "muerto"}
         \/ cliente[c].pc = "respondido" /\ cliente[c].op = "close"
         \/ Vivo(c) /\ cliente[c].fd \in Registrados
\* No more PIDs have been given than that, so there is one for each client still to come.
PidsAlcanzan == pidGlobal <= Cardinality({c \in Clientes : Contado(c)})

\* The connections: who is connected, over which descriptor, with which PID.
Conectados == TiposOK /\ ClientesOK /\ ConKernelOK /\ SinKernelOK /\ PidsAlcanzan

-----------------------------------------------------------------------------
\* Heaps and blocks of the processes.

\* A PID nobody has had yet has no heap.
HeapsOK == \A p \in Pids : HeapOK(heap[p]) /\ (p >= pidGlobal => Vacio(heap[p]))

\* What a client x with the blocks in B has, the one it is giving back and the one it is
\* getting included.
Devolviendo(x) == x.op = "memfree" /\ x.pc \in {"pidiendo", "reenviado"}
Recibiendo(x) == x.op = "memalloc" /\ x.pc = "respondido" /\ x.resp >= 0
Cerrando(x) == x.op = "close" /\ x.pc = "respondido"
Suyos(x, B) ==
    B \union (IF Devolviendo(x) THEN {x.bloque} ELSE {})
      \union (IF Recibiendo(x) THEN {[dir |-> x.resp, tam |-> x.bloque.tam]} ELSE {})

\* They are the used blocks of h, with at least their size.
Iguala(B, h) ==
    /\ {b.dir : b \in B} = {d + TamHeader : d \in EnUso(h)}
    /\ \A b \in B : \A d \in EnUso(h) : b.dir = d + TamHeader => b.tam <= Espacio(h, d)
    /\ \A b, x \in B : b.dir = x.dir => b = x

\* They are those of its heap, or none if it has no PID.
Corresponden(x, B, pid, h) ==
    /\ pid = SinPid /\ ~Cerrando(x) => Suyos(x, B) = {}
    /\ pid # SinPid /\ Sano(h) => Iguala(Suyos(x, B), h)
    /\ Devolviendo(x) => x.bloque \notin B
\* The client's blocks are those of the heap of its PID, unless another client died on its descriptor.
BloquesDe(c) ==
    Activo(c) /\ cliente[c].fd \notin muertos =>
        Corresponden(cliente[c], tiene[c], PidDe(c), heap[PidDe(c)])
BloquesOK == \A c \in Clientes : BloquesDe(c)

\* The inductive invariant.
Servido == Conectados /\ HeapsOK /\ BloquesOK

-----------------------------------------------------------------------------
\* Pages and addresses.

\* The division of the code: a page has TAMANIO_PAGINA addresses.
LEMMA DivideBien ==
  ASSUME NEW d \in Nat
  PROVE  /\ Pagina(d) \in Nat /\ TamPagina \in Nat /\ TamPagina > 0 /\ TamHeader \in Nat /\ TamHeader > 0
         /\ Pagina(d) * TamPagina \in Nat
         /\ Pagina(d) * TamPagina <= d /\ d < Pagina(d) * TamPagina + TamPagina
<1>1. TamPagina \in Nat /\ TamPagina > 0 /\ TamHeader \in Nat /\ TamHeader > 0
  BY TamaniosAssumption
<1>. QED
  BY <1>1, Z3 DEF Pagina

\* More pages have more addresses.
LEMMA MasPaginas ==
  ASSUME NEW m \in Nat, NEW n \in Nat, m <= n
  PROVE  m * TamPagina \in Nat /\ n * TamPagina \in Nat /\ m * TamPagina <= n * TamPagina
<1>1. TamPagina \in Nat
  BY TamaniosAssumption
<1>2. PICK k \in Nat : n = m + k
  <2>1. n - m \in Nat /\ n = m + (n - m)
    OBVIOUS
  <2>. QED
    BY <2>1
<1>. QED
  BY <1>1, Z3

\* An address in a page after.
LEMMA PaginasOrdenan ==
  ASSUME NEW d \in Nat, NEW e \in Nat
  PROVE  /\ d <= e => Pagina(d) <= Pagina(e)
         /\ Pagina(d) < Pagina(e) => d < e
         /\ Pagina(d) + 2 <= Pagina(e) => d < e - TamPagina
         /\ Pagina(e) >= 1 => e - TamPagina \in Nat /\ Pagina(e - TamPagina) = Pagina(e) - 1
<1>. DEFINE P == Pagina(d) Q == Pagina(e) S == TamPagina
<1>1. /\ P \in Nat /\ Q \in Nat /\ S \in Nat /\ S > 0
      /\ P * S \in Nat /\ P * S <= d /\ d < P * S + S
      /\ Q * S \in Nat /\ Q * S <= e /\ e < Q * S + S
  BY DivideBien
<1>2. Q < P => Q * S + S <= P * S
  <2>1. SUFFICES ASSUME Q < P  PROVE Q * S + S <= P * S
    OBVIOUS
  <2>2. Q + 1 \in Nat /\ Q + 1 <= P
    BY <1>1, <2>1
  <2>3. (Q + 1) * S <= P * S
    BY <1>1, <2>2, MasPaginas
  <2>. QED
    BY <1>1, <2>3
<1>3. P < Q => P * S + S <= Q * S
  <2>1. SUFFICES ASSUME P < Q  PROVE P * S + S <= Q * S
    OBVIOUS
  <2>2. P + 1 \in Nat /\ P + 1 <= Q
    BY <1>1, <2>1
  <2>3. (P + 1) * S <= Q * S
    BY <1>1, <2>2, MasPaginas
  <2>. QED
    BY <1>1, <2>3
<1>4. P + 2 <= Q => P * S + S + S <= Q * S
  <2>1. SUFFICES ASSUME P + 2 <= Q  PROVE P * S + S + S <= Q * S
    OBVIOUS
  <2>2. P + 2 \in Nat
    BY <1>1
  <2>3. (P + 2) * S <= Q * S
    BY <1>1, <2>1, <2>2, MasPaginas
  <2>. QED
    BY <1>1, <2>3
<1>5. Q >= 1 => e - S \in Nat /\ Pagina(e - S) = Q - 1
  <2>1. SUFFICES ASSUME Q >= 1  PROVE e - S \in Nat /\ Pagina(e - S) = Q - 1
    OBVIOUS
  <2>2. 1 * S <= Q * S
    BY <1>1, <2>1, MasPaginas
  <2>3. e - S \in Nat
    BY <1>1, <2>2
  <2>. DEFINE R == Pagina(e - S)
  <2>4. R \in Nat /\ R * S \in Nat /\ R * S <= e - S /\ e - S < R * S + S
    BY <2>3, DivideBien
  <2>. HIDE DEF P, Q, S, R
  <2>5. ~(R + 1 < Q)
    <3>1. SUFFICES ASSUME R + 1 < Q  PROVE FALSE
      OBVIOUS
    <3>2. R + 2 \in Nat /\ R + 2 <= Q
      BY <1>1, <2>4, <3>1
    <3>3. (R + 2) * S <= Q * S
      BY <1>1, <3>2, MasPaginas DEF S
    <3>. QED
      BY <1>1, <2>4, <3>3
  <2>6. ~(R + 1 > Q)
    <3>1. SUFFICES ASSUME R >= Q  PROVE FALSE
      BY <1>1, <2>4
    <3>2. Q * S <= R * S
      BY <1>1, <2>4, <3>1, MasPaginas DEF S
    <3>. QED
      BY <1>1, <2>4, <3>2
  <2>7. R = Q - 1
    BY <1>1, <2>4, <2>5, <2>6
  <2>. QED
    BY <2>3, <2>7 DEF R, S, Q
<1>. HIDE DEF P, Q, S
<1>6. d <= e => P <= Q
  BY <1>1, <1>2
<1>7. P < Q => d < e
  BY <1>1, <1>3
<1>8. P + 2 <= Q => d < e - S
  BY <1>1, <1>4
<1>. QED
  BY <1>5, <1>6, <1>7, <1>8 DEF P, Q, S

\* An address below the end of the pages is in one of them.
LEMMA DentroDePaginas ==
  ASSUME NEW d \in Nat, NEW n \in Nat, d < n * TamPagina
  PROVE  Pagina(d) < n
<1>1. SUFFICES ASSUME n <= Pagina(d)  PROVE FALSE
  BY DivideBien
<1>2. n * TamPagina <= Pagina(d) * TamPagina
  BY <1>1, DivideBien, MasPaginas
<1>. QED
  BY <1>2, DivideBien, MasPaginas

\* The pages rounded up are enough.
LEMMA TechoAlcanza ==
  ASSUME NEW n \in Nat
  PROVE  Techo(n) \in Nat /\ Techo(n) * TamPagina \in Nat /\ n <= Techo(n) * TamPagina
<1>1. TamPagina \in Nat /\ TamPagina > 0 /\ n + TamPagina - 1 \in Nat
  BY TamaniosAssumption
<1>2. Techo(n) = Pagina(n + TamPagina - 1)
  BY DEF Techo, Pagina
<1>. QED
  BY <1>1, <1>2, DivideBien

-----------------------------------------------------------------------------
\* The walk along the headers.

\* The first steps of the walk.
Sigue(h, r, n) == r = [i \in 0 .. n |-> IF i = 0 THEN 0 ELSE h.hdr[r[i - 1]].next]

\* It exists, however long.
LEMMA SigueExiste ==
  ASSUME NEW h, NEW n \in Nat
  PROVE  \E r : Sigue(h, r, n)
<1>. DEFINE Malos == {m \in Nat : ~\E r : Sigue(h, r, m)}
<1>1. SUFFICES ASSUME Malos # {}  PROVE FALSE
  OBVIOUS
<1>. DEFINE m == Min(Malos)
<1>2. m \in Malos /\ \A i \in Malos : m <= i
  BY <1>1, MinimoExiste
<1>3. m \in Nat /\ ~\E r : Sigue(h, r, m)
  BY <1>2
<1>4. m # 0
  <2>1. SUFFICES ASSUME m = 0  PROVE FALSE
    OBVIOUS
  <2>. DEFINE r == [i \in 0 .. 0 |-> 0]
  <2>2. \A i \in 0 .. 0 : i = 0
    OBVIOUS
  <2>3. r = [i \in 0 .. 0 |-> IF i = 0 THEN 0 ELSE h.hdr[r[i - 1]].next]
    BY <2>2
  <2>. QED
    BY <1>3, <2>1, <2>3 DEF Sigue
<1>5. m - 1 \in Nat /\ m - 1 \notin Malos
  BY <1>2, <1>3, <1>4
<1>6. PICK r : Sigue(h, r, m - 1)
  BY <1>5
<1>. DEFINE s == [i \in 0 .. m |-> IF i < m THEN r[i] ELSE h.hdr[r[m - 1]].next]
<1>. HIDE DEF m, Malos
<1>7. ASSUME NEW i \in 0 .. m  PROVE s[i] = IF i = 0 THEN 0 ELSE h.hdr[s[i - 1]].next
  <2>1. CASE i = m
    <3>1. m - 1 \in 0 .. m /\ m - 1 < m /\ i # 0 /\ ~(i < m)
      BY <1>3, <1>5, <2>1
    <3>. QED
      BY <2>1, <3>1
  <2>2. CASE i = 0
    <3>1. 0 \in 0 .. m - 1 /\ 0 < m
      BY <1>3, <1>5
    <3>2. r[0] = 0
      BY <1>6, <3>1 DEF Sigue
    <3>. QED
      BY <2>2, <3>1, <3>2
  <2>3. CASE i # 0 /\ i # m
    <3>1. i \in 0 .. m - 1 /\ i < m /\ i - 1 \in 0 .. m /\ i - 1 < m
      BY <1>3, <1>5, <2>3
    <3>2. r[i] = h.hdr[r[i - 1]].next
      BY <1>6, <2>3, <3>1 DEF Sigue
    <3>. QED
      BY <2>3, <3>1, <3>2
  <2>. QED
    BY <2>1, <2>2, <2>3
<1>8. s = [i \in 0 .. m |-> IF i = 0 THEN 0 ELSE h.hdr[s[i - 1]].next]
  BY <1>7
<1>. QED
  BY <1>3, <1>8 DEF Sigue

\* Recorrido is that walk, as long as there are headers.
LEMMA RecorridoBien ==
  ASSUME NEW h, IsFiniteSet(DOMAIN h.hdr)
  PROVE  LET n == Cardinality(DOMAIN h.hdr)
             r == Recorrido(h)
         IN  /\ n \in Nat /\ DOMAIN r = 0 .. n
             /\ r[0] = 0
             /\ \A i \in 1 .. n : r[i] = h.hdr[r[i - 1]].next
<1>. DEFINE n == Cardinality(DOMAIN h.hdr) r == Recorrido(h)
<1>1. n \in Nat
  BY FS_CardinalityType
<1>2. \E s : Sigue(h, s, n)
  BY <1>1, SigueExiste
<1>3. r = CHOOSE s : s = [i \in 0 .. n |-> IF i = 0 THEN 0 ELSE h.hdr[s[i - 1]].next]
  BY DEF Recorrido
<1>4. r = CHOOSE s : Sigue(h, s, n)
  BY <1>3 DEF Sigue
<1>5. Sigue(h, r, n)
  BY <1>2, <1>4
<1>6. r = [i \in 0 .. n |-> IF i = 0 THEN 0 ELSE h.hdr[r[i - 1]].next]
  BY <1>5 DEF Sigue
<1>. HIDE DEF n, r
<1>7. DOMAIN r = 0 .. n
  BY <1>6
<1>8. r[0] = 0
  <2>1. 0 \in 0 .. n
    BY <1>1
  <2>. QED
    BY <1>6, <2>1
<1>9. ASSUME NEW i \in 1 .. n  PROVE r[i] = h.hdr[r[i - 1]].next
  <2>1. i \in 0 .. n /\ i # 0
    BY <1>1
  <2>. QED
    BY <1>6, <2>1
<1>. QED
  BY <1>1, <1>7, <1>8, <1>9 DEF n, r

\* What grows at each step grows.
LEMMA Creciente ==
  ASSUME NEW n \in Nat, NEW r, \A i \in 0 .. n : r[i] \in Nat, \A i \in 1 .. n : r[i - 1] < r[i]
  PROVE  \A i, j \in 0 .. n : i < j => r[i] < r[j]
<1>1. SUFFICES ASSUME NEW i \in 0 .. n, \E j \in 0 .. n : i < j /\ ~(r[i] < r[j])  PROVE FALSE
  OBVIOUS
<1>. DEFINE Malos == {j \in 0 .. n : i < j /\ ~(r[i] < r[j])}
             m == Min(Malos)
<1>2. Malos \subseteq Nat /\ Malos # {}
  BY <1>1
<1>3. m \in Malos /\ \A j \in Malos : m <= j
  BY <1>2, MinimoExiste
<1>4. m \in 0 .. n /\ i < m /\ ~(r[i] < r[m])
  BY <1>3
<1>5. m - 1 \in 0 .. n /\ m \in 1 .. n /\ m - 1 \notin Malos
  BY <1>2, <1>3, <1>4
<1>. HIDE DEF m
<1>6. r[m - 1] < r[m] /\ r[i] \in Nat /\ r[m] \in Nat /\ r[m - 1] \in Nat
  BY <1>4, <1>5
<1>7. CASE i = m - 1
  BY <1>4, <1>6, <1>7
<1>8. CASE i # m - 1
  <2>1. i < m - 1
    BY <1>4, <1>8
  <2>2. r[i] < r[m - 1]
    BY <1>5, <2>1
  <2>. QED
    BY <1>4, <1>6, <2>2
<1>. QED
  BY <1>7, <1>8

\* The walk r goes along the headers in C from the first to the last, its m-th.
Camina(h, C, r, m) ==
    /\ m \in Nat /\ 0 .. m \subseteq DOMAIN r /\ r[0] = 0
    /\ \A i \in 0 .. m : r[i] \in C
    /\ \A i \in 1 .. m : /\ h.hdr[r[i - 1]].next = r[i] /\ r[i] # 0
                         /\ r[i - 1] + TamHeader < r[i] /\ h.hdr[r[i]].prev = r[i - 1]
    /\ h.hdr[r[m]].next = 0
    /\ \A c \in C : \E i \in 0 .. m : r[i] = c

\* Recorrido walks along a chain and gets to its end.
LEMMA RecorridoCamina ==
  ASSUME NEW h, IsFiniteSet(DOMAIN h.hdr), DOMAIN h.hdr \subseteq Nat, h.hdr \in [DOMAIN h.hdr -> Headers],
         NEW C, EnCadena(h.hdr, C)
  PROVE  /\ CadenaTermina(h)
         /\ \E m \in Nat : /\ Camina(h, C, Recorrido(h), m)
                           /\ m \in DOMAIN Recorrido(h)
                           /\ \A i \in 0 .. m - 1 : h.hdr[Recorrido(h)[i]].next # 0
                           /\ \A i \in DOMAIN Recorrido(h) : i \in Nat
<1>. DEFINE n == Cardinality(DOMAIN h.hdr) r == Recorrido(h)
<1>1. /\ n \in Nat /\ DOMAIN r = 0 .. n /\ r[0] = 0
      /\ \A i \in 1 .. n : r[i] = h.hdr[r[i - 1]].next
  BY RecorridoBien
<1>. HIDE DEF r
<1>2. /\ 0 \in C /\ C \subseteq DOMAIN h.hdr
      /\ \A d \in C : h.hdr[d].next # 0 =>
            h.hdr[d].next \in C /\ d + TamHeader < h.hdr[d].next /\ h.hdr[h.hdr[d].next].prev = d
      /\ \A d, e \in C : d < e => h.hdr[d].next # 0 /\ h.hdr[d].next <= e
  BY DEF EnCadena
<1>3. C \subseteq Nat /\ \A d \in C : h.hdr[d].next \in Nat
  BY <1>2 DEF Headers
<1>4. TamHeader \in Nat
  BY TamaniosAssumption
<1>5. \A i \in 0 .. n : r[i] \in C
  <2>. DEFINE Malos == {i \in 0 .. n : r[i] \notin C}
               k == Min(Malos)
  <2>1. SUFFICES ASSUME Malos # {}  PROVE FALSE
    OBVIOUS
  <2>2. Malos \subseteq Nat
    BY <1>1
  <2>3. k \in Malos /\ \A i \in Malos : k <= i
    BY <2>1, <2>2, MinimoExiste
  <2>4. k \in 1 .. n /\ k - 1 \in 0 .. n /\ k - 1 \notin Malos
    BY <1>1, <1>2, <2>3
  <2>. HIDE DEF k
  <2>5. r[k - 1] \in C /\ r[k] = h.hdr[r[k - 1]].next
    BY <1>1, <2>4
  <2>. QED
    BY <1>2, <2>3, <2>5
<1>6. \E i \in 0 .. n : h.hdr[r[i]].next = 0
  <2>1. SUFFICES ASSUME \A i \in 0 .. n : h.hdr[r[i]].next # 0  PROVE FALSE
    OBVIOUS
  <2>2. ASSUME NEW i \in 1 .. n  PROVE r[i - 1] < r[i]
    <3>1. i - 1 \in 0 .. n /\ r[i] = h.hdr[r[i - 1]].next
      BY <1>1
    <3>2. r[i - 1] \in C /\ h.hdr[r[i - 1]].next # 0
      BY <1>5, <2>1, <3>1
    <3>3. r[i - 1] + TamHeader < r[i] /\ r[i - 1] \in Nat /\ r[i] \in Nat
      BY <1>2, <1>3, <3>1, <3>2
    <3>. QED
      BY <1>4, <3>3
  <2>3. \A i \in 0 .. n : r[i] \in Nat
    BY <1>3, <1>5
  <2>4. \A i, j \in 0 .. n : i < j => r[i] < r[j]
    BY <1>1, <2>2, <2>3, Creciente
  <2>. DEFINE f == [i \in 0 .. n |-> r[i]]
  <2>5. f \in [0 .. n -> DOMAIN h.hdr]
    BY <1>2, <1>5
  <2>6. IsFiniteSet(0 .. n) /\ Cardinality(0 .. n) = n + 1
    <3>1. 0 \in Int /\ n \in Int /\ ~(0 > n) /\ n - 0 + 1 = n + 1
      BY <1>1
    <3>. QED
      BY <3>1, FS_Interval
  <2>7. Cardinality(DOMAIN h.hdr) < Cardinality(0 .. n)
    BY <1>1, <2>6
  <2>8. \E x, y \in 0 .. n : x # y /\ f[x] = f[y]
    <3>1. \A S, T : IsFiniteSet(S) /\ IsFiniteSet(T) /\ Cardinality(T) < Cardinality(S) =>
             \A g \in [S -> T] : \E x, y \in S : x # y /\ g[x] = g[y]
      BY FS_PigeonHole
    <3>. HIDE DEF f
    <3>. QED
      BY <2>5, <2>6, <2>7, <3>1
  <2>9. PICK x \in 0 .. n, y \in 0 .. n : x # y /\ r[x] = r[y]
    BY <2>8
  <2>10. x \in Nat /\ y \in Nat
    BY <1>1
  <2>11. x < y \/ y < x
    BY <2>9, <2>10
  <2>. QED
    BY <2>3, <2>4, <2>9, <2>11
<1>. DEFINE Fines == {i \in 0 .. n : h.hdr[r[i]].next = 0}
             m == Min(Fines)
<1>7. Fines \subseteq Nat /\ Fines # {}
  BY <1>1, <1>6
<1>8. m \in Fines /\ \A i \in Fines : m <= i
  BY <1>7, MinimoExiste
<1>. HIDE DEF m
<1>9. m \in 0 .. n /\ m \in Nat /\ h.hdr[r[m]].next = 0
  BY <1>8
<1>10. \A i \in 0 .. m - 1 : h.hdr[r[i]].next # 0
  <2>1. ASSUME NEW i \in 0 .. m - 1, h.hdr[r[i]].next = 0  PROVE FALSE
    <3>1. i \in 0 .. n /\ ~(m <= i)
      BY <1>1, <1>9
    <3>2. i \in Fines
      BY <2>1, <3>1
    <3>. QED
      BY <1>8, <3>1, <3>2
  <2>. QED
    BY <2>1
<1>11. ASSUME NEW i \in 1 .. m
       PROVE  /\ h.hdr[r[i - 1]].next = r[i] /\ r[i] # 0
              /\ r[i - 1] + TamHeader < r[i] /\ h.hdr[r[i]].prev = r[i - 1]
  <2>1. i - 1 \in 0 .. m - 1 /\ i - 1 \in 0 .. n /\ i \in 1 .. n
    BY <1>1, <1>9
  <2>2. r[i - 1] \in C /\ h.hdr[r[i - 1]].next # 0 /\ r[i] = h.hdr[r[i - 1]].next
    BY <1>1, <1>5, <1>10, <2>1
  <2>. QED
    BY <1>2, <2>2
<1>12. ASSUME NEW c \in C  PROVE \E i \in 0 .. m : r[i] = c
  <2>1. SUFFICES ASSUME \A i \in 0 .. m : r[i] # c  PROVE FALSE
    OBVIOUS
  <2>. DEFINE Malos == {i \in 0 .. m : ~(r[i] < c)}
               k == Min(Malos)
  <2>2. \A i \in 0 .. m : r[i] \in Nat /\ r[i] \in C
    <3>1. 0 .. m \subseteq 0 .. n
      BY <1>1, <1>9
    <3>. QED
      BY <1>3, <1>5, <3>1
  <2>3. ASSUME Malos # {}  PROVE FALSE
    <3>1. Malos \subseteq Nat
      BY <1>9
    <3>2. k \in Malos /\ \A i \in Malos : k <= i
      BY <2>3, <3>1, MinimoExiste
    <3>3. 0 \in 0 .. m /\ r[0] # c /\ c \in Nat
      BY <1>3, <1>9, <2>1
    <3>4. 0 \notin Malos
      BY <1>1, <3>3
    <3>5. k \in 1 .. m /\ k - 1 \in 0 .. m /\ k - 1 \notin Malos
      BY <1>9, <3>2, <3>4
    <3>. HIDE DEF k
    <3>6. r[k - 1] < c /\ h.hdr[r[k - 1]].next = r[k]
      BY <1>11, <3>5
    <3>7. r[k] <= c
      BY <1>2, <2>2, <3>5, <3>6
    <3>8. r[k] # c /\ r[k] \in Nat /\ ~(r[k] < c)
      BY <2>1, <2>2, <3>2, <3>5
    <3>. QED
      BY <3>3, <3>7, <3>8
  <2>4. m \in 0 .. m
    BY <1>9
  <2>5. r[m] < c /\ r[m] \in C
    BY <2>2, <2>3, <2>4
  <2>. QED
    BY <1>2, <1>9, <2>5
<1>13. 0 .. m \subseteq 0 .. n
  BY <1>1, <1>9
<1>14. Camina(h, C, r, m)
  <2>1. \A i \in 0 .. m : r[i] \in C
    BY <1>5, <1>13
  <2>. QED
    BY <1>1, <1>9, <1>11, <1>12, <1>13, <2>1 DEF Camina
<1>15. CadenaTermina(h)
  BY <1>1, <1>9 DEF CadenaTermina, r
<1>16. \A i \in DOMAIN r : i \in Nat
  BY <1>1
<1>. QED
  BY <1>1, <1>9, <1>10, <1>14, <1>15, <1>16 DEF r

\* Cadena is the list of the headers in C.
LEMMA CadenaDe ==
  ASSUME NEW h, IsFiniteSet(DOMAIN h.hdr), DOMAIN h.hdr \subseteq Nat, h.hdr \in [DOMAIN h.hdr -> Headers],
         NEW C, EnCadena(h.hdr, C)
  PROVE  /\ CadenaTermina(h) /\ ToSet(Cadena(h)) = C
         /\ Len(Cadena(h)) \in Nat /\ Len(Cadena(h)) > 0 /\ DOMAIN Cadena(h) = 1 .. Len(Cadena(h))
         /\ \A i \in 1 .. Len(Cadena(h)) : Cadena(h)[i] \in C
         /\ \A i \in 2 .. Len(Cadena(h)) :
               /\ Cadena(h)[i] > Cadena(h)[i - 1] + TamHeader
               /\ h.hdr[Cadena(h)[i]].prev = Cadena(h)[i - 1]
         /\ h.hdr[Last(Cadena(h))].next = 0 /\ Last(Cadena(h)) \in C
<1>. DEFINE r == Recorrido(h)
             cad == Cadena(h)
<1>1. PICK m \in Nat : /\ Camina(h, C, r, m) /\ m \in DOMAIN r
                       /\ \A i \in 0 .. m - 1 : h.hdr[r[i]].next # 0
                       /\ \A i \in DOMAIN r : i \in Nat
  BY RecorridoCamina
<1>. DEFINE Fines == {i \in DOMAIN r : h.hdr[r[i]].next = 0}
             fin == Min(Fines)
<1>2. cad = [i \in 1 .. fin + 1 |-> r[i - 1]]
  BY DEF Cadena
<1>. HIDE DEF r, cad
<1>3. m \in Fines /\ Fines \subseteq Nat
  BY <1>1 DEF Camina
<1>4. fin \in Fines /\ \A i \in Fines : fin <= i
  BY <1>3, MinimoExiste
<1>5. fin = m
  <2>1. fin \in Nat /\ fin <= m /\ h.hdr[r[fin]].next = 0
    BY <1>3, <1>4
  <2>2. ~(fin < m)
    <3>1. SUFFICES ASSUME fin < m  PROVE FALSE
      OBVIOUS
    <3>2. fin \in 0 .. m - 1
      BY <2>1, <3>1
    <3>. QED
      BY <1>1, <2>1, <3>2
  <2>. QED
    BY <2>1, <2>2
<1>. HIDE DEF fin
<1>6. cad = [i \in 1 .. m + 1 |-> r[i - 1]] /\ \A i \in 1 .. m + 1 : i - 1 \in 0 .. m /\ r[i - 1] \in C
  BY <1>1, <1>2, <1>5 DEF Camina
<1>7. DOMAIN cad = 1 .. m + 1 /\ \A i \in 1 .. m + 1 : cad[i] = r[i - 1] /\ cad[i] \in C
  BY <1>6
<1>8. cad \in Seq(C) /\ Len(cad) = m + 1
  <2>1. cad \in [1 .. m + 1 -> C] /\ m + 1 \in Nat
    BY <1>6
  <2>. QED
    BY <2>1
<1>9. ToSet(cad) = C
  <2>1. ASSUME NEW c \in C  PROVE c \in ToSet(cad)
    <3>1. PICK i \in 0 .. m : r[i] = c
      BY <1>1 DEF Camina
    <3>2. i + 1 \in 1 .. m + 1 /\ i + 1 - 1 = i
      BY <1>1
    <3>3. cad[i + 1] = c
      BY <1>7, <3>1, <3>2
    <3>. QED
      BY <1>7, <3>2, <3>3 DEF ToSet
  <2>2. ToSet(cad) \subseteq C
    BY <1>7 DEF ToSet
  <2>. QED
    BY <2>1, <2>2
<1>10. ASSUME NEW i \in 2 .. m + 1
       PROVE  cad[i] > cad[i - 1] + TamHeader /\ h.hdr[cad[i]].prev = cad[i - 1]
  <2>1. i \in 1 .. m + 1 /\ i - 1 \in 1 .. m + 1 /\ i - 1 \in 1 .. m
    OBVIOUS
  <2>2. cad[i] = r[i - 1] /\ cad[i - 1] = r[(i - 1) - 1]
    BY <1>7, <2>1
  <2>3. r[(i - 1) - 1] + TamHeader < r[i - 1] /\ h.hdr[r[i - 1]].prev = r[(i - 1) - 1]
    BY <1>1, <2>1 DEF Camina
  <2>. QED
    BY <2>2, <2>3
<1>11. Last(cad) = r[m] /\ m + 1 \in 1 .. m + 1
  BY <1>7, <1>8 DEF Last
<1>12. h.hdr[r[m]].next = 0 /\ r[m] \in C
  BY <1>1 DEF Camina
<1>13. CadenaTermina(h)
  BY RecorridoCamina
<1>. QED
  BY <1>7, <1>8, <1>9, <1>10, <1>11, <1>12, <1>13 DEF cad

-----------------------------------------------------------------------------
\* Chains.

\* What there is in a chain: numbers, and a header before every one but the first.
LEMMA Eslabones ==
  ASSUME NEW h, NEW C, EsHeap(h), EnCadena(h.hdr, C)
  PROVE  /\ 0 \in C /\ C \subseteq Nat /\ C \subseteq DOMAIN h.hdr /\ TamHeader \in Nat /\ TamHeader > 0
         /\ \A d \in C : /\ h.hdr[d] \in Headers /\ h.hdr[d].next \in Nat /\ h.hdr[d].prev \in Nat
                         /\ h.hdr[d].libre \in BOOLEAN
         /\ \A d \in C : h.hdr[d].next # 0 =>
               h.hdr[d].next \in C /\ d + TamHeader < h.hdr[d].next /\ h.hdr[h.hdr[d].next].prev = d
         /\ \A d, e \in C : d < e => h.hdr[d].next # 0 /\ h.hdr[d].next <= e
         /\ \A d \in C : d # 0 => h.hdr[d].prev \in C /\ h.hdr[h.hdr[d].prev].next = d
<1>1. /\ 0 \in C /\ C \subseteq DOMAIN h.hdr
      /\ \A d \in C : h.hdr[d].next # 0 =>
            h.hdr[d].next \in C /\ d + TamHeader < h.hdr[d].next /\ h.hdr[h.hdr[d].next].prev = d
      /\ \A d, e \in C : d < e => h.hdr[d].next # 0 /\ h.hdr[d].next <= e
  BY DEF EnCadena
<1>2. /\ h.hdr \in [DOMAIN h.hdr -> Headers] /\ DOMAIN h.hdr \subseteq Nat /\ IsFiniteSet(DOMAIN h.hdr)
  BY DEF EsHeap
<1>3. \A d \in C : h.hdr[d] \in Headers
  BY <1>1, <1>2
<1>4. \A d \in C : h.hdr[d].next \in Nat /\ h.hdr[d].prev \in Nat /\ h.hdr[d].libre \in BOOLEAN
  BY <1>3 DEF Headers
<1>5. PICK m \in Nat : Camina(h, C, Recorrido(h), m)
  BY <1>2, RecorridoCamina
<1>. DEFINE r == Recorrido(h)
<1>. HIDE DEF r
<1>6. ASSUME NEW d \in C, d # 0  PROVE h.hdr[d].prev \in C /\ h.hdr[h.hdr[d].prev].next = d
  <2>1. PICK i \in 0 .. m : r[i] = d
    BY <1>5 DEF Camina, r
  <2>2. i # 0
    BY <1>5, <1>6, <2>1 DEF Camina, r
  <2>3. i \in 1 .. m /\ i - 1 \in 0 .. m
    BY <1>5, <2>2
  <2>4. h.hdr[r[i - 1]].next = d /\ h.hdr[d].prev = r[i - 1] /\ r[i - 1] \in C
    BY <1>5, <2>1, <2>3 DEF Camina, r
  <2>. QED
    BY <2>4
<1>7. TamHeader \in Nat /\ TamHeader > 0
  BY TamaniosAssumption
<1>. QED
  BY <1>1, <1>2, <1>3, <1>4, <1>6, <1>7

\* The chain in which a leads to post, and what was between them is left out.
Salteada(C, a, post) == {d \in C : d <= a \/ (post # 0 /\ d >= post)}
\* g are headers that lead so.
Salta(h, C, a, post, g) ==
    /\ C \subseteq DOMAIN g
    /\ post = 0 \/ (post \in C /\ a + TamHeader < post)
    /\ g[a].next = post /\ (post # 0 => g[post].prev = a)
    /\ \A d \in C \ {a} : g[d].next = h.hdr[d].next
    /\ \A d \in C \ {post, 0} : g[d].prev = h.hdr[d].prev

\* A chain without the headers between a and post is a chain.
LEMMA Saltar ==
  ASSUME NEW h, NEW C, EsHeap(h), EnCadena(h.hdr, C),
         NEW a \in C, NEW post, NEW g, Salta(h, C, a, post, g)
  PROVE  EnCadena(g, Salteada(C, a, post))
<1>0. /\ C \subseteq DOMAIN g
      /\ post = 0 \/ (post \in C /\ a + TamHeader < post)
      /\ g[a].next = post /\ (post # 0 => g[post].prev = a)
      /\ \A d \in C \ {a} : g[d].next = h.hdr[d].next
      /\ \A d \in C \ {post, 0} : g[d].prev = h.hdr[d].prev
  BY DEF Salta
<1>. DEFINE D == Salteada(C, a, post)
<1>1. /\ 0 \in C /\ C \subseteq Nat /\ TamHeader \in Nat /\ TamHeader > 0
      /\ \A d \in C : h.hdr[d].next \in Nat
      /\ \A d \in C : h.hdr[d].next # 0 =>
            h.hdr[d].next \in C /\ d + TamHeader < h.hdr[d].next /\ h.hdr[h.hdr[d].next].prev = d
      /\ \A d, e \in C : d < e => h.hdr[d].next # 0 /\ h.hdr[d].next <= e
  BY Eslabones
<1>2. D \subseteq C /\ \A d \in C : d \in D <=> d <= a \/ (post # 0 /\ d >= post)
  BY DEF Salteada
<1>3. a \in Nat /\ post \in Nat
  BY <1>0, <1>1
<1>. HIDE DEF D
<1>4. 0 \in D /\ D \subseteq DOMAIN g
  BY <1>0, <1>1, <1>2, <1>3
<1>5. ASSUME NEW d \in D, g[d].next # 0
      PROVE  g[d].next \in D /\ d + TamHeader < g[d].next /\ g[g[d].next].prev = d
  <2>1. CASE d = a
    BY <1>0, <1>2, <1>3, <1>5, <2>1
  <2>2. CASE d # a
    <3>1. d \in C /\ d \in Nat /\ g[d].next = h.hdr[d].next
      BY <1>0, <1>1, <1>2, <2>2
    <3>. DEFINE e == h.hdr[d].next
    <3>2. e \in C /\ e \in Nat /\ e # 0 /\ d + TamHeader < e /\ h.hdr[e].prev = d
      BY <1>0, <1>1, <1>5, <3>1
    <3>. HIDE DEF e
    <3>3. g[d].next = e
      BY <1>0, <3>1 DEF e
    <3>4. CASE d < a
      <4>1. e <= a
        BY <1>0, <1>1, <3>1, <3>4 DEF e
      <4>2. e \in D /\ e # post
        BY <1>0, <1>1, <1>2, <1>3, <3>2, <4>1
      <4>3. g[e].prev = h.hdr[e].prev
        BY <1>0, <3>2, <4>2
      <4>. QED
        BY <3>2, <3>3, <4>2, <4>3
    <3>5. CASE ~(d < a)
      <4>1. post # 0 /\ d >= post
        BY <1>0, <1>2, <1>3, <2>2, <3>1, <3>5
      <4>2. e \in D /\ e # post
        BY <1>0, <1>1, <1>2, <1>3, <3>1, <3>2, <4>1
      <4>3. g[e].prev = h.hdr[e].prev
        BY <1>0, <3>2, <4>2
      <4>. QED
        BY <3>2, <3>3, <4>2, <4>3
    <3>. QED
      BY <3>4, <3>5
  <2>. QED
    BY <2>1, <2>2
<1>6. ASSUME NEW d \in D, NEW e \in D, d < e  PROVE g[d].next # 0 /\ g[d].next <= e
  <2>1. d \in C /\ e \in C /\ d \in Nat /\ e \in Nat
    BY <1>0, <1>1, <1>2
  <2>2. CASE d = a
    BY <1>0, <1>2, <1>3, <1>6, <2>1, <2>2
  <2>3. CASE d # a
    BY <1>0, <1>1, <1>6, <2>1, <2>3
  <2>. QED
    BY <2>2, <2>3
<1>. QED
  BY <1>0, <1>4, <1>5, <1>6 DEF EnCadena, D

\* A chain with one header more, after a.
Inserta(h, C, a, nueva, g) ==
    LET s == h.hdr[a].next
    IN  /\ nueva \in Nat /\ a + TamHeader < nueva /\ (s = 0 \/ nueva + TamHeader < s)
        /\ C \union {nueva} \subseteq DOMAIN g
        /\ g[a].next = nueva /\ g[nueva].next = s /\ g[nueva].prev = a /\ (s # 0 => g[s].prev = nueva)
        /\ \A d \in C \ {a} : g[d].next = h.hdr[d].next
        /\ \A d \in C \ {s} : g[d].prev = h.hdr[d].prev

\* A chain with one header more, between two of it or after the last, is a chain.
LEMMA Insertar ==
  ASSUME NEW h, NEW C, EsHeap(h), EnCadena(h.hdr, C),
         NEW a \in C, NEW nueva, NEW g, Inserta(h, C, a, nueva, g)
  PROVE  EnCadena(g, C \union {nueva}) /\ nueva \notin C
<1>. DEFINE s == h.hdr[a].next
<1>0. /\ s = h.hdr[a].next /\ nueva \in Nat /\ a + TamHeader < nueva /\ (s = 0 \/ nueva + TamHeader < s)
      /\ C \union {nueva} \subseteq DOMAIN g
      /\ g[a].next = nueva /\ g[nueva].next = s /\ g[nueva].prev = a /\ (s # 0 => g[s].prev = nueva)
      /\ \A d \in C \ {a} : g[d].next = h.hdr[d].next
      /\ \A d \in C \ {s} : g[d].prev = h.hdr[d].prev
  BY DEF Inserta
<1>. HIDE DEF s
<1>. DEFINE D == C \union {nueva}
<1>1. /\ 0 \in C /\ C \subseteq Nat /\ TamHeader \in Nat /\ TamHeader > 0
      /\ \A d \in C : h.hdr[d].next \in Nat
      /\ \A d \in C : h.hdr[d].next # 0 =>
            h.hdr[d].next \in C /\ d + TamHeader < h.hdr[d].next /\ h.hdr[h.hdr[d].next].prev = d
      /\ \A d, e \in C : d < e => h.hdr[d].next # 0 /\ h.hdr[d].next <= e
  BY Eslabones
<1>2. a \in Nat /\ s \in Nat /\ a < nueva /\ (s # 0 => s \in C /\ nueva < s)
  BY <1>0, <1>1
<1>3. \A d \in C : d <= a \/ (s # 0 /\ d >= s)
  BY <1>0, <1>1, <1>2
<1>4. nueva \notin C
  BY <1>0, <1>1, <1>2, <1>3
<1>5. ASSUME NEW d \in D, g[d].next # 0
      PROVE  g[d].next \in D /\ d + TamHeader < g[d].next /\ g[g[d].next].prev = d
  <2>1. CASE d = a
    BY <1>0, <2>1
  <2>2. CASE d = nueva
    BY <1>0, <1>2, <1>5, <2>2
  <2>3. CASE d # a /\ d # nueva
    <3>1. d \in C /\ g[d].next = h.hdr[d].next
      BY <1>0, <2>3
    <3>. DEFINE e == h.hdr[d].next
    <3>2. e \in C /\ d + TamHeader < e /\ h.hdr[e].prev = d /\ g[d].next = e
      BY <1>0, <1>1, <1>5, <3>1
    <3>3. e # s
      <4>1. SUFFICES ASSUME e = s  PROVE FALSE
        OBVIOUS
      <4>2. s # 0 /\ h.hdr[s].prev = a
        BY <1>0, <1>1, <1>5, <3>1, <4>1
      <4>. QED
        BY <2>3, <3>2, <4>1, <4>2
    <3>. HIDE DEF e
    <3>4. g[e].prev = h.hdr[e].prev
      BY <1>0, <3>2, <3>3
    <3>. QED
      BY <3>2, <3>4
  <2>. QED
    BY <2>1, <2>2, <2>3
<1>6. ASSUME NEW d \in D, NEW e \in D, d < e  PROVE g[d].next # 0 /\ g[d].next <= e
  <2>1. d \in Nat /\ e \in Nat
    BY <1>0, <1>1
  <2>2. CASE d = a
    BY <1>0, <1>1, <1>2, <1>3, <1>6, <2>1, <2>2
  <2>3. CASE d = nueva
    BY <1>0, <1>1, <1>2, <1>3, <1>6, <2>1, <2>3
  <2>4. CASE d # a /\ d # nueva
    <3>1. d \in C /\ g[d].next = h.hdr[d].next
      BY <1>0, <2>4
    <3>2. CASE e \in C
      BY <1>0, <1>1, <1>6, <3>1, <3>2
    <3>3. CASE e = nueva
      <4>1. d < a
        BY <1>0, <1>2, <1>3, <1>6, <2>1, <2>4, <3>1, <3>3
      <4>2. h.hdr[d].next # 0 /\ h.hdr[d].next <= a /\ h.hdr[d].next \in Nat
        BY <1>0, <1>1, <3>1, <4>1
      <4>. QED
        BY <1>0, <1>2, <3>1, <3>3, <4>2
    <3>. QED
      BY <3>2, <3>3
  <2>. QED
    BY <2>2, <2>3, <2>4
<1>. QED
  BY <1>0, <1>1, <1>4, <1>5, <1>6 DEF EnCadena

\* Limpiar forgets the headers that are not in the chain.
LEMMA LimpiarBien ==
  ASSUME NEW h, NEW C, Encadenado(h, C)
  PROVE  /\ Encadenado(Limpiar(h), C) /\ DOMAIN Limpiar(h).hdr = C
         /\ Limpiar(h).ids = h.ids /\ Limpiar(h).defecto = h.defecto
         /\ \A d \in C : Limpiar(h).hdr[d] = h.hdr[d]
<1>. DEFINE k == Limpiar(h)
<1>1. EsHeap(h) /\ h.ids # <<>> /\ Servible(h) /\ EnCadena(h.hdr, C) /\ LibresOK(h.hdr, C, Total(h))
  BY DEF Encadenado
<1>2. CadenaTermina(h) /\ ToSet(Cadena(h)) = C
  BY <1>1, CadenaDe DEF EsHeap
<1>3. k = [h EXCEPT !.hdr = Restrict(@, C)]
  BY <1>1, <1>2 DEF Limpiar
<1>4. h = [ids |-> h.ids, hdr |-> h.hdr, defecto |-> h.defecto]
  BY <1>1 DEF EsHeap
<1>5. k = [ids |-> h.ids, hdr |-> Restrict(h.hdr, C), defecto |-> h.defecto]
  BY <1>3, <1>4
<1>. HIDE DEF k
<1>6. k.ids = h.ids /\ k.defecto = h.defecto /\ k.hdr = [d \in C |-> h.hdr[d]]
  BY <1>5 DEF Restrict
<1>7. DOMAIN k.hdr = C /\ \A d \in C : k.hdr[d] = h.hdr[d]
  BY <1>6
<1>8. C \subseteq DOMAIN h.hdr
  BY <1>1 DEF EnCadena
<1>9. EsHeap(k)
  <2>1. k = [ids |-> k.ids, hdr |-> k.hdr, defecto |-> k.defecto]
    BY <1>5
  <2>2. k.hdr \in [C -> Headers]
    BY <1>1, <1>6, <1>8 DEF EsHeap
  <2>3. C \subseteq Nat /\ IsFiniteSet(C)
    BY <1>1, <1>8, FS_Subset DEF EsHeap
  <2>. QED
    BY <1>1, <1>6, <1>7, <2>1, <2>2, <2>3 DEF EsHeap
<1>10. EnCadena(k.hdr, C)
  BY <1>1, <1>7 DEF EnCadena
<1>11. LibresOK(k.hdr, C, Total(k))
  <2>1. Total(k) = Total(h)
    BY <1>6 DEF Total
  <2>2. \A d \in C : h.hdr[d].next # 0 => h.hdr[d].next \in C
    BY <1>1 DEF EnCadena
  <2>. QED
    BY <1>1, <1>7, <2>1, <2>2 DEF LibresOK
<1>. QED
  BY <1>1, <1>6, <1>7, <1>9, <1>10, <1>11 DEF Encadenado, Servible, k

-----------------------------------------------------------------------------
\* memalloc.

\* A defect ends all that is said of a heap.
Fatales == Defectos \ {"ninguno", "movido"}

\* A defect keeps the pages, drops the headers and is never repaired.
LEMMA DefectoRoto ==
  ASSUME NEW h, EsHeap(h), NEW cual \in Fatales
  PROVE  /\ Roto(Defecto(h, cual)) /\ Defecto(h, cual).ids = h.ids
         /\ ~Sano(Defecto(h, cual)) /\ ~Servible(Defecto(h, cual))
<1>. DEFINE k == Defecto(h, cual)
<1>1. /\ h = [ids |-> h.ids, hdr |-> h.hdr, defecto |-> h.defecto]
      /\ h.ids \in Seq(Nat) /\ Len(h.ids) <= MaxPaginas
  BY DEF EsHeap
<1>2. k = [ids |-> h.ids, hdr |-> <<>>, defecto |-> cual]
  <2>1. PICK i, g, d : h = [ids |-> i, hdr |-> g, defecto |-> d]
    BY <1>1
  <2>2. h.ids = i
    BY <2>1
  <2>3. \A v : [h EXCEPT !.hdr = v] = [ids |-> i, hdr |-> v, defecto |-> d]
    BY <2>1
  <2>4. \A v, w : [[ids |-> i, hdr |-> v, defecto |-> d] EXCEPT !.defecto = w]
                    = [ids |-> i, hdr |-> v, defecto |-> w]
    OBVIOUS
  <2>5. k = [[h EXCEPT !.hdr = <<>>] EXCEPT !.defecto = cual]
    BY DEF Defecto
  <2>. QED
    BY <2>2, <2>3, <2>4, <2>5, Zenon
<1>. HIDE DEF k
<1>3. DOMAIN <<>> = {} /\ <<>> \in [{} -> Headers]
  OBVIOUS
<1>4. EsHeap(k)
  <2>1. k.ids = h.ids /\ k.hdr = <<>> /\ k.defecto = cual
    BY <1>2
  <2>2. IsFiniteSet(DOMAIN k.hdr) /\ DOMAIN k.hdr = {}
    BY <1>3, <2>1, FS_EmptySet
  <2>3. k = [ids |-> k.ids, hdr |-> k.hdr, defecto |-> k.defecto]
    BY <1>2, <2>1
  <2>. QED
    BY <1>1, <1>3, <2>1, <2>2, <2>3 DEF EsHeap, Fatales
<1>5. ~Servible(k) /\ ~Sano(k)
  BY <1>2 DEF Servible, Sano, Fatales
<1>. QED
  BY <1>2, <1>4, <1>5 DEF Roto, k

\* The block at a becomes a used block of k, with room for size; the rest stay.
Agrega(h, k, a, size) ==
    Sano(k) =>
        /\ Sano(h) /\ a \notin EnUso(h) /\ EnUso(k) = EnUso(h) \union {a}
        /\ size <= Espacio(k, a)
        /\ \A d \in EnUso(h) : Espacio(k, d) = Espacio(h, d)

\* For that it is enough that no other header of h changes.
LEMMA Agregado ==
  ASSUME NEW h, NEW k, NEW a, NEW size, a \in DOMAIN h.hdr, h.hdr[a].libre,
         DOMAIN h.hdr \subseteq DOMAIN k.hdr, ~k.hdr[a].libre, k.hdr[a].next # 0,
         size <= Espacio(k, a), Sano(k) => Sano(h),
         \A d \in DOMAIN h.hdr \ {a} :
            k.hdr[d].libre = h.hdr[d].libre /\ k.hdr[d].next = h.hdr[d].next,
         \A d \in DOMAIN k.hdr \ DOMAIN h.hdr : k.hdr[d].libre
  PROVE  Agrega(h, k, a, size)
<1>1. a \notin EnUso(h)
  BY DEF EnUso
<1>2. ASSUME NEW d  PROVE d \in EnUso(k) <=> d \in EnUso(h) \union {a}
  <2>1. CASE d = a
    BY <2>1 DEF EnUso
  <2>2. CASE d # a /\ d \in DOMAIN h.hdr
    BY <2>2 DEF EnUso
  <2>3. CASE d \notin DOMAIN h.hdr
    BY <2>3 DEF EnUso
  <2>. QED
    BY <2>1, <2>2, <2>3
<1>3. \A d \in EnUso(h) : Espacio(k, d) = Espacio(h, d)
  BY <1>1 DEF EnUso, Espacio
<1>. QED
  BY <1>1, <1>2, <1>3 DEF Agrega

\* The free block obtener_alloc_disponible finds.
LEMMA DisponibleBien ==
  ASSUME NEW h, Encadenado(h, DOMAIN h.hdr), NEW size
  PROVE  Disponible(h, size) \in DOMAIN h.hdr /\ Sirve(h, Disponible(h, size), size)
<1>. DEFINE r == Recorrido(h)
             D == DOMAIN h.hdr
<1>1. EsHeap(h) /\ EnCadena(h.hdr, D) /\ LibresOK(h.hdr, D, Total(h))
  BY DEF Encadenado
<1>2. PICK m \in Nat : Camina(h, D, r, m) /\ m \in DOMAIN r /\ \A i \in DOMAIN r : i \in Nat
  BY <1>1, RecorridoCamina DEF EsHeap
<1>. HIDE DEF r
<1>3. r[m] \in D /\ h.hdr[r[m]].next = 0
  BY <1>2 DEF Camina
<1>4. Sirve(h, r[m], size)
  BY <1>1, <1>3 DEF LibresOK, Sirve
<1>. DEFINE Buenos == {i \in DOMAIN r : Sirve(h, r[i], size)}
             n == Min(Buenos)
<1>5. n \in Buenos /\ \A i \in Buenos : n <= i
  BY <1>2, <1>4, MinimoExiste
<1>. HIDE DEF n
<1>6. n \in DOMAIN r /\ n \in Nat /\ n <= m /\ Sirve(h, r[n], size)
  BY <1>2, <1>4, <1>5
<1>7. n \in 0 .. m /\ 0 .. m \subseteq DOMAIN r
  BY <1>2, <1>6 DEF Camina
<1>8. \A j \in 0 .. n - 1 : ~Sirve(h, r[j], size)
  <2>1. ASSUME NEW j \in 0 .. n - 1, Sirve(h, r[j], size)  PROVE FALSE
    <3>1. j \in 0 .. m /\ ~(n <= j)
      BY <1>2, <1>7
    <3>2. j \in Buenos
      BY <1>7, <2>1, <3>1
    <3>. QED
      BY <1>5, <3>1, <3>2
  <2>. QED
    BY <2>1
<1>. DEFINE P(i) == Sirve(h, r[i], size) /\ \A j \in 0 .. i - 1 : ~Sirve(h, r[j], size)
             u == CHOOSE i \in DOMAIN r : P(i)
<1>9. u \in DOMAIN r /\ P(u)
  BY <1>6, <1>8
<1>10. Disponible(h, size) = r[u]
  BY DEF Disponible, r
<1>. HIDE DEF u
<1>11. u \in Nat /\ ~(m < u)
  <2>1. u \in Nat
    BY <1>2, <1>9
  <2>2. ASSUME m < u  PROVE FALSE
    <3>1. m \in 0 .. u - 1
      BY <1>2, <2>1, <2>2
    <3>. QED
      BY <1>4, <1>9, <3>1
  <2>. QED
    BY <2>1, <2>2
<1>12. u \in 0 .. m
  BY <1>2, <1>11
<1>13. r[u] \in D
  BY <1>2, <1>12 DEF Camina
<1>. QED
  BY <1>9, <1>10, <1>13

\* The first block of a process.
LEMMA PrimeraBien ==
  ASSUME NEW size \in Nat \ {0}, Techo(size + 2 * TamHeader) <= MaxPaginas
  PROVE  /\ Encadenado(Primera(size), DOMAIN Primera(size).hdr) /\ Sano(Primera(size))
         /\ Agrega(SinHeap, Primera(size), 0, size)
<1>. DEFINE k == Primera(size)
             n == TamHeader + size
             t == Techo(size + 2 * TamHeader)
             g == Guardar(Guardar(<<>>, 0, Header(0, n, FALSE)), n, Header(0, 0, TRUE))
<1>1. TamHeader \in Nat /\ TamHeader > 0 /\ n \in Nat /\ n # 0 /\ TamHeader < n
      /\ size + 2 * TamHeader \in Nat /\ size + 2 * TamHeader > 0
  BY TamaniosAssumption
<1>2. t \in Nat /\ t * TamPagina \in Nat /\ size + 2 * TamHeader <= t * TamPagina
  BY <1>1, TechoAlcanza
<1>3. t # 0
  <2>1. ASSUME t = 0  PROVE FALSE
    <3>1. 0 * TamPagina = 0
      BY TamaniosAssumption
    <3>. QED
      BY <1>1, <1>2, <2>1, <3>1
  <2>. QED
    BY <2>1
<1>. HIDE DEF t
<1>4. k = [ids |-> [i \in 1 .. t |-> i - 1], hdr |-> g, defecto |-> "ninguno"]
  BY DEF Primera, t
<1>5. DOMAIN <<>> = {}
  OBVIOUS
<1>6. /\ DOMAIN g = {0, n}
      /\ g[0] = [prev |-> 0, next |-> n, libre |-> FALSE]
      /\ g[n] = [prev |-> 0, next |-> 0, libre |-> TRUE]
  BY <1>1, <1>5 DEF Guardar, Header
<1>. HIDE DEF n
<1>7. g = [d \in {0, n} |-> g[d]]
  BY <1>1, <1>5 DEF Guardar
<1>. HIDE DEF k, g
<1>8. k.ids \in Seq(Nat) /\ Len(k.ids) = t /\ k.ids # <<>>
  <2>1. k.ids = [i \in 1 .. t |-> i - 1] /\ \A i \in 1 .. t : i - 1 \in Nat
    BY <1>2, <1>4
  <2>2. k.ids \in [1 .. t -> Nat]
    BY <2>1
  <2>3. k.ids \in Seq(Nat) /\ Len(k.ids) = t
    BY <1>2, <2>1, <2>2
  <2>. QED
    BY <1>3, <2>3
<1>9. g \in [{0, n} -> Headers] /\ {0, n} \subseteq Nat
  <2>1. g[0] \in Headers /\ g[n] \in Headers
    BY <1>1, <1>6 DEF Headers
  <2>. QED
    BY <1>1, <1>7, <2>1
<1>10. IsFiniteSet({0, n})
  <2>1. IsFiniteSet({0} \union {n}) /\ {0} \union {n} = {0, n}
    BY FS_Singleton, FS_AddElement
  <2>. QED
    BY <2>1
<1>11. EsHeap(k)
  <2>1. k.hdr = g /\ k.defecto = "ninguno" /\ k = [ids |-> k.ids, hdr |-> k.hdr, defecto |-> k.defecto]
    BY <1>4
  <2>2. Len(k.ids) <= MaxPaginas
    BY <1>8 DEF t
  <2>3. DOMAIN k.hdr = {0, n}
    BY <1>6, <2>1
  <2>. QED
    BY <1>8, <1>9, <1>10, <2>1, <2>2, <2>3 DEF EsHeap, Defectos
<1>12. EnCadena(k.hdr, DOMAIN k.hdr)
  <2>1. k.hdr = g /\ DOMAIN k.hdr = {0, n}
    BY <1>4, <1>6
  <2>. QED
    BY <1>1, <1>6, <2>1 DEF EnCadena
<1>13. LibresOK(k.hdr, DOMAIN k.hdr, Total(k))
  <2>1. Total(k) = t * TamPagina /\ n + TamHeader <= t * TamPagina
    BY <1>1, <1>2, <1>8 DEF Total, n
  <2>2. k.hdr = g /\ DOMAIN k.hdr = {0, n}
    BY <1>4, <1>6
  <2>. QED
    BY <1>1, <1>6, <2>1, <2>2 DEF LibresOK
<1>14. Servible(k) /\ Sano(k)
  BY <1>4 DEF Servible, Sano
<1>15. Agrega(SinHeap, k, 0, size)
  <2>1. EnUso(SinHeap) = {} /\ Sano(SinHeap)
    BY <1>5 DEF EnUso, SinHeap, Sano
  <2>2. EnUso(k) = {0}
    BY <1>1, <1>4, <1>6 DEF EnUso
  <2>3. Espacio(k, 0) = size
    BY <1>1, <1>4, <1>6 DEF Espacio, n
  <2>. QED
    BY <2>1, <2>2, <2>3 DEF Agrega
<1>. QED
  BY <1>8, <1>11, <1>12, <1>13, <1>14, <1>15 DEF Encadenado, k

\* Headers at the addresses of D.
Cabs(D) == [D -> Headers]

\* A header with another next, another prev or another libre, in the right place.
ConNext(D, f, a, x, g) ==
    /\ g \in Cabs(D) /\ g[a].next = x
    /\ \A d \in D \ {a} : g[d].next = f[d].next
    /\ \A d \in D : g[d].prev = f[d].prev /\ g[d].libre = f[d].libre

\* Writing next does that.
LEMMA CambiaNext ==
  ASSUME NEW D, NEW f \in Cabs(D), NEW a \in D, NEW x \in Nat
  PROVE  ConNext(D, f, a, x, [f EXCEPT ![a].next = x])
<1>. USE DEF Cabs
<1>1. \A r \in Headers : /\ [r EXCEPT !.next = x] \in Headers /\ [r EXCEPT !.next = x].next = x
                         /\ [r EXCEPT !.next = x].prev = r.prev /\ [r EXCEPT !.next = x].libre = r.libre
  BY DEF Headers
<1>2. [f EXCEPT ![a].next = x] = [d \in D |-> IF d = a THEN [f[a] EXCEPT !.next = x] ELSE f[d]]
  OBVIOUS
<1>3. \A d \in D : f[d] \in Headers
  OBVIOUS
<1>. QED
  BY <1>1, <1>2, <1>3 DEF ConNext

\* g are the headers f with prev of a changed to x.
ConPrev(D, f, a, x, g) ==
    /\ g \in Cabs(D) /\ g[a].prev = x
    /\ \A d \in D \ {a} : g[d].prev = f[d].prev
    /\ \A d \in D : g[d].next = f[d].next /\ g[d].libre = f[d].libre

\* Writing prev does that.
LEMMA CambiaPrev ==
  ASSUME NEW D, NEW f \in Cabs(D), NEW a \in D, NEW x \in Nat
  PROVE  ConPrev(D, f, a, x, [f EXCEPT ![a].prev = x])
<1>. USE DEF Cabs
<1>1. \A r \in Headers : /\ [r EXCEPT !.prev = x] \in Headers /\ [r EXCEPT !.prev = x].prev = x
                         /\ [r EXCEPT !.prev = x].next = r.next /\ [r EXCEPT !.prev = x].libre = r.libre
  BY DEF Headers
<1>2. [f EXCEPT ![a].prev = x] = [d \in D |-> IF d = a THEN [f[a] EXCEPT !.prev = x] ELSE f[d]]
  OBVIOUS
<1>3. \A d \in D : f[d] \in Headers
  OBVIOUS
<1>. QED
  BY <1>1, <1>2, <1>3 DEF ConPrev

\* g are the headers f with the block at a no longer free.
ConOcupado(D, f, a, g) ==
    /\ g \in Cabs(D) /\ ~g[a].libre
    /\ \A d \in D \ {a} : g[d].libre = f[d].libre
    /\ \A d \in D : g[d].next = f[d].next /\ g[d].prev = f[d].prev

\* Writing the flag does that.
LEMMA CambiaOcupado ==
  ASSUME NEW D, NEW f \in Cabs(D), NEW a \in D
  PROVE  ConOcupado(D, f, a, [f EXCEPT ![a].libre = FALSE])
<1>. USE DEF Cabs
<1>1. \A r \in Headers : /\ [r EXCEPT !.libre = FALSE] \in Headers /\ ~[r EXCEPT !.libre = FALSE].libre
                         /\ [r EXCEPT !.libre = FALSE].next = r.next
                         /\ [r EXCEPT !.libre = FALSE].prev = r.prev
  BY DEF Headers
<1>2. [f EXCEPT ![a].libre = FALSE] = [d \in D |-> IF d = a THEN [f[a] EXCEPT !.libre = FALSE] ELSE f[d]]
  OBVIOUS
<1>3. \A d \in D : f[d] \in Headers
  OBVIOUS
<1>. QED
  BY <1>1, <1>2, <1>3 DEF ConOcupado

\* g are the headers f with the block at a free.
ConLibre(D, f, a, g) ==
    /\ g \in Cabs(D) /\ g[a].libre
    /\ \A d \in D \ {a} : g[d].libre = f[d].libre
    /\ \A d \in D : g[d].next = f[d].next /\ g[d].prev = f[d].prev

\* Writing the flag does that.
LEMMA CambiaLibre ==
  ASSUME NEW D, NEW f \in Cabs(D), NEW a \in D
  PROVE  ConLibre(D, f, a, [f EXCEPT ![a].libre = TRUE])
<1>. USE DEF Cabs
<1>1. \A r \in Headers : /\ [r EXCEPT !.libre = TRUE] \in Headers /\ [r EXCEPT !.libre = TRUE].libre
                         /\ [r EXCEPT !.libre = TRUE].next = r.next /\ [r EXCEPT !.libre = TRUE].prev = r.prev
  BY DEF Headers
<1>2. [f EXCEPT ![a].libre = TRUE] = [d \in D |-> IF d = a THEN [f[a] EXCEPT !.libre = TRUE] ELSE f[d]]
  OBVIOUS
<1>3. \A d \in D : f[d] \in Headers
  OBVIOUS
<1>. QED
  BY <1>1, <1>2, <1>3 DEF ConLibre

\* A header more, or another one.
ConHeader(D, f, a, cab, g) ==
    /\ g \in Cabs(D \union {a}) /\ g[a] = cab
    /\ \A d \in D \ {a} : g[d] = f[d]

\* guardar_header does that.
LEMMA GuardarBien ==
  ASSUME NEW D, NEW f \in Cabs(D), NEW a, NEW cab \in Headers
  PROVE  ConHeader(D, f, a, cab, Guardar(f, a, cab))
<1>. USE DEF Cabs
<1>1. DOMAIN f = D
  OBVIOUS
<1>2. Guardar(f, a, cab) = [d \in D \union {a} |-> IF d = a THEN cab ELSE f[d]]
  BY <1>1 DEF Guardar
<1>. QED
  BY <1>2 DEF ConHeader

\* A heap with other headers.
ConHeaders(h, g) == [ids |-> h.ids, hdr |-> g, defecto |-> h.defecto]

\* It is what EXCEPT makes.
LEMMA ConHeadersEs ==
  ASSUME NEW h, EsHeap(h)
  PROVE  \A g : [h EXCEPT !.hdr = g] = ConHeaders(h, g)
<1>1. PICK i, f, d : h = [ids |-> i, hdr |-> f, defecto |-> d]
  BY DEF EsHeap
<1>2. h.ids = i /\ h.defecto = d
  BY <1>1
<1>3. \A g : [h EXCEPT !.hdr = g] = [ids |-> i, hdr |-> g, defecto |-> d]
  BY <1>1
<1>. QED
  BY <1>2, <1>3, Zenon DEF ConHeaders

\* Its pages, its size and its state are those of h.
LEMMA ConHeadersBien ==
  ASSUME NEW h, EsHeap(h), NEW D, NEW g \in Cabs(D), D \subseteq Nat, IsFiniteSet(D)
  PROVE  LET k == ConHeaders(h, g)
         IN  /\ EsHeap(k) /\ k.ids = h.ids /\ k.hdr = g /\ k.defecto = h.defecto /\ DOMAIN k.hdr = D
             /\ (Servible(k) <=> Servible(h)) /\ (Sano(k) <=> Sano(h)) /\ Total(k) = Total(h)
<1>. DEFINE k == ConHeaders(h, g)
<1>1. k.ids = h.ids /\ k.hdr = g /\ k.defecto = h.defecto
  BY DEF ConHeaders
<1>2. k = [ids |-> k.ids, hdr |-> k.hdr, defecto |-> k.defecto]
  BY DEF ConHeaders
<1>. HIDE DEF k
<1>3. DOMAIN k.hdr = D
  BY <1>1 DEF Cabs
<1>4. EsHeap(k)
  BY <1>1, <1>2, <1>3 DEF EsHeap, Cabs
<1>. QED
  BY <1>1, <1>3, <1>4 DEF k, Servible, Sano, Total

\* B.A: the block that serves as it is.
LEMMA ReusarBien ==
  ASSUME NEW h, Encadenado(h, DOMAIN h.hdr), NEW a \in DOMAIN h.hdr, h.hdr[a].libre,
         h.hdr[a].next # 0, NEW size \in Nat, Espacio(h, a) = size
  PROVE  /\ Encadenado(Reusar(h, a), DOMAIN Reusar(h, a).hdr) /\ Agrega(h, Reusar(h, a), a, size)
<1>. DEFINE D == DOMAIN h.hdr
             g == [h.hdr EXCEPT ![a].libre = FALSE]
             k == Reusar(h, a)
<1>1. EsHeap(h) /\ EnCadena(h.hdr, D) /\ LibresOK(h.hdr, D, Total(h)) /\ h.ids # <<>> /\ Servible(h)
  BY DEF Encadenado
<1>2. h.hdr \in Cabs(D) /\ D \subseteq Nat /\ IsFiniteSet(D)
  BY <1>1 DEF EsHeap, Cabs
<1>3. k = [h EXCEPT !.hdr = g]
  BY DEF Reusar, Ocupar
<1>4. k = ConHeaders(h, g)
  BY <1>1, <1>3, ConHeadersEs
<1>. HIDE DEF k, g
<1>5. /\ g \in Cabs(D) /\ ~g[a].libre /\ \A d \in D \ {a} : g[d].libre = h.hdr[d].libre
      /\ \A d \in D : g[d].next = h.hdr[d].next /\ g[d].prev = h.hdr[d].prev
  BY <1>2, CambiaOcupado DEF g, ConOcupado
<1>6. /\ EsHeap(k) /\ k.ids = h.ids /\ k.hdr = g /\ DOMAIN k.hdr = D
      /\ (Servible(k) <=> Servible(h)) /\ (Sano(k) <=> Sano(h)) /\ Total(k) = Total(h)
  BY <1>1, <1>2, <1>4, <1>5, ConHeadersBien
<1>7. EnCadena(g, D)
  <2>1. DOMAIN g = D
    BY <1>5 DEF Cabs
  <2>. QED
    BY <1>1, <1>5, <2>1 DEF EnCadena
<1>8. LibresOK(g, D, Total(k))
  <2>1. \A d \in D : h.hdr[d].next # 0 => h.hdr[d].next \in D
    BY <1>1 DEF EnCadena
  <2>. QED
    BY <1>1, <1>5, <1>6, <2>1 DEF LibresOK
<1>9. Agrega(h, k, a, size)
  <2>1. Espacio(k, a) = size
    BY <1>5, <1>6 DEF Espacio
  <2>. QED
    BY <1>5, <1>6, <2>1, Agregado
<1>. QED
  BY <1>1, <1>6, <1>7, <1>8, <1>9 DEF Encadenado, k

\* The last block with a block and another last header in it, in the pages of k.
UltimoPartido(h, a, nueva) ==
    Guardar([h.hdr EXCEPT ![a].next = nueva, ![a].libre = FALSE], nueva, Header(a, 0, TRUE))

\* With it the heap is a chain and has one used block more.
LEMMA NuevoUltimo ==
  ASSUME NEW h, Encadenado(h, DOMAIN h.hdr), NEW a \in DOMAIN h.hdr, h.hdr[a].next = 0,
         NEW size \in Nat \ {0}, NEW nueva, nueva = a + TamHeader + size,
         NEW ids \in Seq(Nat), ids # <<>>, Len(ids) <= MaxPaginas,
         nueva + TamHeader <= Len(ids) * TamPagina,
         NEW k, k = [ids |-> ids, hdr |-> UltimoPartido(h, a, nueva), defecto |-> h.defecto]
  PROVE  Encadenado(k, DOMAIN k.hdr) /\ Agrega(h, k, a, size)
<1>. DEFINE D == DOMAIN h.hdr
             f == [h.hdr EXCEPT ![a].next = nueva]
             g == [f EXCEPT ![a].libre = FALSE]
<1>1. /\ EsHeap(h) /\ EnCadena(h.hdr, D) /\ LibresOK(h.hdr, D, Total(h)) /\ Servible(h)
      /\ h.hdr \in Cabs(D) /\ D \subseteq Nat /\ IsFiniteSet(D)
  BY DEF Encadenado, EsHeap, Cabs
<1>2. a \in Nat /\ nueva \in Nat /\ a + TamHeader < nueva
  BY <1>1, TamaniosAssumption
<1>3. /\ f \in Cabs(D) /\ f[a].next = nueva /\ \A d \in D \ {a} : f[d].next = h.hdr[d].next
      /\ \A d \in D : f[d].libre = h.hdr[d].libre /\ f[d].prev = h.hdr[d].prev
  <2>1. ConNext(D, h.hdr, a, nueva, f)
    BY <1>1, <1>2, CambiaNext
  <2>. QED
    BY <2>1 DEF ConNext
<1>. HIDE DEF f
<1>4. /\ g \in Cabs(D) /\ ~g[a].libre /\ \A d \in D \ {a} : g[d].libre = f[d].libre
      /\ \A d \in D : g[d].next = f[d].next /\ g[d].prev = f[d].prev
  BY <1>3, CambiaOcupado DEF ConOcupado
<1>5. Header(a, 0, TRUE) \in Headers
  BY <1>2 DEF Header, Headers
<1>6. k.hdr = Guardar(g, nueva, Header(a, 0, TRUE))
  BY DEF UltimoPartido, f
<1>. HIDE DEF g
<1>7. nueva \notin D
  <2>1. SUFFICES ASSUME nueva \in D  PROVE FALSE
    OBVIOUS
  <2>2. a < nueva
    BY <1>2, TamaniosAssumption
  <2>. QED
    BY <1>1, <2>1, <2>2 DEF EnCadena
<1>8. /\ k.hdr \in Cabs(D \union {nueva}) /\ k.hdr[nueva] = Header(a, 0, TRUE)
      /\ \A d \in D : k.hdr[d] = g[d]
  <2>. DEFINE cab == Header(a, 0, TRUE)
  <2>. HIDE DEF cab
  <2>1. cab \in Headers /\ k.hdr = Guardar(g, nueva, cab)
    BY <1>5, <1>6 DEF cab
  <2>2. /\ Guardar(g, nueva, cab) \in Cabs(D \union {nueva}) /\ Guardar(g, nueva, cab)[nueva] = cab
        /\ \A d \in D : Guardar(g, nueva, cab)[d] = g[d]
    <3>1. ConHeader(D, g, nueva, cab, Guardar(g, nueva, cab))
      BY <1>4, <2>1, GuardarBien
    <3>. DEFINE k1 == Guardar(g, nueva, cab)
    <3>. HIDE DEF k1
    <3>2. k1 \in Cabs(D \union {nueva}) /\ k1[nueva] = cab /\ \A d \in D : k1[d] = g[d]
      BY <1>7, <3>1 DEF ConHeader, k1
    <3>. QED
      BY <3>2 DEF k1
  <2>. QED
    BY <2>1, <2>2 DEF cab
<1>9. /\ k.hdr[nueva].next = 0 /\ k.hdr[nueva].prev = a /\ k.hdr[nueva].libre
      /\ k.hdr[a].next = nueva /\ ~k.hdr[a].libre /\ \A d \in D : k.hdr[d].prev = h.hdr[d].prev
      /\ \A d \in D \ {a} : k.hdr[d].next = h.hdr[d].next /\ k.hdr[d].libre = h.hdr[d].libre
  BY <1>3, <1>4, <1>8 DEF Header
<1>10. DOMAIN k.hdr = D \union {nueva}
  BY <1>8 DEF Cabs
<1>11. EnCadena(k.hdr, D \union {nueva})
  <2>. DEFINE gg == k.hdr
  <2>1. Inserta(h, D, a, nueva, gg)
    BY <1>2, <1>9, <1>10 DEF Inserta
  <2>. HIDE DEF gg
  <2>2. EnCadena(gg, D \union {nueva})
    BY <1>1, <2>1, Insertar
  <2>. QED
    BY <2>2 DEF gg
<1>12. EsHeap(k)
  <2>1. IsFiniteSet(D \union {nueva})
    BY <1>1, FS_AddElement
  <2>2. k = [ids |-> k.ids, hdr |-> k.hdr, defecto |-> k.defecto] /\ k.ids = ids /\ k.defecto = h.defecto
    OBVIOUS
  <2>3. h.defecto \in Defectos
    BY <1>1 DEF EsHeap
  <2>. QED
    BY <1>1, <1>2, <1>8, <1>10, <2>1, <2>2, <2>3 DEF EsHeap, Cabs
<1>13. LibresOK(k.hdr, D \union {nueva}, Total(k))
  <2>1. k.ids = ids
    OBVIOUS
  <2>2. nueva + TamHeader <= Total(k)
    BY <2>1 DEF Total
  <2>3. ASSUME NEW d \in D
        PROVE  /\ k.hdr[d].next = 0 => k.hdr[d].libre /\ d + TamHeader <= Total(k)
               /\ k.hdr[d].libre /\ k.hdr[d].next # 0 => ~k.hdr[k.hdr[d].next].libre
    <3>1. CASE d = a
      BY <1>2, <1>9, <3>1, TamaniosAssumption
    <3>2. CASE d # a
      <4>1. k.hdr[d].next = h.hdr[d].next /\ k.hdr[d].libre = h.hdr[d].libre
        BY <1>9, <3>2
      <4>2. d < a /\ h.hdr[d].next # 0
        <5>1. d \in Nat /\ ~(a < d)
          BY <1>1 DEF EnCadena
        <5>2. d < a
          BY <1>2, <3>2, <5>1
        <5>. QED
          BY <1>1, <5>2 DEF EnCadena
      <4>3. h.hdr[d].next \in D /\ (h.hdr[d].libre => ~h.hdr[h.hdr[d].next].libre)
        BY <1>1, <4>2 DEF EnCadena, LibresOK
      <4>. QED
        BY <1>9, <4>1, <4>2, <4>3
    <3>. QED
      BY <3>1, <3>2
  <2>. QED
    BY <1>9, <2>2, <2>3 DEF LibresOK
<1>14. Servible(k) /\ (Sano(k) => Sano(h)) /\ k.ids # <<>>
  BY <1>1 DEF Servible, Sano
<1>15. Agrega(h, k, a, size)
  <2>1. Espacio(k, a) = size
    <3>1. k.hdr[a].next = nueva
      BY <1>9
    <3>. QED
      BY <1>2, <3>1, TamaniosAssumption DEF Espacio
  <2>2. h.hdr[a].libre
    BY <1>1 DEF LibresOK
  <2>3. k.hdr[a].next # 0 /\ ~k.hdr[a].libre /\ size <= Espacio(k, a)
    BY <1>2, <1>9, <2>1, TamaniosAssumption
  <2>. QED
    BY <1>9, <1>10, <1>14, <2>2, <2>3, Agregado
<1>. QED
  BY <1>10, <1>11, <1>12, <1>13, <1>14, <1>15 DEF Encadenado

\* What memalloc does to a heap: the block at a is used, unless the heap breaks.
Alocado(h, k, a, size) ==
    (Roto(k) \/ Encadenado(k, DOMAIN k.hdr)) /\ k.ids # <<>> /\ Agrega(h, k, a, size)

\* A heap that breaks is allowed there.
LEMMA DefectoAlocado ==
  ASSUME NEW h, Encadenado(h, DOMAIN h.hdr), NEW a, NEW size, NEW cual \in Fatales
  PROVE  Alocado(h, Defecto(h, cual), a, size)
<1>1. EsHeap(h) /\ h.ids # <<>>
  BY DEF Encadenado
<1>. QED
  BY <1>1, DefectoRoto DEF Alocado, Agrega

\* B.B: a block that is split; the rest is a free block between it and a used one.
LEMMA PartirBien ==
  ASSUME NEW h, Encadenado(h, DOMAIN h.hdr), NEW a \in DOMAIN h.hdr, NEW size \in Nat \ {0},
         h.hdr[a].next # 0, Espacio(h, a) # size, Sirve(h, a, size)
  PROVE  Alocado(h, Partir(h, a, size), a, size)
<1>. DEFINE D == DOMAIN h.hdr
             nueva == a + TamHeader + size
             sig == h.hdr[a].next
             cab == Header(a, sig, TRUE)
             f1 == Guardar(h.hdr, nueva, cab)
             f2 == [f1 EXCEPT ![sig].prev = nueva]
             f3 == [f2 EXCEPT ![a].next = nueva]
             g == [f3 EXCEPT ![a].libre = FALSE]
             C == D \union {nueva}
             k == ConHeaders(h, g)
<1>1. /\ EsHeap(h) /\ EnCadena(h.hdr, D) /\ LibresOK(h.hdr, D, Total(h)) /\ Servible(h) /\ h.ids # <<>>
      /\ h.hdr \in Cabs(D) /\ D \subseteq Nat /\ IsFiniteSet(D)
  BY DEF Encadenado, EsHeap, Cabs
<1>2. CASE Espacio(h, a) < TamHeader
  <2>1. Partir(h, a, size) = Defecto(h, "desborde") /\ "desborde" \in Fatales
    BY <1>2 DEF Partir, Fatales, Defectos
  <2>. QED
    BY <2>1, DefectoAlocado
<1>3. CASE ~(Espacio(h, a) < TamHeader) /\ Pagina(nueva) # Pagina(a)
  <2>1. Partir(h, a, size) = Defecto(h, "otraPagina") /\ "otraPagina" \in Fatales
    BY <1>3 DEF Partir, Fatales, Defectos
  <2>. QED
    BY <2>1, DefectoAlocado
<1>4. CASE ~(Espacio(h, a) < TamHeader) /\ Pagina(nueva) = Pagina(a)
  <2>1. Partir(h, a, size) = k
    BY <1>1, <1>4, ConHeadersEs DEF Partir
  <2>2. /\ a \in Nat /\ sig \in D /\ sig \in Nat /\ sig # 0 /\ nueva \in Nat
        /\ TamHeader \in Nat /\ TamHeader > 0
        /\ a + TamHeader < nueva
    <3>1. TamHeader \in Nat /\ TamHeader > 0 /\ sig \in Nat /\ sig # 0
      BY <1>1, TamaniosAssumption DEF Cabs, Headers
    <3>2. sig \in D
      BY <1>1 DEF EnCadena
    <3>. QED
      BY <1>1, <3>1, <3>2
  <2>3. h.hdr[a].libre /\ nueva + TamHeader < sig
    BY <1>4, <2>2 DEF Sirve, Sobra, Espacio
  <2>4. nueva \notin D
    <3>1. SUFFICES ASSUME nueva \in D  PROVE FALSE
      OBVIOUS
    <3>. HIDE DEF nueva, D
    <3>2. a < nueva /\ nueva < sig
      BY <2>2, <2>3
    <3>3. sig <= nueva
      BY <1>1, <3>1, <3>2 DEF EnCadena, D
    <3>. QED
      BY <2>2, <3>2, <3>3
  <2>5. /\ f1 \in Cabs(C) /\ f1[nueva].next = sig /\ f1[nueva].prev = a /\ f1[nueva].libre
        /\ \A d \in D : f1[d] = h.hdr[d]
    <3>1. cab \in Headers /\ cab.next = sig /\ cab.prev = a /\ cab.libre
      BY <2>2 DEF Header, Headers
    <3>. HIDE DEF cab, nueva, D
    <3>2. ConHeader(D, h.hdr, nueva, cab, f1)
      BY <1>1, <3>1, GuardarBien
    <3>. QED
      BY <2>4, <3>1, <3>2 DEF ConHeader
  <2>. HIDE DEF cab, f1
  <2>6. ConPrev(C, f1, sig, nueva, f2)
    <3>. HIDE DEF nueva, D
    <3>. QED
      BY <2>2, <2>5, CambiaPrev
  <2>. HIDE DEF f2
  <2>7. ConNext(C, f2, a, nueva, f3)
    <3>1. f2 \in Cabs(C)
      BY <2>6 DEF ConPrev
    <3>. HIDE DEF nueva, C
    <3>. QED
      BY <2>2, <3>1, CambiaNext DEF C
  <2>. HIDE DEF f3
  <2>8. ConOcupado(C, f3, a, g)
    <3>1. f3 \in Cabs(C)
      BY <2>7 DEF ConNext
    <3>. HIDE DEF nueva, C
    <3>. QED
      BY <2>2, <3>1, CambiaOcupado DEF C
  <2>. HIDE DEF g, k, nueva, sig, D
  <2>9. nueva # sig /\ nueva # a /\ a # sig
    BY <2>2, <2>3
  <2>10. /\ g \in Cabs(C) /\ g[a].next = nueva /\ ~g[a].libre /\ g[a].prev = h.hdr[a].prev
         /\ g[nueva].next = sig /\ g[nueva].prev = a /\ g[nueva].libre /\ g[sig].prev = nueva
    BY <2>2, <2>5, <2>6, <2>7, <2>8, <2>9 DEF ConPrev, ConNext, ConOcupado, D
  <2>11. /\ \A d \in D \ {a} : g[d].next = h.hdr[d].next /\ g[d].libre = h.hdr[d].libre
         /\ \A d \in D \ {sig} : g[d].prev = h.hdr[d].prev
    BY <2>4, <2>5, <2>6, <2>7, <2>8 DEF ConPrev, ConNext, ConOcupado
  <2>12. /\ EsHeap(k) /\ k.ids = h.ids /\ k.hdr = g /\ k.defecto = h.defecto /\ DOMAIN k.hdr = C
         /\ (Servible(k) <=> Servible(h)) /\ (Sano(k) <=> Sano(h)) /\ Total(k) = Total(h)
    <3>1. C \subseteq Nat /\ IsFiniteSet(C)
      BY <1>1, <2>2, FS_AddElement DEF D
    <3>. HIDE DEF C
    <3>2. EsHeap(h) /\ g \in Cabs(C)
      BY <1>1, <2>10
    <3>. QED
      BY <3>1, <3>2, ConHeadersBien DEF k
  <2>13. EnCadena(g, C)
    <3>1. Inserta(h, D, a, nueva, g)
      <4>1. C \subseteq DOMAIN g
        BY <2>10 DEF Cabs
      <4>. QED
        BY <2>2, <2>3, <2>10, <2>11, <4>1 DEF Inserta, sig
    <3>2. a \in D
      BY DEF D
    <3>. QED
      BY <1>1, <3>1, <3>2, Insertar DEF D
  <2>14. LibresOK(g, C, Total(k))
    <3>1. ASSUME NEW d \in D
          PROVE  /\ g[d].next = 0 => g[d].libre /\ d + TamHeader <= Total(k)
                 /\ g[d].libre /\ g[d].next # 0 => ~g[g[d].next].libre
      <4>1. CASE d = a
        BY <2>2, <2>10, <4>1
      <4>2. CASE d # a
        <5>1. g[d].next = h.hdr[d].next /\ g[d].libre = h.hdr[d].libre
          BY <2>11, <4>2
        <5>2. h.hdr[d].next = 0 => h.hdr[d].libre /\ d + TamHeader <= Total(h)
          BY <1>1 DEF LibresOK, D
        <5>3. h.hdr[d].libre /\ h.hdr[d].next # 0 => h.hdr[d].next \in D /\ ~h.hdr[h.hdr[d].next].libre
          BY <1>1 DEF LibresOK, EnCadena, D
        <5>4. h.hdr[d].libre /\ h.hdr[d].next # 0 => h.hdr[d].next # a
          BY <2>3, <5>3
        <5>5. h.hdr[d].libre /\ h.hdr[d].next # 0 => ~g[h.hdr[d].next].libre
          BY <2>11, <5>3, <5>4
        <5>. QED
          BY <2>12, <5>1, <5>2, <5>5
      <4>. QED
        BY <4>1, <4>2
    <3>2. ~g[sig].libre
      <4>1. ~h.hdr[sig].libre
        BY <1>1, <2>2, <2>3 DEF LibresOK, sig, D
      <4>. QED
        BY <2>2, <2>9, <2>11, <4>1
    <3>. QED
      BY <2>2, <2>10, <3>1, <3>2 DEF LibresOK
  <2>15. Agrega(h, k, a, size)
    <3>1. Espacio(k, a) = size
      BY <2>2, <2>10, <2>12 DEF Espacio, nueva
    <3>2. \A d \in D \ {a} : k.hdr[d].libre = h.hdr[d].libre /\ k.hdr[d].next = h.hdr[d].next
      BY <2>11, <2>12
    <3>3. k.hdr[a].next # 0 /\ ~k.hdr[a].libre /\ size <= Espacio(k, a) /\ D \subseteq DOMAIN k.hdr
      BY <2>2, <2>10, <2>12, <3>1
    <3>4. \A d \in DOMAIN k.hdr \ D : k.hdr[d].libre
      BY <2>10, <2>12
    <3>. QED
      BY <2>3, <2>12, <3>2, <3>3, <3>4, Agregado DEF D
  <2>. QED
    BY <1>1, <2>1, <2>12, <2>13, <2>14, <2>15 DEF Encadenado, Alocado
<1>. QED
  BY <1>2, <1>3, <1>4

\* The last block, with room in the pages there are.
LEMMA PartirUltimoBien ==
  ASSUME NEW h, Encadenado(h, DOMAIN h.hdr), NEW a \in DOMAIN h.hdr, NEW size \in Nat \ {0},
         h.hdr[a].next = 0, ~HayQueCrecer(h, a, size)
  PROVE  Alocado(h, PartirUltimo(h, a, size), a, size)
<1>. DEFINE nueva == a + TamHeader + size
<1>1. CASE ~GuardaBien(Offset(a) + TamHeader + size)
  <2>1. PartirUltimo(h, a, size) = Defecto(h, "fueraDePagina") /\ "fueraDePagina" \in Fatales
    BY <1>1 DEF PartirUltimo, Fatales, Defectos
  <2>. QED
    BY <2>1, DefectoAlocado
<1>2. CASE GuardaBien(Offset(a) + TamHeader + size)
  <2>1. EsHeap(h) /\ h.ids \in Seq(Nat) /\ Len(h.ids) <= MaxPaginas /\ h.ids # <<>> /\ a \in Nat
    BY DEF Encadenado, EsHeap
  <2>. DEFINE k == ConHeaders(h, UltimoPartido(h, a, nueva))
  <2>2. PartirUltimo(h, a, size) = k
    BY <1>2, <2>1, ConHeadersEs DEF PartirUltimo, UltimoPartido
  <2>3. nueva + TamHeader <= Len(h.ids) * TamPagina
    <3>1. Len(h.ids) * TamPagina \in Nat /\ TamHeader \in Nat
      BY <2>1, TamaniosAssumption, LenProperties
    <3>2. ~(Len(h.ids) * TamPagina - a - 2 * TamHeader <= size)
      BY DEF HayQueCrecer, Total
    <3>. QED
      BY <2>1, <3>1, <3>2
  <2>4. k = [ids |-> h.ids, hdr |-> UltimoPartido(h, a, nueva), defecto |-> h.defecto] /\ k.ids = h.ids
    BY DEF ConHeaders
  <2>. HIDE DEF k
  <2>5. Encadenado(k, DOMAIN k.hdr) /\ Agrega(h, k, a, size)
    BY <2>1, <2>3, <2>4, NuevoUltimo
  <2>. QED
    BY <2>1, <2>2, <2>4, <2>5 DEF Alocado
<1>. QED
  BY <1>1, <1>2

\* The last block, with the pages it lacks.
LEMMA CrecerBien ==
  ASSUME NEW h, Encadenado(h, DOMAIN h.hdr), NEW a \in DOMAIN h.hdr, NEW size \in Nat \ {0},
         h.hdr[a].next = 0, HayQueCrecer(h, a, size),
         Len(h.ids) + PaginasQueFaltan(h, a, size) < MaxPaginas
  PROVE  Alocado(h, Crecer(h, a, size), a, size)
<1>. DEFINE nueva == a + TamHeader + size
             n == PaginasQueFaltan(h, a, size)
             l == Len(h.ids)
             mas == [i \in 1 .. n |-> Last(h.ids) + i]
             ids == h.ids \o mas
<1>1. CASE Pagina(a) # Len(h.ids) - 1
  <2>1. Crecer(h, a, size) = Defecto(h, "offsetNegativo") /\ "offsetNegativo" \in Fatales
    BY <1>1 DEF Crecer, Fatales, Defectos
  <2>. QED
    BY <2>1, DefectoAlocado
<1>2. CASE Pagina(a) = Len(h.ids) - 1
  <2>1. /\ EsHeap(h) /\ h.ids \in Seq(Nat) /\ h.ids # <<>> /\ a \in Nat
        /\ h = [ids |-> h.ids, hdr |-> h.hdr, defecto |-> h.defecto]
        /\ l \in Nat /\ l # 0 /\ l * TamPagina \in Nat /\ TamHeader \in Nat /\ TamPagina \in Nat
    <3>1. EsHeap(h) /\ h.ids # <<>>
      BY DEF Encadenado
    <3>2. l \in Nat /\ l # 0 /\ TamPagina \in Nat
      BY <3>1, LenProperties, EmptySeq, TamaniosAssumption DEF EsHeap
    <3>. QED
      BY <3>1, <3>2, TamaniosAssumption DEF EsHeap
  <2>2. a + 2 * TamHeader <= Total(h) + TamHeader /\ Total(h) = l * TamPagina
    BY <2>1 DEF Encadenado, LibresOK, Total
  <2>3. Total(h) - a - 2 * TamHeader <= size
    BY DEF HayQueCrecer
  <2>4. /\ n \in Nat /\ n * TamPagina \in Nat
        /\ size + 2 * TamHeader - (l * TamPagina - a) <= n * TamPagina
    <3>. DEFINE x == size + 2 * TamHeader - (Total(h) - a)
    <3>1. x \in Nat
      <4>. DEFINE t == Total(h)
      <4>1. a \in Nat /\ size \in Nat /\ TamHeader \in Nat /\ t \in Nat /\ t - a - 2 * TamHeader <= size
        BY <2>1, <2>2, <2>3
      <4>. HIDE DEF t
      <4>2. size + 2 * TamHeader - (t - a) \in Nat
        BY <4>1
      <4>. QED
        BY <4>2 DEF t
    <3>2. n = Techo(x)
      BY DEF PaginasQueFaltan
    <3>. HIDE DEF x
    <3>3. n \in Nat /\ n * TamPagina \in Nat /\ x <= n * TamPagina
      BY <3>1, <3>2, TechoAlcanza
    <3>. QED
      BY <2>2, <3>3 DEF x
  <2>. HIDE DEF n
  <2>5. Last(h.ids) \in Nat
    BY <2>1 DEF Last
  <2>6. mas \in Seq(Nat) /\ Len(mas) = n
    <3>1. mas \in [1 .. n -> Nat]
      BY <2>4, <2>5
    <3>. QED
      BY <2>4, <3>1
  <2>. HIDE DEF mas
  <2>7. ids \in Seq(Nat) /\ Len(ids) = l + n
    <3>1. h.ids \in Seq(Nat)
      BY <2>1
    <3>. QED
      BY <2>6, <3>1, ConcatProperties
  <2>. HIDE DEF ids, l
  <2>8. ids # <<>> /\ Len(ids) <= MaxPaginas
    <3>1. l + n < MaxPaginas
      BY DEF n, l
    <3>2. Len(ids) # 0 /\ Len(ids) <= MaxPaginas
      <4>1. l \in Nat /\ l # 0 /\ n \in Nat /\ MaxPaginas \in Nat
        BY <2>1, <2>4, TamaniosAssumption
      <4>. QED
        BY <2>7, <3>1, <4>1
    <3>. QED
      BY <2>7, <3>2, EmptySeq
  <2>9. Len(ids) * TamPagina = l * TamPagina + n * TamPagina
    BY <2>1, <2>4, <2>7, Z3
  <2>10. nueva + TamHeader <= Len(ids) * TamPagina
    <3>. DEFINE x == l * TamPagina
                y == n * TamPagina
                z == Len(ids) * TamPagina
    <3>1. x \in Nat /\ y \in Nat /\ z = x + y /\ size + 2 * TamHeader - (x - a) <= y /\ TamHeader \in Nat
      BY <2>1, <2>4, <2>9
    <3>. HIDE DEF x, y, z
    <3>2. a \in Nat /\ size \in Nat /\ nueva = a + TamHeader + size
      BY <2>1
    <3>3. nueva + TamHeader <= z
      BY <3>1, <3>2
    <3>. QED
      BY <3>3 DEF z
  <2>. DEFINE k == [ids |-> ids, hdr |-> UltimoPartido(h, a, nueva), defecto |-> h.defecto]
  <2>11. Crecer(h, a, size) = k
    <3>1. Crecer(h, a, size) = [h EXCEPT !.ids = @ \o mas, !.hdr = UltimoPartido(h, a, nueva)]
      BY <1>2 DEF Crecer, UltimoPartido, n, mas
    <3>2. [h EXCEPT !.ids = ids, !.hdr = UltimoPartido(h, a, nueva)] = k
      <4>1. PICK i, f, d : h = [ids |-> i, hdr |-> f, defecto |-> d]
        BY <2>1
      <4>2. h.defecto = d
        BY <4>1
      <4>3. \A v : [h EXCEPT !.ids = v] = [ids |-> v, hdr |-> f, defecto |-> d]
        BY <4>1
      <4>4. \A v, w : [[ids |-> v, hdr |-> f, defecto |-> d] EXCEPT !.hdr = w]
                        = [ids |-> v, hdr |-> w, defecto |-> d]
        OBVIOUS
      <4>5. [h EXCEPT !.ids = ids, !.hdr = UltimoPartido(h, a, nueva)]
              = [[h EXCEPT !.ids = ids] EXCEPT !.hdr = UltimoPartido(h, a, nueva)]
        OBVIOUS
      <4>. QED
        BY <4>2, <4>3, <4>4, <4>5, Zenon
    <3>. QED
      BY <3>1, <3>2 DEF ids
  <2>12. k.ids = ids
    OBVIOUS
  <2>13. nueva = a + TamHeader + size
    OBVIOUS
  <2>. HIDE DEF k, nueva
  <2>14. Encadenado(k, DOMAIN k.hdr) /\ Agrega(h, k, a, size)
    BY <2>7, <2>8, <2>10, <2>13, NuevoUltimo DEF k
  <2>. QED
    BY <2>8, <2>11, <2>12, <2>14 DEF Alocado
<1>. QED
  BY <1>1, <1>2

\* memalloc, when it is not refused: the block is used, after its header, and the address is
\* in the pages a process may have.
LEMMA AlocarBien ==
  ASSUME NEW h, HeapOK(h), Servible(h), NEW size \in Nat \ {0}, ~Negado(h, size)
  PROVE  LET r == Alocar(h, size)
         IN  \E a \in Nat : /\ r.dir = a + TamHeader /\ r.dir <= TamPagina * MaxPaginas
                            /\ HeapOK(r.heap) /\ r.heap.ids # <<>>
                            /\ Agrega(h, r.heap, a, size)
<1>. DEFINE r == Alocar(h, size)
<1>1. CASE h.ids = <<>>
  <2>1. h = SinHeap
    BY <1>1 DEF HeapOK, Vacio, Roto, Encadenado
  <2>2. r = [heap |-> Primera(size), dir |-> TamHeader]
    BY <1>1 DEF Alocar
  <2>3. Techo(size + 2 * TamHeader) <= MaxPaginas
    <3>1. Techo(size + 2 * TamHeader) \in Nat /\ MaxPaginas \in Nat
      BY TechoAlcanza, TamaniosAssumption
    <3>. QED
      BY <1>1, <3>1 DEF Negado
  <2>4. /\ Encadenado(Primera(size), DOMAIN Primera(size).hdr)
        /\ Agrega(SinHeap, Primera(size), 0, size)
    BY <2>3, PrimeraBien
  <2>5. TamHeader <= TamPagina * MaxPaginas
    <3>1. Techo(size + 2 * TamHeader) * TamPagina <= MaxPaginas * TamPagina
      BY <2>3, TechoAlcanza, TamaniosAssumption, MasPaginas
    <3>2. /\ size + 2 * TamHeader <= Techo(size + 2 * TamHeader) * TamPagina
          /\ Techo(size + 2 * TamHeader) * TamPagina \in Nat
      BY TechoAlcanza, TamaniosAssumption
    <3>3. MaxPaginas * TamPagina \in Nat /\ MaxPaginas * TamPagina = TamPagina * MaxPaginas
      BY TamaniosAssumption
    <3>. QED
      BY <3>1, <3>2, <3>3, TamaniosAssumption
  <2>6. r.heap = Primera(size) /\ r.dir = 0 + TamHeader
    BY <2>2, TamaniosAssumption
  <2>. QED
    BY <2>1, <2>4, <2>5, <2>6, TamaniosAssumption DEF HeapOK, Encadenado
<1>2. CASE h.ids # <<>>
  <2>1. Encadenado(h, DOMAIN h.hdr)
    BY <1>2 DEF HeapOK, Vacio, Roto, SinHeap
  <2>. DEFINE a == Disponible(h, size)
              k == IF HayQueCrecer(h, a, size) THEN Crecer(h, a, size)
                   ELSE IF h.hdr[a].next = 0 THEN PartirUltimo(h, a, size)
                   ELSE IF Espacio(h, a) = size THEN Reusar(h, a)
                   ELSE Partir(h, a, size)
  <2>2. r = [heap |-> k, dir |-> a + TamHeader]
    BY <1>2 DEF Alocar
  <2>3. a \in DOMAIN h.hdr /\ Sirve(h, a, size)
    BY <2>1, DisponibleBien
  <2>4. ~(HayQueCrecer(h, a, size) /\ Len(h.ids) + PaginasQueFaltan(h, a, size) >= MaxPaginas)
    BY <1>2 DEF Negado
  <2>. HIDE DEF a
  <2>5. Alocado(h, k, a, size)
    <3>1. CASE HayQueCrecer(h, a, size)
      <4>1. h.hdr[a].next = 0
        BY <3>1 DEF HayQueCrecer
      <4>2. Len(h.ids) + PaginasQueFaltan(h, a, size) < MaxPaginas
        <5>1. Len(h.ids) + PaginasQueFaltan(h, a, size) \in Int /\ MaxPaginas \in Int
          <6>1. Len(h.ids) \in Nat /\ a \in Nat
            BY <2>1, <2>3, LenProperties DEF Encadenado, EsHeap
          <6>2. TamPagina \in Nat /\ TamPagina > 0 /\ TamHeader \in Nat /\ MaxPaginas \in Nat
            BY TamaniosAssumption
          <6>3. size + 2 * TamHeader - (Total(h) - a) + TamPagina - 1 \in Int
            BY <6>1, <6>2 DEF Total
          <6>4. PaginasQueFaltan(h, a, size) \in Int
            BY <6>2, <6>3, Z3 DEF PaginasQueFaltan, Techo
          <6>. QED
            BY <6>1, <6>2, <6>4
        <5>. QED
          BY <2>4, <3>1, <5>1
      <4>. QED
        BY <2>1, <2>3, <3>1, <4>1, <4>2, CrecerBien
    <3>2. CASE ~HayQueCrecer(h, a, size) /\ h.hdr[a].next = 0
      BY <2>1, <2>3, <3>2, PartirUltimoBien
    <3>3. CASE ~HayQueCrecer(h, a, size) /\ h.hdr[a].next # 0 /\ Espacio(h, a) = size
      <4>1. h.hdr[a].libre
        BY <2>3 DEF Sirve
      <4>2. Encadenado(Reusar(h, a), DOMAIN Reusar(h, a).hdr) /\ Agrega(h, Reusar(h, a), a, size)
        BY <2>1, <2>3, <3>3, <4>1, ReusarBien
      <4>3. k = Reusar(h, a) /\ k.ids # <<>>
        BY <3>3, <4>2 DEF Encadenado
      <4>. QED
        BY <4>2, <4>3 DEF Alocado
    <3>4. CASE ~HayQueCrecer(h, a, size) /\ h.hdr[a].next # 0 /\ Espacio(h, a) # size
      BY <2>1, <2>3, <3>4, PartirBien
    <3>. QED
      BY <3>1, <3>2, <3>3, <3>4
  <2>6. a \in Nat /\ a + TamHeader <= TamPagina * MaxPaginas
    <3>1. /\ EsHeap(h) /\ Len(h.ids) \in Nat /\ Len(h.ids) <= MaxPaginas /\ a \in Nat
          /\ LibresOK(h.hdr, DOMAIN h.hdr, Total(h)) /\ EnCadena(h.hdr, DOMAIN h.hdr)
      BY <2>1, <2>3, LenProperties DEF Encadenado, EsHeap
    <3>2. Len(h.ids) * TamPagina \in Nat /\ Len(h.ids) * TamPagina <= MaxPaginas * TamPagina
          /\ MaxPaginas * TamPagina \in Nat /\ MaxPaginas * TamPagina = TamPagina * MaxPaginas
      BY <3>1, MasPaginas, TamaniosAssumption
    <3>3. PICK m \in Nat : Camina(h, DOMAIN h.hdr, Recorrido(h), m)
      BY <3>1, RecorridoCamina DEF EsHeap
    <3>. DEFINE u == Recorrido(h)[m]
    <3>4. u \in DOMAIN h.hdr /\ h.hdr[u].next = 0
      BY <3>3 DEF Camina
    <3>. HIDE DEF u
    <3>5. u \in Nat /\ ~(u < a) /\ u + TamHeader <= Total(h)
      BY <2>3, <3>1, <3>4 DEF EnCadena, LibresOK, EsHeap
    <3>. QED
      BY <3>1, <3>2, <3>5, TamaniosAssumption DEF Total
  <2>7. r.heap = k /\ r.dir = a + TamHeader
    BY <2>2
  <2>. QED
    BY <2>5, <2>6, <2>7 DEF Alocado, HeapOK
<1>. QED
  BY <1>1, <1>2

-----------------------------------------------------------------------------
\* memfree.

\* Every header of the chain is inside the pages.
LEMMA BajoTope ==
  ASSUME NEW h, NEW C, Encadenado(h, C), NEW a \in C
  PROVE  a \in Nat /\ a + TamHeader <= Total(h) /\ Total(h) \in Nat /\ Len(h.ids) \in Nat
<1>1. /\ EsHeap(h) /\ Len(h.ids) \in Nat /\ a \in Nat /\ h.ids \in Seq(Nat)
      /\ LibresOK(h.hdr, C, Total(h)) /\ EnCadena(h.hdr, C)
  BY LenProperties DEF Encadenado, EsHeap, EnCadena
<1>2. PICK m \in Nat : Camina(h, C, Recorrido(h), m)
  BY <1>1, RecorridoCamina DEF EsHeap
<1>. DEFINE u == Recorrido(h)[m]
<1>3. u \in C /\ h.hdr[u].next = 0
  BY <1>2 DEF Camina
<1>. HIDE DEF u
<1>4. u \in Nat /\ ~(u < a) /\ u + TamHeader <= Total(h)
  BY <1>1, <1>3 DEF EnCadena, LibresOK, EsHeap
<1>5. Total(h) \in Nat /\ TamHeader \in Nat
  BY <1>1, TamaniosAssumption DEF Total
<1>. QED
  BY <1>1, <1>4, <1>5

\* Addresses out of page p keep their order when it is taken out.
LEMMA BajarOrdena ==
  ASSUME NEW p \in Nat \ {0}, NEW x \in Nat
  PROVE  /\ Bajar(x, p) \in Nat /\ (Bajar(x, p) = 0 <=> x = 0)
         /\ \A y \in Nat : Pagina(x) # p /\ Pagina(y) # p /\ x < y => Bajar(x, p) < Bajar(y, p)
<1>. DEFINE S == TamPagina
<1>1. S \in Nat /\ S > 0 /\ \A d \in Nat : Pagina(d) \in Nat
  BY DivideBien
<1>2. ASSUME NEW d \in Nat, Pagina(d) > p
      PROVE  d - S \in Nat /\ d - S # 0 /\ Bajar(d, p) = d - S
  <2>1. Pagina(d) >= 1 /\ Pagina(d) - 1 >= 1
    BY <1>1, <1>2
  <2>2. d - S \in Nat /\ Pagina(d - S) = Pagina(d) - 1
    BY <2>1, PaginasOrdenan
  <2>3. Pagina(0) = 0
    BY <1>1, DivideBien
  <2>. QED
    BY <1>2, <2>1, <2>2, <2>3 DEF Bajar
<1>3. ASSUME NEW d \in Nat, ~(Pagina(d) > p)  PROVE Bajar(d, p) = d
  BY <1>3 DEF Bajar
<1>4. Pagina(0) = 0
  BY <1>1, DivideBien
<1>5. Bajar(x, p) \in Nat /\ (Bajar(x, p) = 0 <=> x = 0)
  <2>1. CASE Pagina(x) > p
    BY <1>2, <1>4, <2>1
  <2>2. CASE ~(Pagina(x) > p)
    BY <1>3, <2>2
  <2>. QED
    BY <2>1, <2>2
<1>6. ASSUME NEW y \in Nat, Pagina(x) # p, Pagina(y) # p, x < y
      PROVE  Bajar(x, p) < Bajar(y, p)
  <2>1. Pagina(x) <= Pagina(y) /\ Pagina(x) \in Nat /\ Pagina(y) \in Nat
    BY <1>1, <1>6, PaginasOrdenan
  <2>2. CASE Pagina(x) > p
    <3>1. Pagina(y) > p
      BY <2>1, <2>2
    <3>2. Bajar(x, p) = x - S /\ Bajar(y, p) = y - S
      BY <1>2, <2>2, <3>1
    <3>. HIDE DEF S
    <3>. QED
      BY <1>1, <1>6, <3>2
  <2>3. CASE ~(Pagina(x) > p) /\ ~(Pagina(y) > p)
    BY <1>3, <1>6, <2>3
  <2>4. CASE ~(Pagina(x) > p) /\ Pagina(y) > p
    <3>1. Pagina(x) + 2 <= Pagina(y)
      BY <1>6, <2>1, <2>4
    <3>2. x < y - S
      BY <3>1, PaginasOrdenan
    <3>. QED
      BY <1>2, <1>3, <2>4, <3>2
  <2>. QED
    BY <2>2, <2>3, <2>4
<1>. QED
  BY <1>5, <1>6

\* A page inside the free block at a is taken out: what follows moves down.
LEMMA QuitarPaginaBien ==
  ASSUME NEW h, NEW C, Encadenado(h, C), NEW a \in C, NEW sig, sig = h.hdr[a].next, sig # 0,
         NEW p \in Nat \ {0}, Pagina(a + TamHeader) < p, Pagina(sig) = p + 1
  PROVE  \E E : Encadenado(QuitarPagina(h, p), E)
<1>. DEFINE D == DOMAIN h.hdr
             B(d) == Bajar(d, p)
             F == {d \in D : Pagina(d) # p}
             DD == {B(e) : e \in F}
             E == {B(e) : e \in C}
             Sube(d) == CHOOSE e \in F : B(e) = d
             Cab(e) == [h.hdr[e] EXCEPT !.prev = IF e = 0 THEN @ ELSE B(@), !.next = B(@)]
             g == [d \in DD |-> Cab(Sube(d))]
             ids == RemoveAt(h.ids, p + 1)
             k == [ids |-> ids, hdr |-> g, defecto |-> "movido"]
<1>1. QuitarPagina(h, p) = k
  BY DEF QuitarPagina
<1>2. /\ EsHeap(h) /\ EnCadena(h.hdr, C) /\ LibresOK(h.hdr, C, Total(h)) /\ D \subseteq Nat
      /\ h.hdr \in [D -> Headers] /\ C \subseteq D /\ h.ids \in Seq(Nat) /\ Len(h.ids) <= MaxPaginas
      /\ IsFiniteSet(D)
  BY DEF Encadenado, EsHeap, EnCadena
<1>3. /\ TamHeader \in Nat /\ TamHeader > 0 /\ TamPagina \in Nat /\ TamPagina > 0
      /\ \A d \in Nat : Pagina(d) \in Nat
  BY DivideBien
<1>4. /\ \A d \in Nat : B(d) \in Nat /\ (B(d) = 0 <=> d = 0)
      /\ \A x, y \in Nat : Pagina(x) # p /\ Pagina(y) # p /\ x < y => B(x) < B(y)
  BY BajarOrdena
<1>. HIDE DEF B
<1>5. sig \in C /\ a + TamHeader < sig /\ a \in Nat /\ sig \in Nat
  BY <1>2 DEF EnCadena
<1>6. ASSUME NEW d \in C
      PROVE  /\ d \in Nat /\ Pagina(d) # p
             /\ d <= a => Pagina(d) < p /\ B(d) = d
             /\ ~(d <= a) => sig <= d /\ Pagina(d) > p /\ B(d) = d - TamPagina
  <2>1. d \in Nat
    BY <1>2
  <2>2. CASE d <= a
    <3>1. d <= a + TamHeader /\ a + TamHeader \in Nat
      BY <1>3, <1>5, <2>1, <2>2
    <3>2. Pagina(d) <= Pagina(a + TamHeader)
      BY <2>1, <3>1, PaginasOrdenan
    <3>3. Pagina(d) < p /\ ~(Pagina(d) > p)
      BY <1>3, <2>1, <3>1, <3>2
    <3>. QED
      BY <2>1, <2>2, <3>3 DEF B, Bajar
  <2>3. CASE ~(d <= a)
    <3>1. sig <= d
      BY <1>2, <1>5, <2>1, <2>3 DEF EnCadena
    <3>2. Pagina(sig) <= Pagina(d)
      BY <1>5, <2>1, <3>1, PaginasOrdenan
    <3>3. Pagina(d) > p
      BY <1>3, <2>1, <3>2
    <3>. QED
      BY <2>1, <2>3, <3>1, <3>3 DEF B, Bajar
  <2>. QED
    BY <2>2, <2>3
<1>7. C \subseteq F /\ F \subseteq Nat /\ F \subseteq D
  BY <1>2, <1>6
<1>8. ASSUME NEW e \in F  PROVE Sube(B(e)) = e
  <2>1. Sube(B(e)) \in F /\ B(Sube(B(e))) = B(e)
    BY <1>8
  <2>. DEFINE x == Sube(B(e))
  <2>. HIDE DEF Sube
  <2>2. x \in Nat /\ e \in Nat /\ Pagina(x) # p /\ Pagina(e) # p /\ B(x) \in Nat
    BY <1>4, <1>7, <2>1
  <2>3. ~(x < e) /\ ~(e < x)
    BY <1>4, <2>1, <2>2
  <2>. QED
    BY <2>2, <2>3
<1>9. ASSUME NEW e \in F
       PROVE  /\ Cab(e) \in Headers /\ Cab(e).next = B(h.hdr[e].next) /\ Cab(e).libre = h.hdr[e].libre
              /\ e # 0 => Cab(e).prev = B(h.hdr[e].prev)
  <2>1. h.hdr[e] \in Headers /\ h.hdr[e].prev \in Nat /\ h.hdr[e].next \in Nat
    BY <1>2, <1>7 DEF Headers
  <2>. DEFINE x == IF e = 0 THEN h.hdr[e].prev ELSE B(h.hdr[e].prev)
              y == B(h.hdr[e].next)
  <2>2. x \in Nat /\ y \in Nat
    BY <1>4, <2>1
  <2>3. Cab(e) = [h.hdr[e] EXCEPT !.prev = x, !.next = y]
    OBVIOUS
  <2>. DEFINE r == h.hdr[e]
              s == [r EXCEPT !.prev = x, !.next = y]
  <2>. HIDE DEF x, y, r
  <2>4. s \in Headers /\ s.prev = x /\ s.next = y /\ s.libre = r.libre
    <3>1. r \in Headers
      BY <2>1 DEF r
    <3>. QED
      BY <2>2, <3>1 DEF Headers
  <2>. HIDE DEF Cab, s
  <2>5. Cab(e) = s
    BY <2>3 DEF s, r
  <2>. QED
    BY <2>4, <2>5 DEF x, y, r
<1>. HIDE DEF Cab, Sube
<1>10. /\ DOMAIN g = DD
       /\ \A e \in F : B(e) \in DD /\ g[B(e)] = Cab(e)
  BY <1>8
<1>11. g \in [DD -> Headers] /\ DD \subseteq Nat /\ IsFiniteSet(DD)
  <2>1. \A d \in DD : \E e \in F : d = B(e)
    OBVIOUS
  <2>2. \A d \in DD : d \in Nat /\ g[d] \in Headers
    BY <1>4, <1>7, <1>9, <1>10, <2>1
  <2>3. g \in [DD -> Headers]
    BY <2>2
  <2>4. IsFiniteSet(F)
    BY <1>2, <1>7, FS_Subset
  <2>5. IsFiniteSet(DD)
    <3>. DEFINE f == [e \in F |-> B(e)]
    <3>1. f \in Surjection(F, DD)
      BY DEF Surjection
    <3>. HIDE DEF f, F, DD
    <3>. QED
      BY <2>4, <3>1, FS_Surjection
  <2>. QED
    BY <2>2, <2>3, <2>5
<1>. HIDE DEF g, DD
<1>12. ASSUME NEW d \in C
       PROVE  /\ B(d) \in DD /\ g[B(d)].next = B(h.hdr[d].next) /\ (g[B(d)].next = 0 <=> h.hdr[d].next = 0)
              /\ g[B(d)].libre = h.hdr[d].libre /\ (d # 0 => g[B(d)].prev = B(h.hdr[d].prev))
  <2>1. h.hdr[d].next \in Nat /\ d \in F
    BY <1>2, <1>7 DEF Headers
  <2>. QED
    BY <1>4, <1>9, <1>10, <2>1
<1>13. EnCadena(g, E)
  <2>1. 0 \in E /\ E \subseteq DD
    <3>1. 0 \in C /\ B(0) = 0
      BY <1>2, <1>4 DEF EnCadena
    <3>. QED
      BY <1>12, <3>1
  <2>2. ASSUME NEW d \in C, h.hdr[d].next # 0
        PROVE  B(h.hdr[d].next) \in E /\ B(d) + TamHeader < B(h.hdr[d].next)
               /\ g[B(h.hdr[d].next)].prev = B(d)
    <3>. DEFINE e == h.hdr[d].next
    <3>1. e \in C /\ e # 0 /\ d + TamHeader < e /\ h.hdr[e].prev = d /\ d \in Nat /\ e \in Nat
      BY <1>2, <2>2 DEF EnCadena
    <3>2. B(d) + TamHeader < B(e)
      <4>1. CASE d <= a /\ e <= a
        BY <1>6, <3>1, <4>1
      <4>2. CASE ~(d <= a)
        <5>1. ~(e <= a)
          BY <1>3, <1>5, <3>1, <4>2
        <5>2. B(d) = d - TamPagina /\ B(e) = e - TamPagina
          BY <1>6, <3>1, <4>2, <5>1
        <5>. QED
          BY <1>3, <3>1, <5>2
      <4>3. CASE d <= a /\ ~(e <= a)
        <5>1. d = a
          <6>1. ASSUME d # a  PROVE FALSE
            <7>1. d < a
              BY <1>5, <3>1, <4>3, <6>1
            <7>2. e <= a
              BY <1>2, <7>1 DEF EnCadena
            <7>. QED
              BY <4>3, <7>2
          <6>. QED
            BY <6>1
        <5>2. Pagina(a + TamHeader) + 2 <= Pagina(sig) /\ a + TamHeader \in Nat
          BY <1>3, <1>5
        <5>3. a + TamHeader < sig - TamPagina
          BY <1>5, <5>2, PaginasOrdenan
        <5>4. B(d) = a /\ B(e) = sig - TamPagina
          BY <1>6, <3>1, <4>3, <5>1
        <5>. QED
          BY <5>3, <5>4
      <4>. QED
        BY <4>1, <4>2, <4>3
    <3>. HIDE DEF e
    <3>. QED
      BY <1>12, <3>1, <3>2 DEF e
  <2>3. ASSUME NEW d \in C, NEW e \in C, B(d) < B(e)
        PROVE  h.hdr[d].next # 0 /\ B(h.hdr[d].next) <= B(e)
    <3>1. d \in Nat /\ e \in Nat /\ Pagina(d) # p /\ Pagina(e) # p /\ B(d) \in Nat /\ B(e) \in Nat
      BY <1>4, <1>6
    <3>2. d < e
      <4>1. ~(e < d) /\ d # e
        BY <1>4, <2>3, <3>1
      <4>. QED
        BY <3>1, <4>1
    <3>. DEFINE n == h.hdr[d].next
    <3>3. n # 0 /\ n <= e /\ n \in C
      BY <1>2, <3>2 DEF EnCadena
    <3>. HIDE DEF n
    <3>4. n \in Nat /\ Pagina(n) # p /\ B(n) \in Nat
      BY <1>4, <1>6, <3>3
    <3>5. B(n) <= B(e)
      <4>1. CASE n = e
        BY <3>1, <4>1
      <4>2. CASE n # e
        BY <1>4, <3>1, <3>3, <3>4, <4>2
      <4>. QED
        BY <4>1, <4>2
    <3>. QED
      BY <3>3, <3>5 DEF n
  <2>4. \A x \in E : \E d \in C : x = B(d)
    OBVIOUS
  <2>. HIDE DEF E
  <2>5. \A x \in E : g[x].next # 0 =>
            g[x].next \in E /\ x + TamHeader < g[x].next /\ g[g[x].next].prev = x
    BY <1>12, <2>2, <2>4
  <2>6. \A x, y \in E : x < y => g[x].next # 0 /\ g[x].next <= y
    BY <1>12, <2>3, <2>4
  <2>. QED
    BY <1>10, <2>1, <2>5, <2>6 DEF EnCadena
<1>14. p + 1 < Len(h.ids) /\ Len(h.ids) \in Nat /\ Total(h) \in Nat
  <2>1. sig + TamHeader <= Total(h) /\ Total(h) \in Nat /\ Len(h.ids) \in Nat
    BY <1>5, BajoTope
  <2>2. sig < Len(h.ids) * TamPagina
    <3>. DEFINE x == Len(h.ids) * TamPagina
    <3>1. x \in Nat /\ sig + TamHeader <= x
      BY <2>1 DEF Total
    <3>. HIDE DEF x
    <3>2. sig < x
      BY <1>3, <1>5, <3>1
    <3>. QED
      BY <3>2 DEF x
  <2>3. Pagina(sig) < Len(h.ids)
    BY <1>5, <2>1, <2>2, DentroDePaginas
  <2>. QED
    BY <2>1, <2>3
<1>15. ids \in Seq(Nat) /\ Len(ids) = Len(h.ids) - 1
  <2>1. p + 1 \in 1 .. Len(h.ids) /\ h.ids \in Seq(Nat)
    BY <1>2, <1>14
  <2>2. ids \in Seq(Nat) /\ SinEl(p + 1, h.ids, ids)
    BY <2>1, ContarRemoveAt
  <2>. HIDE DEF ids
  <2>. QED
    BY <2>2 DEF SinEl
<1>. HIDE DEF ids
<1>16. Total(k) + TamPagina = Total(h)
  <2>1. Len(k.ids) = Len(h.ids) - 1
    BY <1>15
  <2>. HIDE DEF k
  <2>. QED
    BY <1>3, <1>14, <2>1, Z3 DEF Total
<1>17. LibresOK(g, E, Total(k))
  <2>1. ASSUME NEW d \in C
        PROVE  /\ h.hdr[d].next = 0 => h.hdr[d].libre /\ B(d) + TamHeader <= Total(k)
               /\ h.hdr[d].libre /\ h.hdr[d].next # 0 => ~g[B(h.hdr[d].next)].libre
    <3>1. ASSUME h.hdr[d].next = 0  PROVE B(d) + TamHeader <= Total(k)
      <4>1. ~(d <= a)
        BY <1>2, <1>5, <3>1 DEF EnCadena
      <4>2. B(d) = d - TamPagina /\ d \in Nat
        BY <1>6, <4>1
      <4>3. d + TamHeader <= Total(h)
        BY <1>2, <3>1 DEF LibresOK
      <4>4. B(d) \in Nat
        BY <1>4, <4>2
      <4>. HIDE DEF k
      <4>5. Total(k) \in Nat
        <5>. DEFINE n == Len(k.ids)
        <5>1. n \in Nat /\ n <= n
          BY <1>14, <1>15 DEF k
        <5>. HIDE DEF n
        <5>2. n * TamPagina \in Nat
          BY <5>1, MasPaginas
        <5>. QED
          BY <5>2 DEF Total, n
      <4>. QED
        <5>. DEFINE x == Total(h)
                    y == Total(k)
        <5>1. x \in Nat /\ y + TamPagina = x /\ d + TamHeader <= x /\ y \in Nat
          BY <1>14, <1>16, <4>3, <4>5
        <5>. HIDE DEF x, y
        <5>2. B(d) + TamHeader <= y
          BY <1>3, <4>2, <5>1
        <5>. QED
          BY <5>2 DEF y
    <3>2. ASSUME h.hdr[d].libre, h.hdr[d].next # 0  PROVE ~g[B(h.hdr[d].next)].libre
      <4>1. h.hdr[d].next \in C /\ ~h.hdr[h.hdr[d].next].libre
        BY <1>2, <3>2 DEF EnCadena, LibresOK
      <4>. QED
        BY <1>12, <4>1
    <3>. QED
      BY <1>2, <3>1, <3>2 DEF LibresOK
  <2>2. \A x \in E : \E d \in C : x = B(d)
    OBVIOUS
  <2>. HIDE DEF E, k
  <2>. QED
    BY <1>12, <2>1, <2>2 DEF LibresOK
<1>18. EsHeap(k) /\ k.ids # <<>> /\ Servible(k) /\ k.hdr = g
  <2>1. /\ k = [ids |-> k.ids, hdr |-> k.hdr, defecto |-> k.defecto]
        /\ k.ids = ids /\ k.hdr = g /\ k.defecto = "movido"
    OBVIOUS
  <2>. HIDE DEF k
  <2>2. Len(ids) <= MaxPaginas /\ Len(ids) # 0
    <3>. DEFINE x == Len(h.ids)
                y == Len(ids)
    <3>1. x <= MaxPaginas /\ MaxPaginas \in Nat
      BY <1>2, TamaniosAssumption
    <3>2. p + 1 < x /\ x \in Nat /\ y = x - 1
      BY <1>14, <1>15
    <3>. HIDE DEF x, y
    <3>3. y <= MaxPaginas /\ y # 0
      BY <3>1, <3>2
    <3>. QED
      BY <3>3 DEF y
  <2>3. DOMAIN k.hdr = DD
    BY <1>10, <2>1
  <2>. QED
    BY <1>11, <1>15, <2>1, <2>2, <2>3, EmptySeq DEF EsHeap, Servible, Defectos
<1>19. Encadenado(k, E)
  BY <1>13, <1>17, <1>18 DEF Encadenado
<1>. QED
  BY <1>1, <1>19

\* Unless the heap breaks, it keeps a chain; and while none of its addresses changes, that one.
Devuelve(h, C, k) ==
    \/ Roto(k)
    \/ \E E : Encadenado(k, E) /\ (Sano(k) => Sano(h) /\ E = C /\ k.hdr = h.hdr)

\* The pages of the free block at a are given back.
LEMMA LiberarPaginasBien ==
  ASSUME NEW h, NEW C, Encadenado(h, C), NEW a \in C
  PROVE  Devuelve(h, C, LiberarPaginas(h, a + TamHeader, h.hdr[a].next))
<1>. DEFINE desde == a + TamHeader
            hasta == h.hdr[a].next
            m == PaginasIntermedias(h, desde, hasta)
            k == LiberarPaginas(h, desde, hasta)
<1>1. /\ EsHeap(h) /\ EnCadena(h.hdr, C) /\ LibresOK(h.hdr, C, Total(h)) /\ h.ids # <<>> /\ Servible(h)
      /\ h.ids \in Seq(Nat) /\ Len(h.ids) <= MaxPaginas
  BY DEF Encadenado, EsHeap
<1>2. /\ a \in Nat /\ desde <= Total(h) /\ Total(h) \in Nat /\ Len(h.ids) \in Nat /\ desde \in Nat
      /\ TamHeader \in Nat /\ TamHeader > 0 /\ TamPagina \in Nat /\ TamPagina > 0
  BY BajoTope, TamaniosAssumption
<1>. DEFINE Rompe(cual) == k = Defecto(h, cual) /\ cual \in Fatales
<1>3. ASSUME NEW cual, Rompe(cual)  PROVE Devuelve(h, C, k)
  <2>1. k = Defecto(h, cual) /\ cual \in Fatales
    BY <1>3
  <2>. HIDE DEF k
  <2>. QED
    BY <1>1, <2>1, DefectoRoto DEF Devuelve
<1>4. CASE m <= 0 /\ ~SobraUltima(h, desde, hasta)
  <2>1. k = h
    BY <1>4 DEF LiberarPaginas
  <2>. QED
    BY <2>1 DEF Devuelve
<1>5. CASE m <= 0 /\ SobraUltima(h, desde, hasta)
  <2>1. k = [h EXCEPT !.ids = Front(@)]
    BY <1>5 DEF LiberarPaginas
  <2>. DEFINE ids == Front(h.ids)
              l == Len(h.ids)
  <2>2. k = [ids |-> ids, hdr |-> h.hdr, defecto |-> h.defecto]
    <3>1. PICK i, f, d : h = [ids |-> i, hdr |-> f, defecto |-> d]
      BY <1>1 DEF EsHeap
    <3>2. h.hdr = f /\ h.defecto = d /\ \A v : [h EXCEPT !.ids = v] = [ids |-> v, hdr |-> f, defecto |-> d]
      BY <3>1
    <3>3. k = [h EXCEPT !.ids = ids]
      BY <2>1
    <3>. HIDE DEF k, ids
    <3>. QED
      BY <3>2, <3>3, Zenon
  <2>3. ids \in Seq(Nat) /\ Len(ids) = l - 1
    BY <1>1, ContarFront
  <2>. HIDE DEF k, ids
  <2>4. k.ids = ids /\ k.hdr = h.hdr /\ k.defecto = h.defecto
    BY <2>2
  <2>5. hasta = 0 /\ Total(h) - desde > TamPagina
    BY <1>5 DEF SobraUltima
  <2>6. l # 0 /\ l \in Nat /\ l * TamPagina = Total(h)
    BY <1>1, <1>2, EmptySeq DEF Total
  <2>7. Total(k) + TamPagina = Total(h) /\ Total(k) \in Nat
    <3>. HIDE DEF l
    <3>1. Total(k) = (l - 1) * TamPagina
      BY <2>3, <2>4 DEF Total
    <3>. QED
      BY <1>2, <2>6, <3>1, Z3
  <2>8. desde <= Total(k)
    <3>. DEFINE x == Total(h)
                y == Total(k)
    <3>1. x \in Nat /\ y \in Nat /\ y + TamPagina = x /\ x - desde > TamPagina
      BY <1>2, <2>5, <2>7
    <3>. HIDE DEF x, y, desde
    <3>2. desde <= y
      BY <1>2, <3>1
    <3>. QED
      BY <3>2 DEF y
  <2>9. ids # <<>>
    <3>1. ASSUME ids = <<>>  PROVE FALSE
      <4>1. Total(k) = 0
        BY <1>2, <2>4, <3>1, EmptySeq DEF Total
      <4>. QED
        BY <1>2, <2>8, <4>1
    <3>. QED
      BY <3>1
  <2>10. EsHeap(k)
    <3>1. k = [ids |-> k.ids, hdr |-> k.hdr, defecto |-> k.defecto]
      BY <2>2, <2>4
    <3>2. Len(ids) <= MaxPaginas
      BY <1>1, <1>2, <2>3, TamaniosAssumption
    <3>. QED
      BY <1>1, <2>3, <2>4, <3>1, <3>2 DEF EsHeap
  <2>11. LibresOK(k.hdr, C, Total(k))
    <3>1. ASSUME NEW d \in C, h.hdr[d].next = 0  PROVE d = a
      <4>1. d \in Nat /\ ~(d < a) /\ ~(a < d)
        BY <1>1, <2>5, <3>1 DEF EnCadena, EsHeap
      <4>. QED
        BY <1>2, <4>1
    <3>2. \A d \in C : h.hdr[d].next = 0 => h.hdr[d].libre
      BY <1>1 DEF LibresOK
    <3>3. \A d \in C : h.hdr[d].libre /\ h.hdr[d].next # 0 => ~h.hdr[h.hdr[d].next].libre
      BY <1>1 DEF LibresOK
    <3>. QED
      BY <2>4, <2>8, <3>1, <3>2, <3>3 DEF LibresOK
  <2>12. Encadenado(k, C) /\ (Sano(k) => Sano(h))
    BY <1>1, <2>4, <2>9, <2>10, <2>11 DEF Encadenado, Servible, Sano
  <2>. QED
    BY <2>4, <2>12 DEF Devuelve, k
<1>6. CASE ~(m <= 0)
  <2>1. CASE hasta = 0
    <3>1. Rompe("busquedaSinFin")
      BY <1>6, <2>1 DEF LiberarPaginas, Fatales, Defectos
    <3>. QED
      BY <1>3, <3>1
  <2>2. CASE hasta # 0 /\ Pagina(h.hdr[0].next) > Pagina(desde)
    <3>1. Rompe("sinInicializar")
      BY <1>6, <2>2 DEF LiberarPaginas, Fatales, Defectos
    <3>. QED
      BY <1>3, <3>1
  <2>3. CASE hasta # 0 /\ ~(Pagina(h.hdr[0].next) > Pagina(desde)) /\ m > 1
    <3>1. Rompe("paginaEquivocada")
      BY <1>6, <2>3 DEF LiberarPaginas, Fatales, Defectos
    <3>. QED
      BY <1>3, <3>1
  <2>4. CASE hasta # 0 /\ ~(Pagina(h.hdr[0].next) > Pagina(desde)) /\ ~(m > 1)
    <3>. DEFINE p == Pagina(desde) + 1
    <3>1. k = QuitarPagina(h, p)
      BY <1>6, <2>4 DEF LiberarPaginas
    <3>2. hasta \in Nat /\ Pagina(desde) \in Nat /\ Pagina(hasta) \in Nat
      <4>1. hasta \in Nat
        BY <1>1, <2>4 DEF EnCadena, EsHeap
      <4>. QED
        BY <1>2, <4>1, DivideBien
    <3>3. Pagina(hasta) = p + 1
      <4>1. m = Pagina(hasta) - Pagina(desde) - 1
        BY <2>4 DEF PaginasIntermedias
      <4>. HIDE DEF m, desde, hasta
      <4>. QED
        BY <1>6, <2>4, <3>2, <4>1
    <3>4. p \in Nat \ {0} /\ Pagina(desde) < p
      BY <3>2
    <3>. HIDE DEF p, k
    <3>5. \E E : Encadenado(k, E)
      BY <2>4, <3>1, <3>3, <3>4, QuitarPaginaBien
    <3>6. ~Sano(k)
      BY <3>1 DEF QuitarPagina, Sano
    <3>. QED
      BY <3>5, <3>6 DEF Devuelve, k
  <2>. QED
    BY <2>1, <2>2, <2>3, <2>4
<1>. QED
  BY <1>4, <1>5, <1>6

\* What memfree does to the used blocks of a heap, while its addresses do not change.
Quita(h, k, dir) ==
    Sano(k) =>
        /\ Sano(h) /\ EnUso(k) = EnUso(h) \ {dir}
        /\ \A d \in EnUso(k) : Espacio(k, d) = Espacio(h, d)

\* g are the headers of h after the block at dir has become part of the free one at a, which
\* goes up to post.
Junta(h, dir, a, post, g) ==
    LET D == DOMAIN h.hdr IN
    /\ a \in D /\ g \in Cabs(D) /\ Salta(h, D, a, post, g) /\ g[a].libre
    /\ \A d \in D \ {a} : g[d].libre = h.hdr[d].libre
    /\ a <= dir /\ (post = 0 \/ dir < post) /\ (a = dir \/ h.hdr[a].libre)
    /\ \A d \in D : a < d /\ (post = 0 \/ d < post) => d = dir \/ h.hdr[d].libre
    /\ post # 0 => ~h.hdr[post].libre
    /\ \A d \in D : h.hdr[d].next = a /\ a # 0 => ~h.hdr[d].libre

\* The heap is a chain without the headers in between, and only the block at dir is no longer used.
LEMMA Juntar ==
  ASSUME NEW h, Encadenado(h, DOMAIN h.hdr), NEW dir \in DOMAIN h.hdr,
         NEW a, NEW post, NEW g, Junta(h, dir, a, post, g)
  PROVE  LET C == Salteada(DOMAIN h.hdr, a, post)
             k == ConHeaders(h, g)
         IN  /\ Encadenado(k, C) /\ a \in C /\ k.hdr[a].next = post
             /\ Sano(k) => Sano(h)
             /\ {d \in C : ~k.hdr[d].libre /\ k.hdr[d].next # 0} = EnUso(h) \ {dir}
             /\ \A d \in EnUso(h) \ {dir} : k.hdr[d].next = h.hdr[d].next
<1>. DEFINE D == DOMAIN h.hdr
            C == Salteada(D, a, post)
            k == ConHeaders(h, g)
<1>1. /\ EsHeap(h) /\ EnCadena(h.hdr, D) /\ LibresOK(h.hdr, D, Total(h)) /\ Servible(h) /\ h.ids # <<>>
      /\ D \subseteq Nat /\ IsFiniteSet(D)
  BY DEF Encadenado, EsHeap
<1>2. /\ a \in D /\ g \in Cabs(D) /\ Salta(h, D, a, post, g) /\ g[a].libre
      /\ \A d \in D \ {a} : g[d].libre = h.hdr[d].libre
      /\ a <= dir /\ (post = 0 \/ dir < post) /\ (a = dir \/ h.hdr[a].libre)
      /\ \A d \in D : a < d /\ (post = 0 \/ d < post) => d = dir \/ h.hdr[d].libre
      /\ post # 0 => ~h.hdr[post].libre
      /\ \A d \in D : h.hdr[d].next = a /\ a # 0 => ~h.hdr[d].libre
  BY DEF Junta
<1>3. /\ post = 0 \/ (post \in D /\ a + TamHeader < post)
      /\ g[a].next = post
      /\ \A d \in D \ {a} : g[d].next = h.hdr[d].next
  BY <1>2 DEF Salta
<1>4. /\ EsHeap(k) /\ k.ids = h.ids /\ k.hdr = g /\ k.defecto = h.defecto /\ DOMAIN k.hdr = D
      /\ (Servible(k) <=> Servible(h)) /\ (Sano(k) <=> Sano(h)) /\ Total(k) = Total(h)
  BY <1>1, <1>2, ConHeadersBien
<1>. HIDE DEF k
<1>5. EnCadena(g, C)
  BY <1>1, <1>2, Saltar
<1>6. /\ C \subseteq D /\ \A d \in D : d \in C <=> d <= a \/ (post # 0 /\ d >= post)
  BY DEF Salteada
<1>. HIDE DEF C
<1>7. a \in Nat /\ post \in Nat /\ dir \in Nat /\ TamHeader \in Nat /\ a \in C
  BY <1>1, <1>2, <1>3, <1>6, TamaniosAssumption
<1>8. LibresOK(g, C, Total(k))
  <2>1. ASSUME NEW d \in C
        PROVE  /\ g[d].next = 0 => g[d].libre /\ d + TamHeader <= Total(k)
               /\ g[d].libre /\ g[d].next # 0 => ~g[g[d].next].libre
    <3>1. CASE d = a
      <4>1. d + TamHeader <= Total(k)
        BY <1>2, <1>4, <3>1, BajoTope
      <4>2. post # 0 => ~g[post].libre
        BY <1>2, <1>3, <1>7
      <4>. QED
        BY <1>2, <1>3, <3>1, <4>1, <4>2
    <3>2. CASE d # a
      <4>1. d \in D /\ g[d].next = h.hdr[d].next /\ g[d].libre = h.hdr[d].libre
        BY <1>2, <1>3, <1>6, <3>2
      <4>2. h.hdr[d].next = 0 => h.hdr[d].libre /\ d + TamHeader <= Total(h)
        BY <1>1, <4>1 DEF LibresOK
      <4>. DEFINE e == h.hdr[d].next
      <4>3. h.hdr[d].libre /\ e # 0 => e \in D /\ ~h.hdr[e].libre
        BY <1>1, <4>1 DEF LibresOK, EnCadena
      <4>4. h.hdr[d].libre /\ e # 0 => e # a
        BY <1>2, <4>1
      <4>. HIDE DEF e
      <4>5. h.hdr[d].libre /\ e # 0 => ~g[e].libre
        BY <1>2, <4>3, <4>4
      <4>. QED
        BY <1>4, <4>1, <4>2, <4>5 DEF e
    <3>. QED
      BY <3>1, <3>2
  <2>. QED
    BY <2>1 DEF LibresOK
<1>9. {d \in C : ~k.hdr[d].libre /\ k.hdr[d].next # 0} = EnUso(h) \ {dir}
  <2>1. ASSUME NEW d \in C, ~g[d].libre, g[d].next # 0  PROVE d \in EnUso(h) \ {dir}
    <3>1. d # a /\ d \in D
      BY <1>2, <1>6, <2>1
    <3>2. ~h.hdr[d].libre /\ h.hdr[d].next # 0
      BY <1>2, <1>3, <2>1, <3>1
    <3>3. d # dir
      BY <1>1, <1>2, <1>6, <1>7, <3>1
    <3>. QED
      BY <3>1, <3>2, <3>3 DEF EnUso
  <2>2. ASSUME NEW d \in EnUso(h) \ {dir}  PROVE d \in C /\ ~g[d].libre /\ g[d].next # 0
    <3>1. d \in D /\ ~h.hdr[d].libre /\ h.hdr[d].next # 0 /\ d # dir
      BY DEF EnUso
    <3>2. d # a
      BY <1>2, <3>1
    <3>3. d \in C
      BY <1>1, <1>2, <1>6, <1>7, <3>1
    <3>. QED
      BY <1>2, <1>3, <3>1, <3>2, <3>3
  <2>. QED
    BY <1>4, <2>1, <2>2
<1>10. ASSUME NEW d \in EnUso(h) \ {dir}  PROVE k.hdr[d].next = h.hdr[d].next
  <2>1. d \in D /\ ~h.hdr[d].libre /\ d # dir
    BY DEF EnUso
  <2>2. d # a
    BY <1>2, <2>1
  <2>. QED
    BY <1>3, <1>4, <2>1, <2>2
<1>. QED
  BY <1>1, <1>3, <1>4, <1>5, <1>7, <1>8, <1>9, <1>10 DEF Encadenado, k, C

\* After the join the pages of the free block are given back, and the headers cleaned.
LEMMA JuntarYLiberar ==
  ASSUME NEW h, Encadenado(h, DOMAIN h.hdr), NEW dir \in DOMAIN h.hdr,
         NEW a, NEW post, NEW g, Junta(h, dir, a, post, g),
         NEW r, r = Limpiar(LiberarPaginas(ConHeaders(h, g), a + TamHeader, post))
  PROVE  HeapOK(r) /\ Quita(h, r, dir)
<1>. DEFINE C == Salteada(DOMAIN h.hdr, a, post)
            k == ConHeaders(h, g)
            l == LiberarPaginas(k, a + TamHeader, post)
<1>1. /\ Encadenado(k, C) /\ a \in C /\ k.hdr[a].next = post
      /\ Sano(k) => Sano(h)
      /\ {d \in C : ~k.hdr[d].libre /\ k.hdr[d].next # 0} = EnUso(h) \ {dir}
      /\ \A d \in EnUso(h) \ {dir} : k.hdr[d].next = h.hdr[d].next
  BY Juntar
<1>. HIDE DEF k, C
<1>2. Devuelve(k, C, l)
  BY <1>1, LiberarPaginasBien
<1>. HIDE DEF l
<1>3. r = Limpiar(l)
  BY DEF l, k
<1>4. CASE Roto(l)
  <2>1. ~Servible(l)
    BY <1>4 DEF Roto
  <2>2. r = l
    BY <1>3, <2>1 DEF Limpiar
  <2>3. ~Sano(r)
    BY <2>1, <2>2 DEF Sano, Servible
  <2>. QED
    BY <1>4, <2>2, <2>3 DEF HeapOK, Quita
<1>5. CASE ~Roto(l)
  <2>1. PICK E : Encadenado(l, E) /\ (Sano(l) => Sano(k) /\ E = C /\ l.hdr = k.hdr)
    BY <1>2, <1>5 DEF Devuelve
  <2>2. /\ Encadenado(r, E) /\ DOMAIN r.hdr = E
        /\ r.ids = l.ids /\ r.defecto = l.defecto
        /\ \A d \in E : r.hdr[d] = l.hdr[d]
    BY <1>3, <2>1, LimpiarBien
  <2>3. ASSUME Sano(r)
        PROVE  /\ Sano(h) /\ EnUso(r) = EnUso(h) \ {dir}
               /\ \A d \in EnUso(r) : Espacio(r, d) = Espacio(h, d)
    <3>1. Sano(k) /\ E = C /\ l.hdr = k.hdr
      BY <2>1, <2>2, <2>3 DEF Sano
    <3>2. \A d \in C : r.hdr[d] = k.hdr[d]
      BY <2>2, <3>1
    <3>3. EnUso(r) = EnUso(h) \ {dir}
      BY <1>1, <2>2, <3>1, <3>2 DEF EnUso
    <3>4. ASSUME NEW d \in EnUso(r)  PROVE r.hdr[d].next = h.hdr[d].next
      <4>1. d \in C /\ d \in EnUso(h) \ {dir}
        BY <2>2, <3>1, <3>3, <3>4 DEF EnUso
      <4>. QED
        BY <1>1, <3>2, <4>1
    <3>. QED
      BY <1>1, <3>1, <3>3, <3>4 DEF Espacio
  <2>. QED
    BY <2>2, <2>3 DEF HeapOK, Quita
<1>. QED
  BY <1>4, <1>5

\* The free block that memfree of dir leaves: where it begins and where it ends.
Desde(h, dir) == IF dir # 0 /\ AnteriorLibre(h, dir) THEN h.hdr[dir].prev ELSE dir
Hasta(h, dir) == IF SiguienteLibre(h, dir) THEN h.hdr[h.hdr[dir].next].next ELSE h.hdr[dir].next

\* The headers g, with the links and the mark of that block.
Queda(h, a, post, g) ==
    LET D == DOMAIN h.hdr IN
    /\ g \in Cabs(D) /\ g[a].next = post /\ (post # 0 => g[post].prev = a) /\ g[a].libre
    /\ \A d \in D \ {a} : g[d].next = h.hdr[d].next /\ g[d].libre = h.hdr[d].libre
    /\ \A d \in D \ {post, 0} : g[d].prev = h.hdr[d].prev

\* What memfree leaves of the headers it joins is such a join.
LEMMA QuedaJunto ==
  ASSUME NEW h, Encadenado(h, DOMAIN h.hdr), NEW dir \in DOMAIN h.hdr, h.hdr[dir].next # 0,
         NEW g, Queda(h, Desde(h, dir), Hasta(h, dir), g)
  PROVE  Junta(h, dir, Desde(h, dir), Hasta(h, dir), g)
<1>. DEFINE D == DOMAIN h.hdr
            a == Desde(h, dir)
            post == Hasta(h, dir)
            sig == h.hdr[dir].next
            ant == h.hdr[dir].prev
            fin == h.hdr[sig].next
<1>1. /\ EsHeap(h) /\ EnCadena(h.hdr, D) /\ LibresOK(h.hdr, D, Total(h))
  BY DEF Encadenado
<1>2. /\ 0 \in D /\ D \subseteq Nat /\ TamHeader \in Nat /\ TamHeader > 0
      /\ \A d \in D : h.hdr[d].next \in Nat
      /\ \A d \in D : h.hdr[d].next # 0 =>
            h.hdr[d].next \in D /\ d + TamHeader < h.hdr[d].next /\ h.hdr[h.hdr[d].next].prev = d
      /\ \A d, e \in D : d < e => h.hdr[d].next # 0 /\ h.hdr[d].next <= e
      /\ \A d \in D : d # 0 => h.hdr[d].prev \in D /\ h.hdr[h.hdr[d].prev].next = d
  BY <1>1, Eslabones
<1>3. \A d \in D : h.hdr[d].libre /\ h.hdr[d].next # 0 => ~h.hdr[h.hdr[d].next].libre
  BY <1>1 DEF LibresOK
<1>4. /\ sig \in D /\ sig \in Nat /\ dir \in Nat /\ dir + TamHeader < sig /\ fin \in Nat
      /\ fin # 0 => fin \in D /\ sig + TamHeader < fin
  BY <1>2
<1>5. \/ /\ dir # 0 /\ h.hdr[ant].libre /\ a = ant /\ ant \in D /\ ant \in Nat /\ ant + TamHeader < dir
         /\ h.hdr[ant].next = dir
      \/ /\ a = dir /\ (dir # 0 => ~h.hdr[ant].libre)
  BY <1>2 DEF Desde, AnteriorLibre
<1>6. \/ h.hdr[sig].libre /\ post = fin
      \/ ~h.hdr[sig].libre /\ post = sig
  BY DEF Hasta, SiguienteLibre
<1>. HIDE DEF a, post
<1>7. Queda(h, a, post, g)
  BY DEF a, post
<1>. HIDE DEF sig, ant, fin
<1>8. a \in D /\ a \in Nat /\ a <= dir /\ (a = dir \/ h.hdr[a].libre)
  BY <1>2, <1>4, <1>5
<1>9. /\ post \in Nat /\ (post = 0 \/ dir < post)
      /\ post = 0 \/ (post \in D /\ a + TamHeader < post)
  BY <1>2, <1>4, <1>6, <1>8
<1>10. ASSUME NEW d \in D, a < d, post = 0 \/ d < post  PROVE d = dir \/ h.hdr[d].libre
  <2>1. d \in Nat
    BY <1>2
  <2>2. CASE d < dir
    <3>1. a # dir
      BY <1>10, <2>1, <2>2, <1>4
    <3>2. a = ant /\ h.hdr[ant].next = dir /\ ant \in D
      BY <1>5, <3>1
    <3>3. dir <= d
      BY <1>2, <1>10, <3>2
    <3>. QED
      BY <1>4, <2>1, <2>2, <3>3
  <2>3. CASE dir < d
    <3>1. sig <= d
      BY <1>2, <2>3 DEF sig
    <3>2. post = fin /\ h.hdr[sig].libre
      <4>1. sig # 0 /\ ~(d < sig)
        BY <1>2, <1>4, <2>1, <3>1
      <4>. QED
        BY <1>6, <1>10, <4>1
    <3>3. ~(sig < d)
      <4>1. ASSUME sig < d  PROVE fin # 0 /\ fin <= d
        BY <1>2, <1>4, <4>1 DEF fin
      <4>. QED
        BY <1>4, <1>10, <2>1, <3>2, <4>1
    <3>. QED
      BY <1>4, <2>1, <3>1, <3>2, <3>3
  <2>. QED
    BY <1>4, <2>1, <2>2, <2>3
<1>11. post # 0 => ~h.hdr[post].libre
  BY <1>3, <1>4, <1>6 DEF fin
<1>12. ASSUME NEW d \in D, h.hdr[d].next = a, a # 0  PROVE ~h.hdr[d].libre
  <2>1. CASE a = dir
    <3>1. d = ant
      BY <1>2, <1>12, <2>1 DEF ant
    <3>2. dir # 0
      BY <1>12, <2>1
    <3>3. ~h.hdr[ant].libre
      <4>1. TamHeader \in Nat /\ dir \in Nat
        BY <1>2, <1>4
      <4>2. ~(a = ant /\ ant \in Nat /\ ant + TamHeader < dir)
        BY <2>1, <4>1
      <4>. QED
        BY <1>5, <3>2, <4>2
    <3>. QED
      BY <3>1, <3>3
  <2>2. CASE a # dir
    BY <1>3, <1>5, <1>12, <2>2
  <2>. QED
    BY <2>1, <2>2
<1>13. Salta(h, D, a, post, g)
  <2>1. DOMAIN g = D
    BY <1>7 DEF Queda, Cabs
  <2>. QED
    BY <1>7, <1>9, <2>1 DEF Queda, Salta
<1>14. /\ g \in Cabs(D) /\ g[a].libre /\ \A d \in D \ {a} : g[d].libre = h.hdr[d].libre
  BY <1>7 DEF Queda
<1>. HIDE DEF D
<1>15. Junta(h, dir, a, post, g)
  BY <1>8, <1>9, <1>10, <1>11, <1>12, <1>13, <1>14 DEF Junta, D
<1>. QED
  BY <1>15 DEF a, post

\* A header leads to another, and that one back.
Enlaza(D, f, a, post, g) ==
    /\ g \in Cabs(D) /\ g[a].next = post /\ g[post].prev = a
    /\ \A d \in D \ {a} : g[d].next = f[d].next
    /\ \A d \in D \ {post} : g[d].prev = f[d].prev
    /\ \A d \in D : g[d].libre = f[d].libre

\* Writing the two links does that.
LEMMA EnlazarBien ==
  ASSUME NEW D, D \subseteq Nat, NEW f \in Cabs(D), NEW a \in D, NEW post \in D
  PROVE  Enlaza(D, f, a, post, [[f EXCEPT ![a].next = post] EXCEPT ![post].prev = a])
<1>. DEFINE f1 == [f EXCEPT ![a].next = post]
            g == [f1 EXCEPT ![post].prev = a]
<1>1. ConNext(D, f, a, post, f1)
  BY CambiaNext
<1>. HIDE DEF f1
<1>2. ConPrev(D, f1, post, a, g)
  <2>1. f1 \in Cabs(D)
    BY <1>1 DEF ConNext
  <2>. QED
    BY <2>1, CambiaPrev
<1>. HIDE DEF g
<1>3. Enlaza(D, f, a, post, g)
  BY <1>1, <1>2 DEF ConNext, ConPrev, Enlaza
<1>. QED
  BY <1>3 DEF f1, g

\* memfree of a block that is not the last.
LEMMA LiberarBien ==
  ASSUME NEW h, Encadenado(h, DOMAIN h.hdr), NEW dir, dir \in DOMAIN h.hdr => h.hdr[dir].next # 0
  PROVE  HeapOK(Liberar(h, dir)) /\ Quita(h, Liberar(h, dir), dir)
<1>. DEFINE D == DOMAIN h.hdr
            k == Liberar(h, dir)
            a == Desde(h, dir)
            post == Hasta(h, dir)
            sig == h.hdr[dir].next
            ant == h.hdr[dir].prev
            fin == h.hdr[sig].next
            libre == [h.hdr EXCEPT ![dir].libre = TRUE]
            Enlazado(f, x, y) == [[f EXCEPT ![x].next = y] EXCEPT ![y].prev = x]
<1>1. /\ EsHeap(h) /\ EnCadena(h.hdr, D) /\ LibresOK(h.hdr, D, Total(h))
      /\ h.hdr \in Cabs(D) /\ D \subseteq Nat /\ IsFiniteSet(D)
  BY DEF Encadenado, EsHeap, Cabs
<1>2. ASSUME NEW cual \in Fatales, k = Defecto(h, cual)  PROVE HeapOK(k) /\ Quita(h, k, dir)
  <2>. HIDE DEF k
  <2>1. Roto(k) /\ ~Sano(k)
    BY <1>1, <1>2, DefectoRoto
  <2>. QED
    BY <2>1 DEF HeapOK, Quita
<1>3. CASE dir \notin D
  <2>1. k = Defecto(h, "sinHeader") /\ "sinHeader" \in Fatales
    BY <1>3 DEF Liberar, Fatales, Defectos
  <2>. QED
    BY <1>2, <2>1
<1>4. CASE dir \in D /\ ~EsPrimero(h, dir) /\ dir = 0
  <2>1. k = Defecto(h, "primeroConAnterior") /\ "primeroConAnterior" \in Fatales
    BY <1>4 DEF Liberar, Fatales, Defectos
  <2>. QED
    BY <1>2, <2>1
<1>5. CASE dir \in D /\ (EsPrimero(h, dir) \/ dir # 0)
  <2>1. /\ 0 \in D /\ TamHeader \in Nat /\ TamHeader > 0
        /\ \A d \in D : h.hdr[d].next \in Nat
        /\ \A d \in D : h.hdr[d].next # 0 =>
              h.hdr[d].next \in D /\ d + TamHeader < h.hdr[d].next /\ h.hdr[h.hdr[d].next].prev = d
        /\ \A d \in D : d # 0 => h.hdr[d].prev \in D /\ h.hdr[h.hdr[d].prev].next = d
    BY <1>1, Eslabones
  <2>2. /\ dir \in Nat /\ sig # 0 /\ sig \in D /\ sig \in Nat /\ dir < sig /\ h.hdr[sig].prev = dir
        /\ fin \in D /\ fin \in Nat /\ (fin # 0 => sig < fin)
        /\ dir # 0 => ant \in D /\ ant \in Nat /\ ant < dir /\ h.hdr[ant].next = dir
    <3>1. dir \in Nat /\ sig # 0 /\ sig \in D /\ sig \in Nat /\ dir + TamHeader < sig /\ h.hdr[sig].prev = dir
      BY <1>1, <1>5, <2>1
    <3>2. fin \in D /\ fin \in Nat /\ (fin # 0 => sig + TamHeader < fin)
      BY <1>1, <2>1, <3>1
    <3>3. dir # 0 => ant \in D /\ ant \in Nat /\ ant + TamHeader < dir /\ h.hdr[ant].next = dir
      BY <1>1, <1>5, <2>1
    <3>. HIDE DEF sig, fin, ant
    <3>. QED
      BY <2>1, <3>1, <3>2, <3>3
  <2>3. ASSUME NEW g, Queda(h, a, post, g), k = Limpiar(LiberarPaginas(ConHeaders(h, g), a + TamHeader, post))
        PROVE  HeapOK(k) /\ Quita(h, k, dir)
    <3>. HIDE DEF k, a, post
    <3>1. Junta(h, dir, a, post, g)
      BY <1>5, <2>2, <2>3, QuedaJunto DEF a, post
    <3>. QED
      BY <1>5, <2>3, <3>1, JuntarYLiberar
  <2>4. ConLibre(D, h.hdr, dir, libre)
    BY <1>1, <1>5, CambiaLibre
  <2>5. \A g : [h EXCEPT !.hdr = g] = ConHeaders(h, g)
    BY <1>1, ConHeadersEs
  <2>6. CASE EsPrimero(h, dir)
    <3>1. dir = 0
      BY <2>2, <2>6 DEF EsPrimero
    <3>2. k = Limpiar(LiberarPrimero(h, dir)) /\ a = dir
      BY <1>5, <2>6, <3>1 DEF Liberar, Desde
    <3>3. CASE SiguienteLibre(h, dir)
      <4>. DEFINE f == Enlazado(h.hdr, dir, fin)
                  g == [f EXCEPT ![dir].libre = TRUE]
                  h1 == ConHeaders(h, f)
      <4>1. Enlaza(D, h.hdr, dir, fin, f)
        BY <1>1, <1>5, <2>2, EnlazarBien
      <4>2. f \in Cabs(D)
        BY <4>1 DEF Enlaza
      <4>3. ConLibre(D, f, dir, g)
        <5>. HIDE DEF f
        <5>. QED
          BY <1>5, <4>2, CambiaLibre
      <4>4. Unir(h, dir, dir) = h1
        BY <2>5 DEF Unir
      <4>. HIDE DEF f
      <4>5. EsHeap(h1) /\ h1.hdr = f
        BY <1>1, <4>2, ConHeadersBien
      <4>6. [h1 EXCEPT !.hdr[dir].libre = TRUE] = ConHeaders(h, g)
        <5>. HIDE DEF h1
        <5>1. [h1 EXCEPT !.hdr[dir].libre = TRUE] = [h1 EXCEPT !.hdr = [f EXCEPT ![dir].libre = TRUE]]
          BY <4>5
        <5>2. [h1 EXCEPT !.hdr = [f EXCEPT ![dir].libre = TRUE]] = ConHeaders(h1, g)
          BY <4>5, ConHeadersEs
        <5>3. ConHeaders(h1, g) = ConHeaders(h, g)
          BY DEF ConHeaders, h1
        <5>. QED
          BY <5>1, <5>2, <5>3
      <4>. HIDE DEF g, h1
      <4>7. post = fin /\ g[dir].next = fin
        BY <1>5, <3>3, <4>1, <4>3 DEF Hasta, Enlaza, ConLibre
      <4>8. LiberarPrimero(h, dir) = LiberarPaginas(ConHeaders(h, g), dir + TamHeader, fin)
        <5>1. ConHeaders(h, g).hdr[dir].next = fin
          BY <4>7 DEF ConHeaders
        <5>2. TamHeader = dir + TamHeader
          BY <2>1, <3>1
        <5>. QED
          BY <2>2, <3>3, <4>4, <4>6, <5>1, <5>2 DEF LiberarPrimero
      <4>9. Queda(h, dir, fin, g)
        BY <1>5, <2>2, <3>1, <4>1, <4>3 DEF Queda, Enlaza, ConLibre
      <4>. QED
        BY <2>3, <3>2, <4>7, <4>8, <4>9
    <3>4. CASE ~SiguienteLibre(h, dir)
      <4>1. [h EXCEPT !.hdr[dir].libre = TRUE] = ConHeaders(h, libre)
        BY <2>5
      <4>2. ConHeaders(h, libre).hdr[dir].next = sig
        BY <1>5, <2>4 DEF ConHeaders, ConLibre
      <4>. HIDE DEF libre
      <4>3. LiberarPrimero(h, dir) = LiberarPaginas(ConHeaders(h, libre), dir + TamHeader, sig) /\ post = sig
        <5>1. TamHeader = dir + TamHeader
          BY <2>1, <3>1
        <5>. QED
          BY <3>4, <4>1, <4>2, <5>1 DEF LiberarPrimero, Hasta
      <4>4. Queda(h, dir, sig, libre)
        BY <1>5, <2>2, <2>4 DEF Queda, ConLibre
      <4>. QED
        BY <2>3, <3>2, <4>3, <4>4
    <3>. QED
      BY <3>3, <3>4
  <2>7. CASE ~EsPrimero(h, dir)
    <3>1. dir # 0 /\ k = Limpiar(LiberarOtro(h, dir))
      BY <1>5, <2>7 DEF Liberar
    <3>2. CASE ~AnteriorLibre(h, dir) /\ ~SiguienteLibre(h, dir)
      <4>1. [h EXCEPT !.hdr[dir].libre = TRUE] = ConHeaders(h, libre)
        BY <2>5
      <4>. HIDE DEF libre
      <4>2. LiberarOtro(h, dir) = LiberarPaginas(ConHeaders(h, libre), dir + TamHeader, sig)
        BY <2>2, <3>1, <3>2, <4>1 DEF LiberarOtro
      <4>3. a = dir /\ post = sig
        BY <3>2 DEF Desde, Hasta
      <4>4. Queda(h, dir, sig, libre)
        BY <1>5, <2>2, <2>4 DEF Queda, ConLibre
      <4>. QED
        BY <2>3, <3>1, <4>2, <4>3, <4>4
    <3>3. CASE AnteriorLibre(h, dir) /\ ~SiguienteLibre(h, dir)
      <4>. DEFINE g == Enlazado(h.hdr, ant, sig)
      <4>1. Enlaza(D, h.hdr, ant, sig, g)
        BY <1>1, <2>2, <3>1, EnlazarBien
      <4>2. [h EXCEPT !.hdr[ant].next = sig, !.hdr[sig].prev = ant] = ConHeaders(h, g)
        BY <2>5
      <4>. HIDE DEF g
      <4>3. LiberarOtro(h, dir) = LiberarPaginas(ConHeaders(h, g), ant + TamHeader, sig)
        BY <3>3, <4>2 DEF LiberarOtro
      <4>4. a = ant /\ post = sig
        BY <3>1, <3>3 DEF Desde, Hasta
      <4>5. Queda(h, ant, sig, g)
        <5>1. h.hdr[ant].libre
          BY <3>3 DEF AnteriorLibre
        <5>. QED
          BY <2>2, <3>1, <4>1, <5>1 DEF Queda, Enlaza
      <4>. QED
        BY <2>3, <3>1, <4>3, <4>4, <4>5
    <3>4. CASE ~AnteriorLibre(h, dir) /\ SiguienteLibre(h, dir)
      <4>. DEFINE g == Enlazado(libre, dir, fin)
                  h1 == ConHeaders(h, libre)
      <4>1. libre \in Cabs(D) /\ [h EXCEPT !.hdr[dir].libre = TRUE] = h1
        BY <2>4, <2>5 DEF ConLibre
      <4>. HIDE DEF libre
      <4>2. Enlaza(D, libre, dir, fin, g)
        BY <1>1, <1>5, <2>2, <4>1, EnlazarBien
      <4>3. EsHeap(h1) /\ h1.hdr = libre
        BY <1>1, <4>1, ConHeadersBien
      <4>4. h1.hdr[h1.hdr[dir].next].next = fin
        BY <1>5, <2>2, <2>4, <4>3 DEF ConLibre
      <4>5. Unir(h1, dir, dir) = ConHeaders(h, g)
        <5>1. Unir(h1, dir, dir) = [h1 EXCEPT !.hdr = g]
          BY <4>3, <4>4 DEF Unir
        <5>2. [h1 EXCEPT !.hdr = g] = ConHeaders(h1, g)
          <6>. HIDE DEF h1, g
          <6>. QED
            BY <4>3, ConHeadersEs
        <5>3. ConHeaders(h1, g) = ConHeaders(h, g)
          BY DEF ConHeaders, h1
        <5>. QED
          BY <5>1, <5>2, <5>3
      <4>. HIDE DEF g, h1
      <4>6. LiberarOtro(h, dir) = LiberarPaginas(ConHeaders(h, g), dir + TamHeader, fin)
        BY <2>2, <3>4, <4>1, <4>5 DEF LiberarOtro
      <4>7. a = dir /\ post = fin
        BY <3>4 DEF Desde, Hasta
      <4>8. Queda(h, dir, fin, g)
        BY <1>5, <2>2, <2>4, <4>2 DEF Queda, Enlaza, ConLibre
      <4>. QED
        BY <2>3, <3>1, <4>6, <4>7, <4>8
    <3>5. CASE AnteriorLibre(h, dir) /\ SiguienteLibre(h, dir)
      <4>. DEFINE g == Enlazado(h.hdr, ant, fin)
      <4>1. Enlaza(D, h.hdr, ant, fin, g)
        BY <1>1, <2>2, <3>1, EnlazarBien
      <4>2. [h EXCEPT !.hdr = [[@ EXCEPT ![ant].next = fin] EXCEPT ![fin].prev = ant]] = ConHeaders(h, g)
        BY <2>5
      <4>. HIDE DEF g
      <4>3. LiberarOtro(h, dir) = LiberarPaginas(ConHeaders(h, g), ant + TamHeader, fin)
        BY <3>5, <4>2 DEF LiberarOtro
      <4>4. a = ant /\ post = fin
        BY <3>1, <3>5 DEF Desde, Hasta
      <4>5. Queda(h, ant, fin, g)
        <5>1. h.hdr[ant].libre
          BY <3>5 DEF AnteriorLibre
        <5>. QED
          BY <2>2, <3>1, <4>1, <5>1 DEF Queda, Enlaza
      <4>. QED
        BY <2>3, <3>1, <4>3, <4>4, <4>5
    <3>. QED
      BY <3>2, <3>3, <3>4, <3>5
  <2>. QED
    BY <2>6, <2>7
<1>. QED
  BY <1>3, <1>4, <1>5

-----------------------------------------------------------------------------
\* The records of memoria.

\* The PID that l says of a descriptor.
PidEn(l, fd) ==
    LET suyos == {i \in DOMAIN l : l[i].fd = fd} IN IF suyos = {} THEN SinPid ELSE l[Min(suyos)].pid

\* It is the PID of one of the records of the descriptor, or there is none.
LEMMA PidEnBien ==
  ASSUME NEW l \in Seq(Registros), NEW fd
  PROVE  \/ PidEn(l, fd) = SinPid /\ \A i \in DOMAIN l : l[i].fd # fd
         \/ \E i \in DOMAIN l : l[i].fd = fd /\ PidEn(l, fd) = l[i].pid
<1>. DEFINE suyos == {i \in DOMAIN l : l[i].fd = fd}
<1>1. suyos \subseteq Nat
  BY LenProperties
<1>2. suyos # {} => Min(suyos) \in suyos
  BY <1>1, MinimoExiste
<1>. QED
  BY <1>2 DEF PidEn

\* With one record for each, that of its record.
LEMMA PidEnUnico ==
  ASSUME NEW l \in Seq(Registros), Unicos(l)
  PROVE  /\ \A fd : PidEn(l, fd) = SinPid <=> \A i \in DOMAIN l : l[i].fd # fd
         /\ \A i \in DOMAIN l : PidEn(l, l[i].fd) = l[i].pid
         /\ \A fd, fe : PidEn(l, fd) # SinPid /\ PidEn(l, fd) = PidEn(l, fe) => fd = fe
<1>1. \A i \in DOMAIN l : l[i].pid \in Pids /\ l[i].pid # SinPid
  <2>1. \A i \in DOMAIN l : l[i] \in Registros
    BY ElementOfSeq, LenProperties
  <2>2. \A p \in Pids : p # SinPid
    BY DEF Pids, SinPid
  <2>. QED
    BY <2>1, <2>2 DEF Registros
<1>2. \A i, j \in DOMAIN l : i # j => l[i].fd # l[j].fd /\ l[i].pid # l[j].pid
  BY DEF Unicos
<1>3. \A fd : \/ PidEn(l, fd) = SinPid /\ \A i \in DOMAIN l : l[i].fd # fd
              \/ \E i \in DOMAIN l : l[i].fd = fd /\ PidEn(l, fd) = l[i].pid
  BY PidEnBien
<1>4. \A fd : PidEn(l, fd) = SinPid <=> \A i \in DOMAIN l : l[i].fd # fd
  BY <1>1, <1>3
<1>5. \A i \in DOMAIN l : PidEn(l, l[i].fd) = l[i].pid
  BY <1>2, <1>3
<1>6. ASSUME NEW fd, NEW fe, PidEn(l, fd) # SinPid, PidEn(l, fd) = PidEn(l, fe)  PROVE fd = fe
  <2>1. PICK i \in DOMAIN l : l[i].fd = fd /\ PidEn(l, fd) = l[i].pid
    BY <1>3, <1>6
  <2>2. PICK j \in DOMAIN l : l[j].fd = fe /\ PidEn(l, fe) = l[j].pid
    BY <1>3, <1>6
  <2>. QED
    BY <1>2, <1>6, <2>1, <2>2
<1>. QED
  BY <1>4, <1>5, <1>6

\* A new record at the end.
LEMMA RegistroNuevo ==
  ASSUME NEW l \in Seq(Registros), Unicos(l), NEW r \in Registros,
         \A i \in DOMAIN l : l[i].fd # r.fd /\ l[i].pid # r.pid
  PROVE  LET m == Append(l, r)
         IN  /\ m \in Seq(Registros) /\ Unicos(m)
             /\ {m[i].fd : i \in DOMAIN m} = {l[i].fd : i \in DOMAIN l} \union {r.fd}
             /\ \A i \in DOMAIN m : m[i] = r \/ \E j \in DOMAIN l : m[i] = l[j]
             /\ PidEn(m, r.fd) = r.pid
             /\ \A fd : fd # r.fd => PidEn(m, fd) = PidEn(l, fd)
<1>. DEFINE m == Append(l, r)
            n == Len(l)
<1>1. /\ m \in Seq(Registros) /\ n \in Nat /\ DOMAIN l = 1 .. n /\ DOMAIN m = 1 .. n + 1
      /\ \A i \in 1 .. n : m[i] = l[i]
      /\ m[n + 1] = r
  BY AppendProperties, LenProperties
<1>. HIDE DEF m, n
<1>2. \A i \in 1 .. n + 1 : i = n + 1 \/ i \in 1 .. n
  BY <1>1
<1>3. \A i \in 1 .. n : i \in 1 .. n + 1 /\ i # n + 1
  BY <1>1
<1>4. n + 1 \in 1 .. n + 1
  BY <1>1
<1>5. Unicos(m)
  <2>1. \A i, j \in 1 .. n : i # j => l[i].fd # l[j].fd /\ l[i].pid # l[j].pid
    BY <1>1 DEF Unicos
  <2>2. ASSUME NEW i \in 1 .. n + 1, NEW j \in 1 .. n + 1, i # j
        PROVE  m[i].fd # m[j].fd /\ m[i].pid # m[j].pid
    <3>1. CASE i \in 1 .. n /\ j \in 1 .. n
      BY <1>1, <2>1, <2>2, <3>1
    <3>2. CASE i = n + 1 /\ j \in 1 .. n
      BY <1>1, <3>2
    <3>3. CASE i \in 1 .. n /\ j = n + 1
      BY <1>1, <3>3
    <3>. QED
      BY <1>2, <2>2, <3>1, <3>2, <3>3
  <2>. QED
    BY <1>1, <2>2 DEF Unicos
<1>6. {m[i].fd : i \in DOMAIN m} = {l[i].fd : i \in DOMAIN l} \union {r.fd}
  BY <1>1, <1>2, <1>3, <1>4
<1>7. \A i \in DOMAIN m : m[i] = r \/ \E j \in DOMAIN l : m[i] = l[j]
  BY <1>1, <1>2
<1>8. PidEn(m, r.fd) = r.pid
  BY <1>1, <1>4, <1>5, PidEnUnico
<1>9. ASSUME NEW fd, fd # r.fd  PROVE PidEn(m, fd) = PidEn(l, fd)
  <2>1. CASE \E i \in DOMAIN l : l[i].fd = fd
    <3>1. PICK i \in DOMAIN l : l[i].fd = fd
      BY <2>1
    <3>2. i \in DOMAIN m /\ m[i] = l[i]
      BY <1>1, <1>3, <3>1
    <3>3. PidEn(m, m[i].fd) = m[i].pid /\ PidEn(l, l[i].fd) = l[i].pid
      BY <1>1, <1>5, <3>2, PidEnUnico
    <3>. QED
      BY <3>1, <3>2, <3>3
  <2>2. CASE \A i \in DOMAIN l : l[i].fd # fd
    <3>1. \A i \in DOMAIN m : m[i].fd # fd
      BY <1>7, <1>9, <2>2
    <3>. QED
      BY <1>1, <1>5, <2>2, <3>1, PidEnUnico
  <2>. QED
    BY <2>1, <2>2
<1>. QED
  BY <1>1, <1>5, <1>6, <1>7, <1>8, <1>9 DEF m

\* A record taken out.
LEMMA RegistroQuitado ==
  ASSUME NEW l \in Seq(Registros), Unicos(l), NEW i \in DOMAIN l
  PROVE  LET m == RemoveAt(l, i)
         IN  /\ m \in Seq(Registros) /\ Unicos(m)
             /\ \A j \in DOMAIN m : \E k \in DOMAIN l : m[j] = l[k]
             /\ {m[j].fd : j \in DOMAIN m} = {l[j].fd : j \in DOMAIN l} \ {l[i].fd}
             /\ PidEn(m, l[i].fd) = SinPid
             /\ \A fd : fd # l[i].fd => PidEn(m, fd) = PidEn(l, fd)
<1>. DEFINE m == RemoveAt(l, i)
            n == Len(l)
            De(j) == IF j < i THEN j ELSE j + 1
<1>1. n \in Nat /\ DOMAIN l = 1 .. n /\ i \in 1 .. n /\ i \in Nat
  BY LenProperties
<1>2. m \in Seq(Registros) /\ SinEl(i, l, m)
  <2>1. i \in 1 .. Len(l)
    BY <1>1
  <2>. QED
    BY <2>1, ContarRemoveAt
<1>. HIDE DEF m
<1>3. Len(m) = n - 1 /\ DOMAIN m = 1 .. n - 1
  BY <1>1, <1>2, LenProperties DEF SinEl
<1>. HIDE DEF n
<1>4. ASSUME NEW j \in DOMAIN m  PROVE De(j) \in DOMAIN l /\ De(j) # i /\ m[j] = l[De(j)] /\ j \in Nat
  BY <1>1, <1>2, <1>3 DEF SinEl
<1>5. ASSUME NEW k \in DOMAIN l, k # i  PROVE \E j \in DOMAIN m : m[j] = l[k]
  <2>1. k \in Nat /\ 1 <= k /\ k <= n
    BY <1>1
  <2>2. CASE k < i
    <3>1. k \in DOMAIN m /\ De(k) = k
      BY <1>1, <1>3, <2>1, <2>2
    <3>. QED
      BY <1>4, <3>1
  <2>3. CASE i < k
    <3>1. k - 1 \in DOMAIN m /\ De(k - 1) = k
      BY <1>1, <1>3, <2>1, <2>3
    <3>. QED
      BY <1>4, <3>1
  <2>. QED
    BY <1>1, <1>5, <2>1, <2>2, <2>3
<1>6. \A a, b \in DOMAIN l : a # b => l[a].fd # l[b].fd /\ l[a].pid # l[b].pid
  BY DEF Unicos
<1>7. Unicos(m)
  <2>1. ASSUME NEW a \in DOMAIN m, NEW b \in DOMAIN m, a # b  PROVE De(a) # De(b)
    BY <1>1, <1>4, <2>1
  <2>. HIDE DEF De
  <2>. QED
    BY <1>4, <1>6, <2>1 DEF Unicos
<1>8. \A j \in DOMAIN m : \E k \in DOMAIN l : k # i /\ m[j] = l[k]
  BY <1>4
<1>. HIDE DEF De
<1>9. {m[j].fd : j \in DOMAIN m} = {l[j].fd : j \in DOMAIN l} \ {l[i].fd}
  BY <1>5, <1>6, <1>8
<1>10. PidEn(m, l[i].fd) = SinPid
  BY <1>2, <1>6, <1>7, <1>8, PidEnUnico
<1>11. ASSUME NEW fd, fd # l[i].fd  PROVE PidEn(m, fd) = PidEn(l, fd)
  <2>1. CASE \E k \in DOMAIN l : l[k].fd = fd
    <3>1. PICK k \in DOMAIN l : l[k].fd = fd
      BY <2>1
    <3>2. PICK j \in DOMAIN m : m[j] = l[k]
      BY <1>5, <1>11, <3>1
    <3>3. PidEn(m, m[j].fd) = m[j].pid /\ PidEn(l, l[k].fd) = l[k].pid
      BY <1>2, <1>7, PidEnUnico
    <3>. QED
      BY <3>1, <3>2, <3>3
  <2>2. CASE \A k \in DOMAIN l : l[k].fd # fd
    <3>1. \A j \in DOMAIN m : m[j].fd # fd
      BY <1>8, <2>2
    <3>. QED
      BY <1>2, <1>7, <2>2, <3>1, PidEnUnico
  <2>. QED
    BY <2>1, <2>2
<1>. QED
  BY <1>2, <1>7, <1>8, <1>9, <1>10, <1>11 DEF m

-----------------------------------------------------------------------------
\* Connections.

\* More clients have had their PID.
LEMMA MasContados ==
  ASSUME NEW A, NEW B, A \subseteq B, B \subseteq Clientes
  PROVE  /\ Cardinality(A) \in Nat /\ Cardinality(B) \in Nat /\ Cardinality(Clientes) \in Nat
         /\ Cardinality(A) <= Cardinality(B) /\ Cardinality(B) <= Cardinality(Clientes)
         /\ \A x \in B \ A : Cardinality(A) + 1 <= Cardinality(B)
<1>1. IsFiniteSet(Clientes) /\ IsFiniteSet(A) /\ IsFiniteSet(B)
  BY ClientesAssumption, FS_Subset
<1>2. /\ Cardinality(A) \in Nat /\ Cardinality(B) \in Nat /\ Cardinality(Clientes) \in Nat
      /\ Cardinality(A) <= Cardinality(B) /\ Cardinality(B) <= Cardinality(Clientes)
  BY <1>1, FS_Subset, FS_CardinalityType
<1>3. ASSUME NEW x \in B \ A  PROVE Cardinality(A) + 1 <= Cardinality(B)
  <2>1. Cardinality(A \union {x}) = Cardinality(A) + 1 /\ A \union {x} \subseteq B
    BY <1>1, <1>3, FS_AddElement
  <2>. QED
    BY <1>1, <2>1, FS_Subset
<1>. QED
  BY <1>2, <1>3

\* The PID of a client, from the configuration, the records and the client alone.
Su(k, l, x) == IF k.kernel THEN x.pid ELSE PidEn(l, x.fd)

\* PidDe is Su of the current state ...
LEMMA SuPid == \A c : PidDe(c) = Su(conf, pidsCliente, cliente[c])
BY DEF PidDe, PidPorConexion, Su, PidEn

\* ... and, primed, of the next.
LEMMA SuPidDespues == \A c \in Clientes : PidDe(c)' = Su(conf', pidsCliente', cliente'[c])
BY DEF PidDe, PidPorConexion, Su, PidEn

\* Whose PID is whose.
Duenos ==
    /\ \A c \in Clientes :
         PidDe(c) = IF conf.kernel THEN cliente[c].pid ELSE PidEn(pidsCliente, cliente[c].fd)
    /\ \A c \in Clientes : Vivo(c) =>
         \/ PidDe(c) = SinPid /\ ~conf.kernel
         \/ PidDe(c) \in Nat /\ PidDe(c) < pidGlobal /\ PidDe(c) \in Pids /\ PidDe(c) # SinPid
    /\ \A c, e \in Clientes : Vivo(c) /\ Vivo(e) /\ c # e /\ PidDe(c) # SinPid => PidDe(c) # PidDe(e)
    /\ pidGlobal \in 0 .. Cardinality(Clientes) /\ Cardinality(Clientes) \in Nat
    /\ \A c \in Clientes : ~Contado(c) => pidGlobal \in Pids /\ pidGlobal + 1 <= Cardinality(Clientes)

\* The connections settle that.
LEMMA DeQuien ==
  ASSUME Conectados
  PROVE  Duenos
<1>1. TiposOK /\ ConKernelOK /\ SinKernelOK /\ PidsAlcanzan
  BY DEF Conectados
<1>2. pidGlobal \in Nat /\ pidsCliente \in Seq(Registros)
  BY <1>1 DEF TiposOK
<1>3. \A c \in Clientes : PidDe(c) = IF conf.kernel THEN cliente[c].pid ELSE PidEn(pidsCliente, cliente[c].fd)
  BY DEF PidDe, PidPorConexion, PidEn
<1>. DEFINE Q == {c \in Clientes : Contado(c)}
<1>4. pidGlobal <= Cardinality(Q) /\ Q \subseteq Clientes
  BY <1>1 DEF PidsAlcanzan
<1>. HIDE DEF Q
<1>5. pidGlobal \in 0 .. Cardinality(Clientes) /\ Cardinality(Clientes) \in Nat
  BY <1>2, <1>4, MasContados
<1>6. ASSUME NEW c \in Clientes, ~Contado(c)
      PROVE  pidGlobal \in Pids /\ pidGlobal + 1 <= Cardinality(Clientes)
  <2>1. c \in Clientes \ Q
    BY <1>6 DEF Q
  <2>2. Cardinality(Q) + 1 <= Cardinality(Clientes) /\ Cardinality(Q) \in Nat
    BY <1>4, <2>1, MasContados
  <2>3. pidGlobal + 1 <= Cardinality(Clientes)
    BY <1>2, <1>4, <1>5, <2>2
  <2>. QED
    BY <1>2, <1>5, <2>3 DEF Pids
<1>7. CASE conf.kernel
  <2>1. /\ \A c \in Clientes : Vivo(c) => cliente[c].pid \in 0 .. pidGlobal - 1
        /\ \A c, e \in Clientes : Vivo(c) /\ Vivo(e) /\ c # e => cliente[c].pid # cliente[e].pid
    BY <1>1, <1>7 DEF ConKernelOK
  <2>2. \A n \in 0 .. pidGlobal - 1 : n \in Nat /\ n < pidGlobal /\ n \in Pids /\ n # SinPid
    BY <1>2, <1>5 DEF Pids, SinPid
  <2>. QED
    BY <1>3, <1>5, <1>6, <1>7, <2>1, <2>2 DEF Duenos
<1>8. CASE ~conf.kernel
  <2>1. /\ \A c, e \in Clientes : Vivo(c) /\ Vivo(e) /\ c # e => cliente[c].fd # cliente[e].fd
        /\ \A i \in DOMAIN pidsCliente : pidsCliente[i].pid < pidGlobal
        /\ Unicos(pidsCliente)
    BY <1>1, <1>8 DEF SinKernelOK
  <2>2. \A i \in DOMAIN pidsCliente : pidsCliente[i].pid \in Pids
    <3>1. \A i \in DOMAIN pidsCliente : pidsCliente[i] \in Registros
      BY <1>2, ElementOfSeq, LenProperties
    <3>. QED
      BY <3>1 DEF Registros
  <2>3. \A p \in Pids : p \in Nat /\ p # SinPid
    BY <1>5 DEF Pids, SinPid
  <2>4. \A fd : \/ PidEn(pidsCliente, fd) = SinPid
                \/ \E i \in DOMAIN pidsCliente : PidEn(pidsCliente, fd) = pidsCliente[i].pid
    BY <1>2, PidEnBien
  <2>5. \A fd : \/ PidEn(pidsCliente, fd) = SinPid
                \/ /\ PidEn(pidsCliente, fd) \in Nat /\ PidEn(pidsCliente, fd) < pidGlobal
                   /\ PidEn(pidsCliente, fd) \in Pids /\ PidEn(pidsCliente, fd) # SinPid
    BY <2>1, <2>2, <2>3, <2>4
  <2>6. \A fd, fe : PidEn(pidsCliente, fd) # SinPid /\ fd # fe =>
          PidEn(pidsCliente, fd) # PidEn(pidsCliente, fe)
    BY <1>2, <2>1, PidEnUnico
  <2>. QED
    BY <1>3, <1>5, <1>6, <1>8, <2>1, <2>5, <2>6 DEF Duenos
<1>. QED
  BY <1>7, <1>8 DEF Duenos

\* The same of the next state.
LEMMA DeQuienDespues == Conectados' => Duenos'
BY DeQuien, PTL

\* A step in which the connections stay and one client goes on.
Sigue1(c, r) ==
    /\ r \in Estado /\ Vivo(c) /\ r.pc \notin {"afuera", "muerto"}
    /\ r.fd = cliente[c].fd /\ r.pid = cliente[c].pid
    /\ r.pc = "listo" => r.op = "nada"
    /\ r.op = "memalloc" => r.bloque.tam # 0
    /\ Contado(c) /\ ~conf.kernel =>
          \/ r.pc = "cerrado" \/ (r.pc = "respondido" /\ r.op = "close")
          \/ cliente[c].fd \in Registrados

\* Such a step keeps the connections and everybody's PID.
LEMMA SiguenConectados ==
  ASSUME Conectados, NEW c \in Clientes, NEW r, Sigue1(c, r),
         cliente' = [cliente EXCEPT ![c] = r], UNCHANGED <<conf, conexiones>>,
         tiene' \in [Clientes -> SUBSET Bloques], \A e \in Clientes \ {c} : tiene'[e] = tiene[e],
         heap' = [p \in Pids |-> heap'[p]], caido' \in BOOLEAN
  PROVE  Conectados' /\ \A e \in Clientes : PidDe(e)' = PidDe(e)
<1>1. TiposOK /\ ClientesOK /\ ConKernelOK /\ SinKernelOK /\ PidsAlcanzan
  BY DEF Conectados
<1>2. /\ conf' = conf /\ abiertos' = abiertos /\ pidsCliente' = pidsCliente /\ pidGlobal' = pidGlobal
      /\ muertos' = muertos
  BY DEF conexiones
<1>3. /\ cliente \in [Clientes -> Estado] /\ cliente'[c] = r
      /\ \A e \in Clientes \ {c} : cliente'[e] = cliente[e]
  BY <1>1 DEF TiposOK
<1>4. TiposOK'
  <2>1. cliente' \in [Clientes -> Estado]
    BY <1>3 DEF Sigue1
  <2>. QED
    BY <1>1, <1>2, <2>1 DEF TiposOK
<1>5. /\ \A e \in Clientes : cliente'[e].fd = cliente[e].fd /\ cliente'[e].pid = cliente[e].pid
      /\ \A e \in Clientes : Vivo(e)' <=> Vivo(e)
  BY <1>3 DEF Sigue1, Vivo
<1>6. ClientesOK'
  BY <1>1, <1>3, <1>5 DEF ClientesOK, Sigue1
<1>7. ConKernelOK'
  BY <1>1, <1>2, <1>5 DEF ConKernelOK
<1>8. Registrados' = Registrados
  BY <1>2 DEF Registrados
<1>9. SinKernelOK'
  <2>1. {e \in Clientes : Vivo(e)}' = {e \in Clientes : Vivo(e)}
    BY <1>5
  <2>2. {cliente[e].fd : e \in {x \in Clientes : Vivo(x)}}' =
          {cliente[e].fd : e \in {x \in Clientes : Vivo(x)}}
    BY <1>5, <2>1
  <2>. QED
    BY <1>1, <1>2, <1>5, <1>8, <2>2 DEF SinKernelOK
<1>10. PidsAlcanzan'
  <2>. DEFINE Q == {e \in Clientes : Contado(e)}
  <2>1. \A e \in Clientes : Contado(e) => Contado(e)'
    BY <1>2, <1>3, <1>5, <1>8 DEF Contado, Sigue1
  <2>2. Q \subseteq Q' /\ Q' \subseteq Clientes
    BY <2>1
  <2>3. pidGlobal <= Cardinality(Q) /\ pidGlobal \in Nat
    BY <1>1 DEF PidsAlcanzan, TiposOK
  <2>. HIDE DEF Q
  <2>4. pidGlobal <= Cardinality(Q')
    BY <2>2, <2>3, MasContados
  <2>. QED
    BY <1>2, <2>4 DEF PidsAlcanzan, Q
<1>11. \A e \in Clientes : PidDe(e)' = PidDe(e)
  <2>1. \A e \in Clientes : /\ PidDe(e) = Su(conf, pidsCliente, cliente[e])
                            /\ PidDe(e)' = Su(conf', pidsCliente', cliente'[e])
    BY SuPid, SuPidDespues
  <2>2. \A e \in Clientes : Su(conf, pidsCliente, cliente'[e]) = Su(conf, pidsCliente, cliente[e])
    BY <1>5 DEF Su
  <2>. QED
    BY <1>2, <2>1, <2>2
<1>. QED
  BY <1>4, <1>6, <1>7, <1>9, <1>10, <1>11 DEF Conectados

-----------------------------------------------------------------------------
\* The others.

\* A step of c leaves the rest of the clients as they are, and of the heaps it changes none
\* but that of c: then c is the only one to look at.
Ajeno(c) ==
    /\ \A e \in Clientes \ {c} :
          /\ cliente'[e] = cliente[e] /\ tiene'[e] = tiene[e]
          /\ Vivo(e) => PidDe(e)' = PidDe(e)
    /\ muertos \subseteq muertos'
    /\ pidGlobal <= pidGlobal'
    /\ \A p \in Pids : \/ heap'[p] = heap[p]
                       \/ HeapOK(heap'[p]) /\ Vivo(c)' /\ p = PidDe(c)' /\ PidDe(c)' # SinPid

\* After such a step only the blocks of c have to be looked at.
LEMMA OtrosSiguen ==
  ASSUME Servido, Conectados', NEW c \in Clientes, Ajeno(c), BloquesDe(c)'
  PROVE  Servido'
<1>1. Duenos /\ Duenos'
  BY DeQuien, DeQuienDespues DEF Servido
<1>2. pidGlobal \in Nat /\ pidGlobal' \in Nat /\ pidGlobal <= pidGlobal'
  BY <1>1 DEF Duenos, Ajeno
<1>3. ASSUME NEW p \in Pids  PROVE HeapOK(heap'[p]) /\ (p >= pidGlobal' => Vacio(heap'[p]))
  <2>1. HeapOK(heap[p]) /\ (p >= pidGlobal => Vacio(heap[p]))
    BY DEF Servido, HeapsOK
  <2>2. p \in Nat
    BY <1>1 DEF Pids, Duenos
  <2>3. CASE heap'[p] = heap[p]
    BY <1>2, <2>1, <2>2, <2>3
  <2>4. CASE HeapOK(heap'[p]) /\ Vivo(c)' /\ p = PidDe(c)' /\ PidDe(c)' # SinPid
    <3>1. p < pidGlobal'
      BY <1>1, <2>4 DEF Duenos
    <3>. QED
      BY <1>2, <2>2, <2>4, <3>1
  <2>. QED
    BY <2>3, <2>4 DEF Ajeno
<1>4. HeapsOK'
  BY <1>3 DEF HeapsOK
<1>5. ASSUME NEW e \in Clientes \ {c}  PROVE BloquesDe(e)'
  <2>1. /\ cliente'[e] = cliente[e] /\ tiene'[e] = tiene[e] /\ muertos \subseteq muertos'
        /\ Vivo(e) => PidDe(e)' = PidDe(e)
    BY DEF Ajeno
  <2>2. SUFFICES ASSUME Activo(e)', cliente'[e].fd \notin muertos'
                 PROVE  Corresponden(cliente'[e], tiene'[e], PidDe(e)', heap'[PidDe(e)'])
    BY DEF BloquesDe
  <2>3. Activo(e) /\ Vivo(e) /\ Vivo(e)' /\ cliente[e].fd \notin muertos
    BY <2>1, <2>2 DEF Activo, Vivo
  <2>4. PidDe(e)' = PidDe(e)
    BY <2>1, <2>3
  <2>5. Corresponden(cliente[e], tiene[e], PidDe(e), heap[PidDe(e)])
    BY <2>3 DEF Servido, BloquesOK, BloquesDe
  <2>6. CASE PidDe(e) = SinPid
    BY <2>1, <2>5, <2>4, <2>6 DEF Corresponden
  <2>7. CASE PidDe(e) # SinPid
    <3>1. PidDe(e) \in Pids
      BY <1>1, <2>3, <2>7 DEF Duenos
    <3>2. Vivo(c)' /\ PidDe(c)' # SinPid => PidDe(c)' # PidDe(e)'
      BY <1>1, <2>3 DEF Duenos
    <3>3. heap'[PidDe(e)] = heap[PidDe(e)]
      BY <2>4, <3>1, <3>2 DEF Ajeno
    <3>. QED
      BY <2>1, <2>5, <2>4, <3>3
  <2>. QED
    BY <2>6, <2>7
<1>6. BloquesOK'
  BY <1>5 DEF BloquesOK
<1>. QED
  BY <1>4, <1>6 DEF Servido

-----------------------------------------------------------------------------
\* Connections that come and go.

\* A client that is not connected leaves a descriptor for it.
LEMMA QuedaDescriptor ==
  ASSUME Conectados, ~conf.kernel, NEW c \in Clientes, ~Vivo(c)
  PROVE  \E fd \in Descriptores : fd = Min(Descriptores \ abiertos) /\ fd \notin abiertos
<1>. DEFINE V == {e \in Clientes : Vivo(e)}
            f == [e \in V |-> cliente[e].fd]
            n == Cardinality(Clientes)
<1>1. abiertos = {cliente[e].fd : e \in V}
  BY DEF Conectados, SinKernelOK
<1>2. IsFiniteSet(V) /\ V \subseteq Clientes \ {c} /\ IsFiniteSet(Clientes)
  BY ClientesAssumption, FS_Subset
<1>3. n \in Nat /\ IsFiniteSet(Clientes \ {c}) /\ Cardinality(Clientes \ {c}) = n - 1
  BY <1>2, FS_CardinalityType, FS_RemoveElement
<1>4. Cardinality(V) <= n - 1 /\ Cardinality(V) \in Nat
  BY <1>2, <1>3, FS_Subset, FS_CardinalityType
<1>5. f \in Surjection(V, abiertos)
  BY <1>1 DEF Surjection
<1>6. IsFiniteSet(abiertos) /\ Cardinality(abiertos) <= Cardinality(V)
  BY <1>2, <1>5, FS_Surjection
<1>7. Descriptores = 1 .. n /\ IsFiniteSet(1 .. n) /\ Cardinality(1 .. n) = n
  <2>1. 1 \in Int /\ n \in Int
    BY <1>3
  <2>2. IsFiniteSet(1 .. n) /\ Cardinality(1 .. n) = IF 1 > n THEN 0 ELSE n - 1 + 1
    BY <2>1, FS_Interval
  <2>. QED
    BY <1>3, <2>2 DEF Descriptores
<1>8. Descriptores \ abiertos # {}
  <2>1. SUFFICES ASSUME Descriptores \subseteq abiertos  PROVE FALSE
    OBVIOUS
  <2>2. Cardinality(Descriptores) <= Cardinality(abiertos)
    BY <1>6, <2>1, FS_Subset
  <2>3. Cardinality(abiertos) \in Nat
    BY <1>6, FS_CardinalityType
  <2>. HIDE DEF n, V
  <2>. QED
    BY <1>3, <1>4, <1>6, <1>7, <2>2, <2>3
<1>9. Descriptores \ abiertos \subseteq Nat
  BY <1>3, <1>7
<1>. QED
  BY <1>8, <1>9, MinimoExiste

\* A connection that memoria has no record of: it is counted when it gets its PID.
LEMMA ConectaConectados ==
  ASSUME Servido, NEW c \in Clientes, Conectar(c)
  PROVE  /\ Conectados'
         /\ \A e \in Clientes \ {c} : cliente'[e] = cliente[e] /\ PidDe(e)' = PidDe(e)
         /\ cliente'[c].op = "nada" /\ cliente'[c].pc = "listo" /\ tiene'[c] = {}
         /\ \/ cliente'[c].fd \in muertos
            \/ PidDe(c)' = SinPid
            \/ PidDe(c)' = pidGlobal
<1>1. TiposOK /\ ClientesOK /\ ConKernelOK /\ SinKernelOK /\ PidsAlcanzan /\ Conectados
  BY DEF Servido, Conectados
<1>2. /\ conf' = conf /\ tiene' = tiene /\ pidsCliente' = pidsCliente /\ muertos' = muertos
      /\ heap' = heap /\ caido' = caido /\ ~Vivo(c) /\ cliente[c].pc = "afuera" /\ c \in conf.clientes
  BY DEF Conectar, Vivo
<1>3. cliente \in [Clientes -> Estado] /\ cliente[c] \in Estado /\ tiene[c] = {} /\ cliente[c].op = "nada"
  BY <1>1, <1>2 DEF TiposOK, ClientesOK
<1>. DEFINE n == Cardinality(Clientes)
<1>4. ~Contado(c) => pidGlobal \in Pids /\ pidGlobal + 1 <= n
  BY <1>1, DeQuien DEF Duenos
<1>5. pidGlobal \in Nat /\ n \in Nat
  BY <1>1, DeQuien DEF Duenos
<1>6. CASE conf.kernel
  <2>1. /\ cliente' = [cliente EXCEPT ![c].pc = "listo", ![c].pid = pidGlobal]
        /\ pidGlobal' = pidGlobal + 1 /\ abiertos' = abiertos
    BY <1>6 DEF Conectar
  <2>2. /\ cliente'[c] = [cliente[c] EXCEPT !.pc = "listo", !.pid = pidGlobal]
        /\ \A e \in Clientes \ {c} : cliente'[e] = cliente[e]
    BY <1>3, <2>1
  <2>3. /\ cliente'[c].pc = "listo" /\ cliente'[c].pid = pidGlobal
        /\ cliente'[c].fd = cliente[c].fd /\ cliente'[c].op = "nada"
    BY <1>3, <2>2 DEF Estado
  <2>4. ~Contado(c) /\ pidGlobal \in Pids
    BY <1>2, <1>4, <1>6 DEF Contado
  <2>5. TiposOK'
    <3>1. cliente'[c] \in Estado
      BY <1>3, <2>2, <2>4 DEF Estado, Estados
    <3>2. cliente' \in [Clientes -> Estado]
      BY <1>3, <2>1, <2>2, <3>1
    <3>. QED
      BY <1>1, <1>2, <1>5, <2>1, <3>2 DEF TiposOK
  <2>6. /\ Vivo(c)' /\ \A e \in Clientes \ {c} : Vivo(e)' <=> Vivo(e)
    BY <2>2, <2>3 DEF Vivo
  <2>7. ClientesOK'
    <3>1. ASSUME NEW e \in Clientes
          PROVE  /\ (~Vivo(e) \/ cliente[e].pc = "listo" => cliente[e].op = "nada")'
                 /\ (~Vivo(e) => tiene[e] = {})'
                 /\ (cliente[e].op = "memalloc" => cliente[e].bloque.tam # 0)'
      <4>1. CASE e = c
        BY <2>3, <2>6, <4>1
      <4>2. CASE e # c
        BY <1>1, <1>2, <2>2, <2>6, <4>2 DEF ClientesOK
      <4>. QED
        BY <4>1, <4>2
    <3>. QED
      BY <3>1 DEF ClientesOK
  <2>8. ConKernelOK'
    <3>1. \A e \in Clientes \ {c} : Vivo(e) => cliente[e].pid \in 0 .. pidGlobal - 1
      BY <1>1, <1>6 DEF ConKernelOK
    <3>2. \A e \in Clientes : Vivo(e)' => cliente'[e].pid \in 0 .. pidGlobal' - 1
      <4>1. pidGlobal \in 0 .. pidGlobal' - 1 /\ 0 .. pidGlobal - 1 \subseteq 0 .. pidGlobal' - 1
        BY <1>5, <2>1
      <4>2. \A e \in Clientes \ {c} : Vivo(e)' => cliente'[e].pid \in 0 .. pidGlobal' - 1
        BY <2>2, <2>6, <3>1, <4>1
      <4>. QED
        BY <2>3, <4>1, <4>2
    <3>3. \A e \in Clientes \ {c} : Vivo(e)' => cliente'[e].pid # pidGlobal
      BY <1>5, <2>2, <2>6, <3>1
    <3>4. \A d, e \in Clientes \ {c} : Vivo(d)' /\ Vivo(e)' /\ d # e => cliente'[d].pid # cliente'[e].pid
      BY <1>1, <1>6, <2>2, <2>6 DEF ConKernelOK
    <3>5. \A d, e \in Clientes : Vivo(d)' /\ Vivo(e)' /\ d # e => cliente'[d].pid # cliente'[e].pid
      BY <2>3, <3>3, <3>4
    <3>6. pidsCliente' = <<>> /\ muertos' = {}
      BY <1>1, <1>2, <1>6 DEF ConKernelOK
    <3>. QED
      BY <3>2, <3>5, <3>6 DEF ConKernelOK
  <2>9. SinKernelOK'
    BY <1>2, <1>6 DEF SinKernelOK
  <2>10. PidsAlcanzan'
    <3>. DEFINE Q == {e \in Clientes : Contado(e)}
                R == {e \in Clientes : Contado(e)'}
    <3>1. \A e \in Clientes : /\ Contado(e) <=> Vivo(e)
                              /\ Contado(e)' <=> Vivo(e)'
      BY <1>2, <1>6 DEF Contado
    <3>2. Q \subseteq R /\ R \subseteq Clientes /\ c \in R \ Q
      BY <1>2, <2>6, <3>1
    <3>3. pidGlobal <= Cardinality(Q)
      BY <1>1 DEF PidsAlcanzan
    <3>. HIDE DEF Q, R
    <3>4. Cardinality(Q) \in Nat /\ Cardinality(R) \in Nat /\ Cardinality(Q) + 1 <= Cardinality(R)
      BY <3>2, MasContados
    <3>5. pidGlobal' <= Cardinality(R)
      BY <1>5, <2>1, <3>3, <3>4
    <3>. QED
      BY <3>5 DEF PidsAlcanzan, R
  <2>11. \A e \in Clientes : PidDe(e)' = cliente'[e].pid /\ PidDe(e) = cliente[e].pid
    BY <1>2, <1>6 DEF PidDe
  <2>12. \A e \in Clientes \ {c} : cliente'[e] = cliente[e] /\ PidDe(e)' = PidDe(e)
    BY <2>2, <2>11
  <2>13. PidDe(c)' = pidGlobal /\ cliente'[c].op = "nada" /\ cliente'[c].pc = "listo" /\ tiene'[c] = {}
    BY <1>2, <1>3, <2>3, <2>11
  <2>14. Conectados'
    BY <2>5, <2>7, <2>8, <2>9, <2>10 DEF Conectados
  <2>. QED
    BY <2>12, <2>13, <2>14
<1>7. CASE ~conf.kernel
  <2>. DEFINE fd == Min(Descriptores \ abiertos)
  <2>1. fd \in Descriptores /\ fd \notin abiertos
    BY <1>1, <1>2, <1>7, QuedaDescriptor
  <2>2. /\ cliente' = [cliente EXCEPT ![c].pc = "listo", ![c].fd = fd]
        /\ abiertos' = abiertos \union {fd} /\ pidGlobal' = pidGlobal
    BY <1>7 DEF Conectar
  <2>. HIDE DEF fd
  <2>3. /\ cliente'[c] = [cliente[c] EXCEPT !.pc = "listo", !.fd = fd]
        /\ \A e \in Clientes \ {c} : cliente'[e] = cliente[e]
    BY <1>3, <2>2
  <2>4. /\ cliente'[c].pc = "listo" /\ cliente'[c].fd = fd
        /\ cliente'[c].pid = cliente[c].pid /\ cliente'[c].op = "nada"
    BY <1>3, <2>3 DEF Estado
  <2>5. TiposOK'
    <3>1. cliente'[c] \in Estado
      BY <1>3, <2>1, <2>3 DEF Estado, Estados
    <3>2. cliente' \in [Clientes -> Estado]
      BY <1>3, <2>2, <2>3, <3>1
    <3>. QED
      BY <1>1, <1>2, <2>1, <2>2, <3>2 DEF TiposOK
  <2>6. /\ Vivo(c)' /\ \A e \in Clientes \ {c} : Vivo(e)' <=> Vivo(e)
    BY <2>3, <2>4 DEF Vivo
  <2>7. ClientesOK'
    <3>1. ASSUME NEW e \in Clientes
          PROVE  /\ (~Vivo(e) \/ cliente[e].pc = "listo" => cliente[e].op = "nada")'
                 /\ (~Vivo(e) => tiene[e] = {})'
                 /\ (cliente[e].op = "memalloc" => cliente[e].bloque.tam # 0)'
      <4>1. CASE e = c
        BY <2>4, <2>6, <4>1
      <4>2. CASE e # c
        BY <1>1, <1>2, <2>3, <2>6, <4>2 DEF ClientesOK
      <4>. QED
        BY <4>1, <4>2
    <3>. QED
      BY <3>1 DEF ClientesOK
  <2>8. ConKernelOK'
    BY <1>2, <1>7 DEF ConKernelOK
  <2>9. Registrados' = Registrados /\ Registrados \subseteq abiertos \union muertos
    BY <1>1, <1>2, <1>7 DEF Registrados, SinKernelOK
  <2>10. \A e \in Clientes \ {c} : Vivo(e) => cliente[e].fd \in abiertos /\ cliente[e].fd # fd
    BY <1>1, <1>7, <2>1 DEF SinKernelOK
  <2>11. SinKernelOK'
    <3>1. \A e \in Clientes : cliente'[e].pid = SinPid
      BY <1>1, <1>7, <2>3, <2>4 DEF SinKernelOK
    <3>2. abiertos' = {cliente'[e].fd : e \in {x \in Clientes : Vivo(x)'}}
      <4>1. abiertos = {cliente[e].fd : e \in {x \in Clientes : Vivo(x)}}
        BY <1>1, <1>7 DEF SinKernelOK
      <4>2. {x \in Clientes : Vivo(x)'} = {x \in Clientes : Vivo(x)} \union {c}
        BY <2>6
      <4>. DEFINE V == {x \in Clientes : Vivo(x)}
      <4>3. c \notin V /\ V \subseteq Clientes
        BY <1>2
      <4>4. \A e \in V : cliente'[e].fd = cliente[e].fd
        BY <2>3, <4>3
      <4>. HIDE DEF V
      <4>5. {cliente'[e].fd : e \in V \union {c}} = {cliente[e].fd : e \in V} \union {fd}
        BY <2>4, <4>4
      <4>. QED
        BY <2>2, <4>1, <4>2, <4>5 DEF V
    <3>3. \A d, e \in Clientes : Vivo(d)' /\ Vivo(e)' /\ d # e => cliente'[d].fd # cliente'[e].fd
      <4>1. \A d, e \in Clientes \ {c} : Vivo(d)' /\ Vivo(e)' /\ d # e => cliente'[d].fd # cliente'[e].fd
        BY <1>1, <1>7, <2>3, <2>6 DEF SinKernelOK
      <4>2. \A e \in Clientes \ {c} : Vivo(e)' => cliente'[e].fd # fd
        BY <2>3, <2>6, <2>10
      <4>. QED
        BY <2>4, <4>1, <4>2
    <3>4. Registrados' \subseteq abiertos' \union muertos'
      BY <1>2, <2>2, <2>9
    <3>5. (\A i \in DOMAIN pidsCliente' : pidsCliente'[i].pid < pidGlobal') /\ Unicos(pidsCliente')
      BY <1>1, <1>2, <1>7, <2>2 DEF SinKernelOK
    <3>. QED
      BY <3>1, <3>2, <3>3, <3>4, <3>5 DEF SinKernelOK
  <2>12. PidsAlcanzan'
    <3>. DEFINE Q == {e \in Clientes : Contado(e)}
                R == {e \in Clientes : Contado(e)'}
    <3>1. ~Contado(c)
      BY <1>2, <1>7 DEF Contado
    <3>2. \A e \in Clientes \ {c} : Contado(e) => Contado(e)'
      BY <1>2, <1>7, <2>3, <2>6, <2>9 DEF Contado
    <3>3. Q \subseteq R /\ R \subseteq Clientes
      BY <3>1, <3>2
    <3>4. pidGlobal <= Cardinality(Q)
      BY <1>1 DEF PidsAlcanzan
    <3>. HIDE DEF Q, R
    <3>5. Cardinality(Q) \in Nat /\ Cardinality(R) \in Nat /\ Cardinality(Q) <= Cardinality(R)
      BY <3>3, MasContados
    <3>6. pidGlobal' <= Cardinality(R)
      BY <1>5, <2>2, <3>4, <3>5
    <3>. QED
      BY <3>6 DEF PidsAlcanzan, R
  <2>13. \A e \in Clientes \ {c} : PidDe(e)' = PidDe(e)
    <3>1. \A e \in Clientes : /\ PidDe(e) = Su(conf, pidsCliente, cliente[e])
                              /\ PidDe(e)' = Su(conf', pidsCliente', cliente'[e])
      BY SuPid, SuPidDespues
    <3>. QED
      BY <1>2, <2>3, <3>1
  <2>14. cliente'[c].fd \in muertos \/ PidDe(c)' = SinPid
    <3>1. SUFFICES ASSUME fd \notin muertos  PROVE PidDe(c)' = SinPid
      BY <2>4
    <3>2. fd \notin Registrados
      BY <2>1, <2>9, <3>1
    <3>3. \A i \in DOMAIN pidsCliente : pidsCliente[i].fd # fd
      BY <3>2 DEF Registrados
    <3>4. PidEn(pidsCliente, fd) = SinPid
      BY <3>3 DEF PidEn
    <3>5. PidDe(c)' = Su(conf', pidsCliente', cliente'[c])
      BY SuPidDespues
    <3>. QED
      BY <1>2, <1>7, <2>4, <3>4, <3>5 DEF Su
  <2>. QED
    BY <1>2, <1>3, <2>3, <2>4, <2>5, <2>7, <2>8, <2>11, <2>12, <2>13, <2>14 DEF Conectados
<1>. QED
  BY <1>6, <1>7

\* A client that ends leaves its descriptor among those of the dead.
LEMMA MuereConectados ==
  ASSUME Conectados, NEW c \in Clientes, Morir(c)
  PROVE  /\ Conectados' /\ ~Activo(c)'
         /\ \A e \in Clientes \ {c} : cliente'[e] = cliente[e] /\ tiene'[e] = tiene[e] /\ PidDe(e)' = PidDe(e)
<1>1. TiposOK /\ ClientesOK /\ ConKernelOK /\ SinKernelOK /\ PidsAlcanzan
  BY DEF Conectados
<1>2. /\ conf' = conf /\ pidsCliente' = pidsCliente /\ pidGlobal' = pidGlobal /\ heap' = heap
      /\ caido' = caido
      /\ ~conf.kernel /\ cliente[c].pc = "listo" /\ Vivo(c)
      /\ cliente' = [cliente EXCEPT ![c] = [Afuera EXCEPT !.pc = "muerto"]]
      /\ tiene' = [tiene EXCEPT ![c] = {}]
  BY DEF Morir, Vivo
<1>. DEFINE fd == cliente[c].fd
<1>3. abiertos' = abiertos \ {fd} /\ muertos' = muertos \union {fd}
  BY DEF Morir
<1>4. fd \in abiertos /\ fd \in Descriptores
  BY <1>1, <1>2 DEF SinKernelOK, TiposOK
<1>. HIDE DEF fd
<1>5. cliente \in [Clientes -> Estado] /\ tiene \in [Clientes -> SUBSET Bloques]
  BY <1>1 DEF TiposOK
<1>6. /\ cliente'[c] = [Afuera EXCEPT !.pc = "muerto"] /\ tiene'[c] = {}
      /\ \A e \in Clientes \ {c} : cliente'[e] = cliente[e] /\ tiene'[e] = tiene[e]
  BY <1>2, <1>5
<1>7. cliente'[c].pc = "muerto" /\ cliente'[c].pid = SinPid /\ cliente'[c].op = "nada"
  BY <1>6 DEF Afuera
<1>8. ~Vivo(c)' /\ ~Activo(c)' /\ \A e \in Clientes \ {c} : Vivo(e)' <=> Vivo(e)
  BY <1>6, <1>7 DEF Vivo, Activo
<1>9. TiposOK'
  <2>1. cliente'[c] \in Estado
    <3>1. SinBloque \in Bloques /\ 0 \in Respuestas
      <4>1. TamPagina \in Nat /\ MaxPaginas \in Nat
        BY TamaniosAssumption
      <4>2. TamPagina * MaxPaginas \in Nat
        BY <4>1
      <4>. QED
        BY <4>2 DEF SinBloque, Bloques, Respuestas
    <3>. QED
      BY <1>6, <3>1 DEF Afuera, Estado, Estados
  <2>2. cliente' \in [Clientes -> Estado] /\ tiene' \in [Clientes -> SUBSET Bloques]
    BY <1>2, <1>5, <1>6, <2>1
  <2>. QED
    BY <1>1, <1>2, <1>3, <1>4, <2>2 DEF TiposOK
<1>10. ClientesOK'
  BY <1>1, <1>6, <1>7, <1>8 DEF ClientesOK
<1>11. ConKernelOK'
  BY <1>2 DEF ConKernelOK
<1>12. Registrados' = Registrados /\ Registrados \subseteq abiertos \union muertos
  BY <1>1, <1>2 DEF Registrados, SinKernelOK
<1>13. SinKernelOK'
  <2>1. \A e \in Clientes : cliente'[e].pid = SinPid
    BY <1>1, <1>2, <1>6, <1>7 DEF SinKernelOK
  <2>2. abiertos' = {cliente'[e].fd : e \in {x \in Clientes : Vivo(x)'}}
    <3>. DEFINE V == {x \in Clientes : Vivo(x)}
    <3>1. abiertos = {cliente[e].fd : e \in V}
      BY <1>1, <1>2 DEF SinKernelOK
    <3>2. {x \in Clientes : Vivo(x)'} = V \ {c}
      BY <1>8
    <3>3. c \in V /\ V \subseteq Clientes
      BY <1>2
    <3>4. \A e \in V \ {c} : cliente'[e].fd = cliente[e].fd /\ cliente[e].fd # fd
      BY <1>1, <1>2, <1>6 DEF SinKernelOK, fd
    <3>. HIDE DEF V
    <3>5. {cliente'[e].fd : e \in V \ {c}} = {cliente[e].fd : e \in V} \ {fd}
      BY <3>3, <3>4 DEF fd
    <3>. QED
      BY <1>3, <3>1, <3>2, <3>5
  <2>3. \A d, e \in Clientes : Vivo(d)' /\ Vivo(e)' /\ d # e => cliente'[d].fd # cliente'[e].fd
    BY <1>1, <1>2, <1>6, <1>8 DEF SinKernelOK
  <2>4. Registrados' \subseteq abiertos' \union muertos'
    BY <1>3, <1>12
  <2>5. (\A i \in DOMAIN pidsCliente' : pidsCliente'[i].pid < pidGlobal') /\ Unicos(pidsCliente')
    BY <1>1, <1>2 DEF SinKernelOK
  <2>. QED
    BY <2>1, <2>2, <2>3, <2>4, <2>5 DEF SinKernelOK
<1>14. PidsAlcanzan'
  <2>. DEFINE Q == {e \in Clientes : Contado(e)}
              R == {e \in Clientes : Contado(e)'}
  <2>1. Contado(c)'
    BY <1>2, <1>7 DEF Contado
  <2>2. \A e \in Clientes \ {c} : Contado(e) => Contado(e)'
    BY <1>2, <1>6, <1>8, <1>12 DEF Contado
  <2>3. Q \subseteq R /\ R \subseteq Clientes
    BY <2>1, <2>2
  <2>4. pidGlobal <= Cardinality(Q) /\ pidGlobal \in Nat
    BY <1>1 DEF PidsAlcanzan, TiposOK
  <2>. HIDE DEF Q, R
  <2>5. pidGlobal' <= Cardinality(R)
    BY <1>2, <2>3, <2>4, MasContados
  <2>. QED
    BY <2>5 DEF PidsAlcanzan, R
<1>15. \A e \in Clientes \ {c} : PidDe(e)' = PidDe(e)
  <2>1. \A e \in Clientes : /\ PidDe(e) = Su(conf, pidsCliente, cliente[e])
                            /\ PidDe(e)' = Su(conf', pidsCliente', cliente'[e])
    BY SuPid, SuPidDespues
  <2>. QED
    BY <1>2, <1>6, <2>1
<1>. QED
  BY <1>6, <1>8, <1>9, <1>10, <1>11, <1>13, <1>14, <1>15 DEF Conectados

\* The records of memoria change to l and the next PID to n, with the answer r to c.
Registra(c, r, l, n) ==
    /\ Vivo(c) /\ ~conf.kernel
    /\ r \in Estado /\ r.pc = "respondido" /\ r.op \in {"memalloc", "close"}
    /\ r.fd = cliente[c].fd /\ r.pid = cliente[c].pid
    /\ r.op = "memalloc" => r.bloque.tam # 0
    /\ l \in Seq(Registros) /\ Unicos(l) /\ n \in Nat
    /\ \A i \in DOMAIN l : l[i].pid < n
    /\ {l[i].fd : i \in DOMAIN l} \subseteq Registrados \union {r.fd}
    /\ Registrados \ {r.fd} \subseteq {l[i].fd : i \in DOMAIN l}
    /\ r.op = "memalloc" => r.fd \in {l[i].fd : i \in DOMAIN l}
    /\ n = pidGlobal \/ (n = pidGlobal + 1 /\ ~Contado(c))
    /\ \A fd : fd # r.fd => PidEn(l, fd) = PidEn(pidsCliente, fd)

\* Such a step keeps the connections; c has the PID of its record and the others theirs.
LEMMA RegistraConectados ==
  ASSUME Conectados, NEW c \in Clientes, NEW r, NEW l, NEW n, Registra(c, r, l, n),
         cliente' = [cliente EXCEPT ![c] = r], pidsCliente' = l, pidGlobal' = n,
         UNCHANGED <<conf, tiene, abiertos, muertos, caido>>, heap' = [p \in Pids |-> heap'[p]]
  PROVE  /\ Conectados' /\ PidDe(c)' = PidEn(l, r.fd)
         /\ \A e \in Clientes \ {c} : cliente'[e] = cliente[e] /\ (Vivo(e) => PidDe(e)' = PidDe(e))
<1>1. TiposOK /\ ClientesOK /\ ConKernelOK /\ SinKernelOK /\ PidsAlcanzan
  BY DEF Conectados
<1>2. cliente \in [Clientes -> Estado] /\ pidGlobal \in Nat
  BY <1>1 DEF TiposOK
<1>3. cliente'[c] = r /\ \A e \in Clientes \ {c} : cliente'[e] = cliente[e]
  BY <1>2
<1>4. /\ Vivo(c) /\ ~conf.kernel /\ conf' = conf
      /\ r \in Estado /\ r.pc = "respondido" /\ r.op \in {"memalloc", "close"}
      /\ r.fd = cliente[c].fd /\ r.pid = cliente[c].pid
      /\ r.op = "memalloc" => r.bloque.tam # 0
  BY DEF Registra
<1>5. \A e \in Clientes :
        cliente'[e].fd = cliente[e].fd /\ cliente'[e].pid = cliente[e].pid /\ (Vivo(e)' <=> Vivo(e))
  BY <1>3, <1>4 DEF Vivo
<1>6. /\ Registrados' \subseteq Registrados \union {r.fd} /\ Registrados \ {r.fd} \subseteq Registrados'
      /\ r.op = "memalloc" => r.fd \in Registrados'
  BY DEF Registra, Registrados
<1>7. TiposOK'
  <2>1. cliente' \in [Clientes -> Estado]
    BY <1>2, <1>4
  <2>2. l \in Seq(Registros) /\ n \in Nat
    BY DEF Registra
  <2>. QED
    BY <1>1, <2>1, <2>2 DEF TiposOK
<1>8. ClientesOK'
  BY <1>1, <1>3, <1>4, <1>5 DEF ClientesOK
<1>9. ConKernelOK'
  BY <1>4 DEF ConKernelOK
<1>10. /\ \A d, e \in Clientes : Vivo(d) /\ Vivo(e) /\ d # e => cliente[d].fd # cliente[e].fd
       /\ r.fd \in abiertos /\ Registrados \subseteq abiertos \union muertos
  BY <1>1, <1>4 DEF SinKernelOK
<1>11. SinKernelOK'
  <2>1. \A e \in Clientes : cliente'[e].pid = SinPid
    BY <1>1, <1>4, <1>5 DEF SinKernelOK
  <2>2. abiertos' = {cliente'[e].fd : e \in {x \in Clientes : Vivo(x)'}}
    <3>1. {x \in Clientes : Vivo(x)'} = {x \in Clientes : Vivo(x)}
      BY <1>5
    <3>2. abiertos = {cliente[e].fd : e \in {x \in Clientes : Vivo(x)}}
      BY <1>1, <1>4 DEF SinKernelOK
    <3>. QED
      BY <1>5, <3>1, <3>2
  <2>3. \A d, e \in Clientes : Vivo(d)' /\ Vivo(e)' /\ d # e => cliente'[d].fd # cliente'[e].fd
    BY <1>5, <1>10
  <2>4. Registrados' \subseteq abiertos' \union muertos'
    BY <1>6, <1>10
  <2>5. (\A i \in DOMAIN l : l[i].pid < n) /\ Unicos(l)
    BY DEF Registra
  <2>. QED
    BY <2>1, <2>2, <2>3, <2>4, <2>5 DEF SinKernelOK
<1>12. PidsAlcanzan'
  <2>. DEFINE Q == {e \in Clientes : Contado(e)}
              R == {e \in Clientes : Contado(e)'}
  <2>1. Contado(c)'
    BY <1>3, <1>4, <1>5, <1>6 DEF Contado
  <2>2. ASSUME NEW e \in Clientes \ {c}, Contado(e)  PROVE Contado(e)'
    <3>1. Vivo(e) => cliente[e].fd # r.fd
      BY <1>4, <1>10
    <3>. QED
      BY <1>3, <1>4, <1>5, <1>6, <2>2, <3>1 DEF Contado
  <2>3. Q \subseteq R /\ R \subseteq Clientes /\ c \in R
    BY <2>1, <2>2
  <2>4. pidGlobal <= Cardinality(Q)
    BY <1>1 DEF PidsAlcanzan
  <2>5. n = pidGlobal \/ (n = pidGlobal + 1 /\ c \notin Q)
    BY DEF Registra
  <2>. HIDE DEF Q, R
  <2>6. /\ Cardinality(Q) \in Nat /\ Cardinality(R) \in Nat /\ Cardinality(Q) <= Cardinality(R)
        /\ c \notin Q => Cardinality(Q) + 1 <= Cardinality(R)
    BY <2>3, MasContados
  <2>7. n <= Cardinality(R)
    BY <1>2, <2>4, <2>5, <2>6
  <2>. QED
    BY <2>7 DEF PidsAlcanzan, R
<1>13. /\ PidDe(c)' = PidEn(l, r.fd)
       /\ \A e \in Clientes \ {c} : Vivo(e) => PidDe(e)' = PidDe(e)
  <2>1. \A e \in Clientes : /\ PidDe(e) = Su(conf, pidsCliente, cliente[e])
                            /\ PidDe(e)' = Su(conf', pidsCliente', cliente'[e])
    BY SuPid, SuPidDespues
  <2>2. \A e \in Clientes : /\ PidDe(e) = PidEn(pidsCliente, cliente[e].fd)
                            /\ PidDe(e)' = PidEn(l, cliente[e].fd)
    BY <1>4, <1>5, <2>1 DEF Su
  <2>3. \A e \in Clientes \ {c} : Vivo(e) => cliente[e].fd # r.fd
    BY <1>4, <1>10
  <2>4. \A fd : fd # r.fd => PidEn(l, fd) = PidEn(pidsCliente, fd)
    BY DEF Registra
  <2>. QED
    BY <1>4, <2>2, <2>3, <2>4
<1>. QED
  BY <1>3, <1>7, <1>8, <1>9, <1>11, <1>12, <1>13 DEF Conectados

-----------------------------------------------------------------------------
\* The blocks of a client and the used blocks of its heap.

\* Without blocks, a heap without pages.
LEMMA IgualaVacio == Iguala({}, SinHeap)
BY DEF Iguala, SinHeap, EnUso

\* One block more, after memalloc.
LEMMA IgualaAgrega ==
  ASSUME NEW h, HeapOK(h), NEW B, Iguala(B, h), NEW k, NEW a \in Nat, NEW size, Agrega(h, k, a, size), Sano(k)
  PROVE  Iguala(B \union {[dir |-> a + TamHeader, tam |-> size]}, k)
<1>. DEFINE nuevo == [dir |-> a + TamHeader, tam |-> size]
            C == B \union {nuevo}
<1>1. /\ {b.dir : b \in B} = {d + TamHeader : d \in EnUso(h)}
      /\ \A b \in B : \A d \in EnUso(h) : b.dir = d + TamHeader => b.tam <= Espacio(h, d)
      /\ \A b, x \in B : b.dir = x.dir => b = x
  BY DEF Iguala
<1>2. /\ a \notin EnUso(h) /\ EnUso(k) = EnUso(h) \union {a} /\ size <= Espacio(k, a)
      /\ \A d \in EnUso(h) : Espacio(k, d) = Espacio(h, d)
  BY DEF Agrega
<1>3. nuevo.dir = a + TamHeader /\ nuevo.tam = size
  OBVIOUS
<1>. HIDE DEF nuevo
<1>4. TamHeader \in Nat /\ EnUso(h) \subseteq Nat
  BY TamaniosAssumption DEF HeapOK, Vacio, Roto, Encadenado, EsHeap, EnUso, SinHeap
<1>5. ASSUME NEW d \in EnUso(h)  PROVE d + TamHeader # a + TamHeader
  <2>1. d # a /\ d \in Nat
    BY <1>2, <1>4
  <2>. QED
    BY <1>4, <2>1
<1>6. \A b \in B : b.dir # nuevo.dir
  <2>1. \A b \in B : b.dir \in {d + TamHeader : d \in EnUso(h)}
    BY <1>1
  <2>. QED
    BY <1>3, <1>5, <2>1
<1>7. {b.dir : b \in C} = {d + TamHeader : d \in EnUso(k)}
  <2>1. {b.dir : b \in C} = {b.dir : b \in B} \union {a + TamHeader}
    BY <1>3
  <2>2. {d + TamHeader : d \in EnUso(k)} = {d + TamHeader : d \in EnUso(h)} \union {a + TamHeader}
    BY <1>2
  <2>. QED
    BY <1>1, <2>1, <2>2
<1>8. ASSUME NEW b \in C, NEW d \in EnUso(k), b.dir = d + TamHeader  PROVE b.tam <= Espacio(k, d)
  <2>1. CASE d = a
    <3>1. b = nuevo
      BY <1>3, <1>6, <1>8, <2>1
    <3>. QED
      BY <1>2, <1>3, <2>1, <3>1
  <2>2. CASE d # a
    <3>1. d \in EnUso(h) /\ b # nuevo
      BY <1>2, <1>3, <1>5, <1>8, <2>2
    <3>. QED
      BY <1>1, <1>2, <1>8, <3>1
  <2>. QED
    BY <2>1, <2>2
<1>9. \A b, x \in C : b.dir = x.dir => b = x
  BY <1>1, <1>6
<1>. QED
  BY <1>7, <1>8, <1>9 DEF Iguala, nuevo

\* One block less, after memfree.
LEMMA IgualaQuita ==
  ASSUME NEW h, HeapOK(h), NEW B, NEW b, b \notin B, b.dir \in Nat, Iguala(B \union {b}, h),
         NEW k, Quita(h, k, b.dir - TamHeader), Sano(k)
  PROVE  Iguala(B, k)
<1>. DEFINE C == B \union {b}
            a == b.dir - TamHeader
<1>1. /\ {x.dir : x \in C} = {d + TamHeader : d \in EnUso(h)}
      /\ \A x \in C : \A d \in EnUso(h) : x.dir = d + TamHeader => x.tam <= Espacio(h, d)
      /\ \A x, y \in C : x.dir = y.dir => x = y
  BY DEF Iguala
<1>2. /\ EnUso(k) = EnUso(h) \ {a}
      /\ \A d \in EnUso(k) : Espacio(k, d) = Espacio(h, d)
  BY DEF Quita
<1>3. TamHeader \in Nat /\ EnUso(h) \subseteq Nat
  BY TamaniosAssumption DEF HeapOK, Vacio, Roto, Encadenado, EsHeap, EnUso, SinHeap
<1>4. a \in Int /\ a + TamHeader = b.dir /\ \A d \in EnUso(h) : d # a => d + TamHeader # b.dir
  BY <1>3
<1>5. \A x \in B : x.dir # b.dir
  BY <1>1
<1>. HIDE DEF a
<1>6. {x.dir : x \in B} = {d + TamHeader : d \in EnUso(k)}
  <2>1. {x.dir : x \in B} = {x.dir : x \in C} \ {b.dir}
    BY <1>5
  <2>2. {d + TamHeader : d \in EnUso(k)} = {d + TamHeader : d \in EnUso(h)} \ {b.dir}
    BY <1>2, <1>4
  <2>. QED
    BY <1>1, <2>1, <2>2
<1>7. \A x \in B : \A d \in EnUso(k) : x.dir = d + TamHeader => x.tam <= Espacio(k, d)
  BY <1>1, <1>2
<1>8. \A x, y \in B : x.dir = y.dir => x = y
  BY <1>1
<1>. QED
  BY <1>6, <1>7, <1>8 DEF Iguala

\* The blocks of a correct client are used ones.
LEMMA EsBloque ==
  ASSUME NEW h, HeapOK(h), NEW B, Iguala(B, h), NEW b \in B, b.dir \in Nat
  PROVE  b.dir - TamHeader \in EnUso(h)
<1>1. b.dir \in {d + TamHeader : d \in EnUso(h)}
  BY DEF Iguala
<1>2. PICK d \in EnUso(h) : b.dir = d + TamHeader
  BY <1>1
<1>3. TamHeader \in Nat /\ d \in Nat
  BY TamaniosAssumption DEF HeapOK, Vacio, Roto, Encadenado, EsHeap, EnUso, SinHeap
<1>. QED
  BY <1>2, <1>3

-----------------------------------------------------------------------------
\* Steps of one client.

\* c goes on to r and B, and nothing of the connections changes.
Pasa(c, r, B) ==
    /\ Sigue1(c, r) /\ B \in SUBSET Bloques
    /\ cliente' = [cliente EXCEPT ![c] = r] /\ UNCHANGED <<conf, conexiones>>
    /\ tiene' = [tiene EXCEPT ![c] = B] \/ (UNCHANGED tiene /\ B = tiene[c])
    /\ caido' \in BOOLEAN

\* Its heap becomes k, or stays.
Cambia(c, k) ==
    \/ heap' = heap /\ k = heap[PidDe(c)]
    \/ PidDe(c) # SinPid /\ HeapOK(k) /\ heap' = [heap EXCEPT ![PidDe(c)] = k]

\* And its blocks go on being those of its heap.
Mantiene(c, r, B, k) ==
    \/ r.pc \in {"sinHilo", "cerrado"}
    \/ /\ Activo(c)
       /\ Corresponden(cliente[c], tiene[c], PidDe(c), heap[PidDe(c)]) => Corresponden(r, B, PidDe(c), k)

\* Such a step keeps the invariant.
LEMMA SigueUno ==
  ASSUME Servido, NEW c \in Clientes, NEW r, NEW B, NEW k, Pasa(c, r, B), Cambia(c, k), Mantiene(c, r, B, k)
  PROVE  Servido'
<1>1. Conectados /\ HeapsOK /\ BloquesOK /\ TiposOK
  BY DEF Servido, Conectados
<1>2. /\ cliente \in [Clientes -> Estado] /\ tiene \in [Clientes -> SUBSET Bloques]
      /\ heap = [p \in Pids |-> heap[p]]
  BY <1>1 DEF TiposOK
<1>3. /\ cliente' = [cliente EXCEPT ![c] = r] /\ UNCHANGED <<conf, conexiones>> /\ caido' \in BOOLEAN
      /\ cliente'[c] = r /\ \A e \in Clientes \ {c} : cliente'[e] = cliente[e]
      /\ Sigue1(c, r)
  BY <1>2 DEF Pasa
<1>4. /\ tiene' \in [Clientes -> SUBSET Bloques] /\ tiene'[c] = B
      /\ \A e \in Clientes \ {c} : tiene'[e] = tiene[e]
  <2>1. CASE tiene' = [tiene EXCEPT ![c] = B]
    BY <1>2, <2>1 DEF Pasa
  <2>2. CASE tiene' = tiene /\ B = tiene[c]
    BY <1>2, <2>2
  <2>. QED
    BY <2>1, <2>2 DEF Pasa
<1>5. heap' = [p \in Pids |-> heap'[p]] /\ \A p \in Pids : p # PidDe(c) => heap'[p] = heap[p]
  BY <1>2 DEF Cambia
<1>6. Conectados' /\ \A e \in Clientes : PidDe(e)' = PidDe(e)
  BY <1>1, <1>3, <1>4, <1>5, SiguenConectados
<1>7. Vivo(c) /\ Vivo(c)'
  BY <1>3 DEF Sigue1, Vivo
<1>8. muertos' = muertos /\ pidGlobal' = pidGlobal /\ pidGlobal \in Nat
  BY <1>1, <1>3 DEF conexiones, TiposOK
<1>9. ASSUME NEW p \in Pids
      PROVE  heap'[p] = heap[p] \/ (HeapOK(heap'[p]) /\ p = PidDe(c) /\ PidDe(c) # SinPid)
  BY <1>2, <1>5 DEF Cambia
<1>10. Ajeno(c)
  BY <1>3, <1>4, <1>6, <1>7, <1>8, <1>9 DEF Ajeno
<1>11. BloquesDe(c)'
  <2>1. SUFFICES ASSUME Activo(c)', cliente'[c].fd \notin muertos'
                 PROVE  Corresponden(r, B, PidDe(c), heap'[PidDe(c)])
    BY <1>3, <1>4, <1>6 DEF BloquesDe
  <2>2. Activo(c) /\ (Corresponden(cliente[c], tiene[c], PidDe(c), heap[PidDe(c)]) =>
          Corresponden(r, B, PidDe(c), k))
    BY <1>3, <2>1 DEF Mantiene, Activo
  <2>3. cliente[c].fd \notin muertos
    BY <1>3, <1>8, <2>1 DEF Sigue1
  <2>4. Corresponden(r, B, PidDe(c), k)
    BY <1>1, <2>2, <2>3 DEF BloquesOK, BloquesDe
  <2>5. PidDe(c) # SinPid => PidDe(c) \in Pids
    BY <1>1, <1>7, DeQuien DEF Duenos
  <2>6. PidDe(c) # SinPid => heap'[PidDe(c)] = k
    BY <1>2, <2>5 DEF Cambia
  <2>. QED
    BY <2>4, <2>6 DEF Corresponden
<1>. QED
  BY <1>6, <1>10, <1>11, OtrosSiguen

\* A step that changes nothing but whether memoria is up.
LEMMA SigueNadie ==
  ASSUME Servido, UNCHANGED <<conf, cliente, tiene, conexiones, heap>>, caido' \in BOOLEAN
  PROVE  Servido'
<1>1. /\ conf' = conf /\ cliente' = cliente /\ tiene' = tiene /\ heap' = heap /\ abiertos' = abiertos
      /\ pidsCliente' = pidsCliente /\ pidGlobal' = pidGlobal /\ muertos' = muertos
  BY DEF conexiones
<1>2. TiposOK' /\ ClientesOK' /\ ConKernelOK'
  BY <1>1 DEF Servido, Conectados, TiposOK, ClientesOK, ConKernelOK, Vivo
<1>3. SinKernelOK'
  BY <1>1 DEF Servido, Conectados, SinKernelOK, Vivo, Registrados
<1>4. PidsAlcanzan'
  BY <1>1 DEF Servido, Conectados, PidsAlcanzan, Contado, Vivo, Registrados
<1>5. HeapsOK'
  BY <1>1 DEF Servido, HeapsOK
<1>6. \A e \in Clientes : PidDe(e)' = PidDe(e)
  <2>1. \A e \in Clientes : /\ PidDe(e) = Su(conf, pidsCliente, cliente[e])
                            /\ PidDe(e)' = Su(conf', pidsCliente', cliente'[e])
    BY SuPid, SuPidDespues
  <2>. QED
    BY <1>1, <2>1
<1>7. BloquesOK'
  BY <1>1, <1>6 DEF Servido, BloquesOK, BloquesDe, Activo
<1>. QED
  BY <1>2, <1>3, <1>4, <1>5, <1>7 DEF Servido, Conectados

-----------------------------------------------------------------------------
\* The requests.

\* What a live client has, from the types.
LEMMA ClienteBien ==
  ASSUME Servido, NEW c \in Clientes
  PROVE  /\ cliente[c] \in Estado /\ tiene[c] \in SUBSET Bloques /\ cliente[c].bloque \in Bloques
         /\ cliente[c].op = "memalloc" => cliente[c].bloque.tam # 0
         /\ cliente[c].pc = "listo" => cliente[c].op = "nada"
<1>1. cliente[c] \in Estado /\ tiene[c] \in SUBSET Bloques
  BY DEF Servido, Conectados, TiposOK
<1>2. cliente[c].bloque \in Bloques
  BY <1>1 DEF Estado
<1>3. /\ cliente[c].op = "memalloc" => cliente[c].bloque.tam # 0
      /\ cliente[c].pc = "listo" => cliente[c].op = "nada"
  BY DEF Servido, Conectados, ClientesOK
<1>. QED
  BY <1>1, <1>2, <1>3

\* A request that is sent: a block that is given back is no longer held.
LEMMA PideServido ==
  ASSUME Servido, NEW c \in Clientes, NEW op \in Pedidos, NEW b \in Bloques, Pedir(c, op, b),
         op = "memalloc" => b.tam # 0,
         \/ op = "memfree" /\ b \in tiene[c] /\ tiene' = [tiene EXCEPT ![c] = @ \ {b}]
         \/ op # "memfree" /\ UNCHANGED tiene
  PROVE  Servido'
<1>. DEFINE x == cliente[c]
            r == [x EXCEPT !.pc = "pidiendo", !.op = op, !.bloque = b]
            B == IF op = "memfree" THEN tiene[c] \ {b} ELSE tiene[c]
<1>1. /\ x \in Estado /\ tiene[c] \in SUBSET Bloques /\ x.pc = "listo" /\ x.op = "nada"
  BY ClienteBien DEF Pedir
<1>2. /\ cliente' = [cliente EXCEPT ![c].pc = "pidiendo", ![c].op = op, ![c].bloque = b]
      /\ UNCHANGED <<conf, conexiones, heap, caido>>
  BY DEF Pedir
<1>3. cliente' = [cliente EXCEPT ![c] = r]
  BY <1>2
<1>4. /\ r \in Estado /\ r.pc = "pidiendo" /\ r.op = op /\ r.bloque = b /\ r.fd = x.fd /\ r.pid = x.pid
  BY <1>1 DEF Estado, Estados
<1>. HIDE DEF r
<1>5. Vivo(c) /\ Activo(c) /\ (Contado(c) /\ ~conf.kernel => x.fd \in Registrados)
  BY <1>1 DEF Vivo, Activo, Contado
<1>6. Sigue1(c, r)
  BY <1>4, <1>5 DEF Sigue1
<1>7. caido' \in BOOLEAN
  BY <1>2 DEF Servido, Conectados, TiposOK
<1>8. Pasa(c, r, B)
  <2>1. B \in SUBSET Bloques
    BY <1>1
  <2>2. tiene' = [tiene EXCEPT ![c] = B] \/ (UNCHANGED tiene /\ B = tiene[c])
    OBVIOUS
  <2>3. UNCHANGED <<conf, conexiones>>
    BY <1>2
  <2>. HIDE DEF B
  <2>. QED
    BY <1>3, <1>6, <1>7, <2>1, <2>2, <2>3 DEF Pasa
<1>9. Cambia(c, heap[PidDe(c)])
  BY <1>2 DEF Cambia
<1>10. Mantiene(c, r, B, heap[PidDe(c)])
  <2>1. Suyos(x, tiene[c]) = tiene[c] /\ ~Cerrando(x)
    BY <1>1 DEF Suyos, Devolviendo, Recibiendo, Cerrando
  <2>2. Suyos(r, B) = tiene[c] /\ (Devolviendo(r) => b \notin B)
    BY <1>4 DEF Suyos, Devolviendo, Recibiendo
  <2>. HIDE DEF B, x
  <2>. QED
    BY <1>4, <1>5, <2>1, <2>2 DEF Mantiene, Corresponden, x
<1>. HIDE DEF B
<1>. QED
  BY <1>8, <1>9, <1>10, SigueUno

\* A step of c that leaves its blocks as they are.
LEMMA SigueIgual ==
  ASSUME Servido, NEW c \in Clientes, NEW r, NEW B, Pasa(c, r, B), UNCHANGED heap,
         \/ r.pc \in {"sinHilo", "cerrado"}
         \/ /\ Activo(c) /\ Suyos(r, B) = Suyos(cliente[c], tiene[c])
            /\ Cerrando(cliente[c]) => Cerrando(r)
            /\ Devolviendo(r) => Devolviendo(cliente[c]) /\ r.bloque = cliente[c].bloque /\ B = tiene[c]
  PROVE  Servido'
<1>1. Cambia(c, heap[PidDe(c)])
  BY DEF Cambia
<1>2. Mantiene(c, r, B, heap[PidDe(c)])
  BY DEF Mantiene, Corresponden
<1>. QED
  BY <1>1, <1>2, SigueUno


\* The kernel passes a request on.
LEMMA ReenviaServido ==
  ASSUME Servido, NEW c \in Clientes, Reenviar(c)
  PROVE  Servido'
<1>. DEFINE x == cliente[c]
            r == [x EXCEPT !.pc = "reenviado"]
<1>1. /\ x \in Estado /\ tiene[c] \in SUBSET Bloques /\ x.pc = "pidiendo" /\ conf.kernel
      /\ x.op = "memalloc" => x.bloque.tam # 0
  BY ClienteBien DEF Reenviar
<1>2. cliente' = [cliente EXCEPT ![c] = r] /\ UNCHANGED <<conf, tiene, conexiones, heap, caido>>
  BY DEF Reenviar
<1>3. /\ r \in Estado /\ r.pc = "reenviado" /\ r.op = x.op /\ r.bloque = x.bloque /\ r.fd = x.fd
      /\ r.pid = x.pid
  BY <1>1 DEF Estado, Estados
<1>. HIDE DEF r
<1>4. Vivo(c) /\ Activo(c)
  BY <1>1 DEF Vivo, Activo
<1>5. Sigue1(c, r)
  BY <1>1, <1>3, <1>4 DEF Sigue1
<1>6. Pasa(c, r, tiene[c])
  BY <1>1, <1>2, <1>5 DEF Pasa, Servido, Conectados, TiposOK
<1>7. /\ Suyos(r, tiene[c]) = Suyos(x, tiene[c]) /\ ~Cerrando(x)
      /\ Devolviendo(r) => Devolviendo(x) /\ r.bloque = x.bloque
  BY <1>1, <1>3 DEF Suyos, Devolviendo, Recibiendo, Cerrando
<1>. QED
  BY <1>2, <1>4, <1>6, <1>7, SigueIgual

\* Nobody answers.
LEMMA OtroServido ==
  ASSUME Servido, NEW c \in Clientes, AtenderOtro(c)
  PROVE  Servido'
<1>. DEFINE x == cliente[c]
            r == [x EXCEPT !.pc = "sinHilo"]
<1>1. x \in Estado /\ tiene[c] \in SUBSET Bloques /\ x.pc \in {"pidiendo", "reenviado"} /\ x.op = "otro"
  BY ClienteBien DEF AtenderOtro, Llego
<1>2. cliente' = [cliente EXCEPT ![c] = r] /\ UNCHANGED <<conf, tiene, conexiones, heap, caido>>
  BY DEF AtenderOtro
<1>3. /\ r \in Estado /\ r.pc = "sinHilo" /\ r.op = x.op /\ r.fd = x.fd /\ r.pid = x.pid
  BY <1>1 DEF Estado, Estados
<1>. HIDE DEF r
<1>4. Vivo(c) /\ (Contado(c) /\ ~conf.kernel => x.fd \in Registrados)
  BY <1>1 DEF Vivo, Contado
<1>5. Sigue1(c, r)
  BY <1>1, <1>3, <1>4 DEF Sigue1
<1>6. Pasa(c, r, tiene[c])
  BY <1>1, <1>2, <1>5 DEF Pasa, Servido, Conectados, TiposOK
<1>. QED
  BY <1>2, <1>3, <1>6, SigueIgual

\* The client reads its answer: the block it gets is held now.
LEMMA RecibeServido ==
  ASSUME Servido, NEW c \in Clientes, Recibir(c)
  PROVE  Servido'
<1>. DEFINE x == cliente[c]
            nuevo == [dir |-> x.resp, tam |-> x.bloque.tam]
            q == IF x.op = "close" THEN "cerrado" ELSE "listo"
            r == [x EXCEPT !.pc = q, !.op = "nada", !.bloque = SinBloque, !.resp = 0]
            B == IF Recibiendo(x) THEN tiene[c] \union {nuevo} ELSE tiene[c]
<1>1. /\ x \in Estado /\ tiene[c] \in SUBSET Bloques /\ x.bloque \in Bloques /\ x.pc = "respondido"
  BY ClienteBien DEF Recibir
<1>2. /\ cliente' = [cliente EXCEPT ![c] = r] /\ UNCHANGED <<conf, conexiones, heap, caido>>
      /\ tiene' = [tiene EXCEPT ![c] = B] \/ (UNCHANGED tiene /\ B = tiene[c])
  <2>1. Recibiendo(x) <=> x.op = "memalloc" /\ x.resp >= 0
    BY <1>1 DEF Recibiendo
  <2>. QED
    BY <2>1 DEF Recibir
<1>3. /\ 0 \in Respuestas /\ SinBloque \in Bloques /\ \A s \in Respuestas : s \in Int
  <2>1. TamPagina \in Nat /\ MaxPaginas \in Nat
    BY TamaniosAssumption
  <2>2. TamPagina * MaxPaginas \in Nat
    BY <2>1
  <2>. QED
    BY <2>2 DEF Respuestas, Bloques, SinBloque
<1>4. q \in {"cerrado", "listo"}
  OBVIOUS
<1>5. /\ r \in Estado /\ r.pc = q /\ r.op = "nada" /\ r.bloque = SinBloque /\ r.fd = x.fd /\ r.pid = x.pid
  <2>. HIDE DEF q
  <2>. QED
    BY <1>1, <1>3, <1>4 DEF Estado, Estados
<1>. HIDE DEF r
<1>6. B \in SUBSET Bloques
  <2>1. Recibiendo(x) => nuevo \in Bloques
    BY <1>1, <1>3 DEF Recibiendo, Bloques, Estado
  <2>. QED
    BY <1>1, <2>1
<1>7. Vivo(c) /\ Activo(c)
  BY <1>1 DEF Vivo, Activo
<1>8. Contado(c) /\ ~conf.kernel => q = "cerrado" \/ x.fd \in Registrados
  BY <1>1 DEF Contado
<1>9. Sigue1(c, r)
  BY <1>4, <1>5, <1>7, <1>8 DEF Sigue1
<1>10. Pasa(c, r, B)
  <2>. HIDE DEF B
  <2>. QED
    BY <1>2, <1>6, <1>9 DEF Pasa, Servido, Conectados, TiposOK
<1>11. /\ Suyos(r, B) = Suyos(x, tiene[c])
       /\ q = "listo" => ~Cerrando(x)
       /\ ~Devolviendo(r)
  BY <1>1, <1>5 DEF Suyos, Devolviendo, Recibiendo, Cerrando
<1>12. UNCHANGED heap
  BY <1>2
<1>. HIDE DEF B, q
<1>. QED
  BY <1>4, <1>5, <1>7, <1>10, <1>11, <1>12, SigueIgual

\* The answers of memoria that change no record.
Contestado(x, s) == [x EXCEPT !.pc = "respondido", !.resp = s]

\* An answer keeps the client where it is connected; of what is its, it says nothing but the answer.
LEMMA ResponderBien ==
  ASSUME Servido, NEW c \in Clientes, NEW s \in Respuestas, cliente[c].pc \in {"pidiendo", "reenviado"}
  PROVE  LET r == Contestado(cliente[c], s)
         IN  /\ r \in Estado /\ r.pc = "respondido" /\ r.op = cliente[c].op /\ r.bloque = cliente[c].bloque
             /\ r.resp = s /\ r.fd = cliente[c].fd /\ r.pid = cliente[c].pid
             /\ Vivo(c) /\ Activo(c) /\ Sigue1(c, r)
             /\ (Responder(c, s) <=> cliente' = [cliente EXCEPT ![c] = r])
             /\ ~Recibiendo(cliente[c]) /\ ~Devolviendo(r) /\ ~Cerrando(cliente[c])
             /\ (Recibiendo(r) <=> r.op = "memalloc" /\ s >= 0)
<1>. DEFINE r == Contestado(cliente[c], s)
<1>1. /\ cliente[c] \in Estado
      /\ cliente[c].op = "memalloc" => cliente[c].bloque.tam # 0
  BY ClienteBien
<1>2. /\ r \in Estado /\ r.pc = "respondido" /\ r.op = cliente[c].op /\ r.bloque = cliente[c].bloque
      /\ r.resp = s /\ r.fd = cliente[c].fd /\ r.pid = cliente[c].pid
  BY <1>1 DEF Estado, Estados, Contestado
<1>. HIDE DEF r
<1>3. Vivo(c) /\ Activo(c) /\ (Contado(c) /\ ~conf.kernel => cliente[c].fd \in Registrados)
  BY DEF Vivo, Activo, Contado
<1>4. Sigue1(c, r)
  BY <1>1, <1>2, <1>3 DEF Sigue1
<1>5. Responder(c, s) <=> cliente' = [cliente EXCEPT ![c] = r]
  <2>1. [cliente EXCEPT ![c].pc = "respondido", ![c].resp = s] = [cliente EXCEPT ![c] = r]
    BY DEF r, Contestado
  <2>. QED
    BY <2>1 DEF Responder
<1>6. /\ ~Recibiendo(cliente[c]) /\ ~Devolviendo(r) /\ ~Cerrando(cliente[c])
      /\ (Recibiendo(r) <=> r.op = "memalloc" /\ s >= 0)
  BY <1>2 DEF Recibiendo, Devolviendo, Cerrando
<1>. QED
  BY <1>2, <1>3, <1>4, <1>5, <1>6 DEF r


\* The answers there are.
LEMMA RespuestasBien ==
  /\ {-1, -5, -6, -7, 1} \subseteq Respuestas
  /\ \A n \in Nat : n <= TamPagina * MaxPaginas => n \in Respuestas
<1>1. TamPagina \in Nat /\ MaxPaginas \in Nat
  BY TamaniosAssumption
<1>2. TamPagina * MaxPaginas \in Nat
  BY <1>1
<1>. QED
  BY <1>2 DEF Respuestas

\* A heap with pages that has no defect has its chain.
LEMMA ConPaginas ==
  ASSUME NEW h, HeapOK(h), Servible(h), h.ids # <<>>
  PROVE  Encadenado(h, DOMAIN h.hdr) /\ EsHeap(h)
BY DEF HeapOK, Vacio, Roto, SinHeap, Encadenado

\* The heap a request of c works on.
LEMMA SuHeap ==
  ASSUME Servido, NEW c \in Clientes, Vivo(c), PidDe(c) # SinPid
  PROVE  PidDe(c) \in Pids /\ HeapOK(heap[PidDe(c)])
<1>1. PidDe(c) \in Pids
  BY DeQuien DEF Servido, Duenos
<1>. QED
  BY <1>1 DEF Servido, HeapsOK

\* A block is given back: it is no longer used.
LEMMA MemfreeServido ==
  ASSUME Servido, NEW c \in Clientes, AtenderMemfree(c)
  PROVE  Servido'
<1>. DEFINE x == cliente[c]
            t == tiene[c]
            b == x.bloque
            h == heap[PidDe(c)]
            dir == b.dir - TamHeader
<1>1. /\ x.op = "memfree" /\ x.pc \in {"pidiendo", "reenviado"}
      /\ PidDe(c) # SinPid /\ h.ids # <<>> /\ Servible(h)
      /\ UNCHANGED <<conf, tiene, conexiones, caido>>
  BY DEF AtenderMemfree, Llego, ConTabla
<1>2. Vivo(c) /\ b \in Bloques /\ b.dir \in Nat /\ t \in SUBSET Bloques
  BY <1>1, ClienteBien DEF Vivo, Bloques
<1>3. HeapOK(h) /\ Encadenado(h, DOMAIN h.hdr)
  BY <1>1, <1>2, SuHeap, ConPaginas
<1>4. Suyos(x, t) = t \union {b} /\ Devolviendo(x)
  BY <1>1 DEF Suyos, Devolviendo, Recibiendo
<1>5. caido' \in BOOLEAN
  BY <1>1 DEF Servido, Conectados, TiposOK
<1>6. CASE dir \in DOMAIN h.hdr /\ EsUltimo(h, dir)
  <2>. DEFINE r == Contestado(x, -5)
  <2>1. Responder(c, -5) /\ heap' = heap
    BY <1>6 DEF AtenderMemfree
  <2>2. /\ Sigue1(c, r) /\ Activo(c) /\ r.op = "memfree" /\ cliente' = [cliente EXCEPT ![c] = r]
        /\ ~Devolviendo(r) /\ ~Recibiendo(r)
    BY <1>1, <2>1, RespuestasBien, ResponderBien
  <2>. HIDE DEF r
  <2>3. Pasa(c, r, t)
    BY <1>1, <1>2, <1>5, <2>2 DEF Pasa
  <2>4. Cambia(c, h)
    BY <2>1 DEF Cambia
  <2>5. ASSUME Corresponden(x, t, PidDe(c), h)  PROVE ~Sano(h)
    <3>1. SUFFICES ASSUME Sano(h)  PROVE FALSE
      OBVIOUS
    <3>2. Iguala(t \union {b}, h)
      BY <1>1, <1>4, <2>5, <3>1 DEF Corresponden
    <3>3. dir \in EnUso(h)
      BY <1>2, <1>3, <3>2, EsBloque
    <3>. QED
      BY <1>6, <3>3 DEF EnUso, EsUltimo
  <2>6. Mantiene(c, r, t, h)
    BY <1>1, <2>2, <2>5 DEF Mantiene, Corresponden
  <2>. QED
    BY <2>3, <2>4, <2>6, SigueUno
<1>7. CASE ~(dir \in DOMAIN h.hdr /\ EsUltimo(h, dir))
  <2>. DEFINE r == Contestado(x, 1)
              k == Liberar(h, dir)
  <2>1. Responder(c, 1) /\ heap' = [heap EXCEPT ![PidDe(c)] = k]
    BY <1>7 DEF AtenderMemfree
  <2>2. /\ Sigue1(c, r) /\ Activo(c) /\ r.op = "memfree" /\ cliente' = [cliente EXCEPT ![c] = r]
        /\ ~Devolviendo(r) /\ ~Recibiendo(r)
    BY <1>1, <2>1, RespuestasBien, ResponderBien
  <2>3. HeapOK(k) /\ Quita(h, k, dir)
    <3>1. dir \in DOMAIN h.hdr => h.hdr[dir].next # 0
      BY <1>7 DEF EsUltimo
    <3>. QED
      BY <1>3, <3>1, LiberarBien
  <2>. HIDE DEF r, k
  <2>4. Pasa(c, r, t)
    BY <1>1, <1>2, <1>5, <2>2 DEF Pasa
  <2>5. Cambia(c, k)
    BY <1>1, <2>1, <2>3 DEF Cambia
  <2>6. ASSUME Corresponden(x, t, PidDe(c), h), Sano(k)  PROVE Iguala(t, k)
    <3>1. Sano(h)
      BY <2>3, <2>6 DEF Quita
    <3>2. Iguala(t \union {b}, h) /\ b \notin t
      BY <1>1, <1>4, <2>6, <3>1 DEF Corresponden
    <3>. QED
      BY <1>2, <1>3, <2>3, <2>6, <3>2, IgualaQuita
  <2>7. Suyos(r, t) = t
    BY <2>2 DEF Suyos
  <2>8. Mantiene(c, r, t, k)
    BY <1>1, <2>2, <2>6, <2>7 DEF Mantiene, Corresponden
  <2>. QED
    BY <2>4, <2>5, <2>8, SigueUno
<1>. QED
  BY <1>6, <1>7

\* A read or a write leaves the blocks as they are, or ends all that is said of the heap.
LEMMA UsoServido ==
  ASSUME Servido, NEW c \in Clientes, AtenderUso(c)
  PROVE  Servido'
<1>. DEFINE x == cliente[c]
            t == tiene[c]
            b == x.bloque
            h == heap[PidDe(c)]
<1>1. /\ x.op \in {"memread", "memwrite"} /\ x.pc \in {"pidiendo", "reenviado"}
      /\ PidDe(c) # SinPid /\ h.ids # <<>> /\ Servible(h)
      /\ UNCHANGED <<conf, tiene, conexiones>>
  BY DEF AtenderUso, Llego, ConTabla
<1>2. Vivo(c) /\ t \in SUBSET Bloques /\ caido \in BOOLEAN
  BY <1>1, ClienteBien DEF Vivo, Servido, Conectados, TiposOK
<1>3. HeapOK(h) /\ EsHeap(h)
  BY <1>1, <1>2, SuHeap, ConPaginas
<1>4. Suyos(x, t) = t
  BY <1>1 DEF Suyos, Devolviendo, Recibiendo
<1>5. ASSUME NEW s \in Respuestas, Responder(c, s), caido' = caido, NEW k, Cambia(c, k), k = h \/ ~Sano(k)
      PROVE  Servido'
  <2>. DEFINE r == Contestado(x, s)
  <2>1. /\ Sigue1(c, r) /\ Activo(c) /\ r.op = x.op /\ cliente' = [cliente EXCEPT ![c] = r]
        /\ ~Devolviendo(r) /\ (Recibiendo(r) <=> r.op = "memalloc" /\ s >= 0)
    BY <1>1, <1>5, ResponderBien
  <2>. HIDE DEF r
  <2>2. Pasa(c, r, t)
    BY <1>1, <1>2, <1>5, <2>1 DEF Pasa
  <2>3. Suyos(r, t) = t
    BY <1>1, <2>1 DEF Suyos
  <2>4. Mantiene(c, r, t, k)
    BY <1>1, <1>4, <1>5, <2>1, <2>3 DEF Mantiene, Corresponden
  <2>. QED
    BY <1>5, <2>2, <2>4, SigueUno
<1>6. CASE ~DentroDeLasPaginas(h, b.dir, b.tam)
  <2>1. /\ Responder(c, IF x.op = "memread" THEN -6 ELSE -7)
        /\ heap' = heap /\ caido' = caido
    BY <1>6 DEF AtenderUso
  <2>2. Cambia(c, h)
    BY <2>1 DEF Cambia
  <2>3. (IF x.op = "memread" THEN -6 ELSE -7) \in Respuestas
    BY RespuestasBien
  <2>. QED
    BY <1>5, <2>1, <2>2, <2>3
<1>7. CASE DentroDeLasPaginas(h, b.dir, b.tam) /\ ~SinHuecos(h)
  <2>1. caido' = TRUE /\ UNCHANGED <<heap, cliente>>
    BY <1>7 DEF AtenderUso
  <2>2. UNCHANGED <<conf, cliente, tiene, conexiones, heap>> /\ caido' \in BOOLEAN
    BY <1>1, <2>1
  <2>. QED
    BY <2>2, SigueNadie
<1>8. CASE DentroDeLasPaginas(h, b.dir, b.tam) /\ SinHuecos(h)
  <2>1. /\ heap' = IF x.op = "memwrite" /\ ~Sano(h)
                   THEN [heap EXCEPT ![PidDe(c)] = Defecto(h, "pisado")] ELSE heap
        /\ Responder(c, 1) /\ caido' = caido
    BY <1>8 DEF AtenderUso
  <2>2. CASE x.op = "memwrite" /\ ~Sano(h)
    <3>. DEFINE k == Defecto(h, "pisado")
    <3>1. Roto(k) /\ ~Sano(k)
      <4>1. "pisado" \in Fatales
        BY DEF Fatales, Defectos
      <4>. QED
        BY <1>3, <4>1, DefectoRoto
    <3>2. Cambia(c, k)
      BY <1>1, <2>1, <2>2, <3>1 DEF Cambia, HeapOK
    <3>. HIDE DEF k
    <3>. QED
      BY <1>5, <2>1, <3>1, <3>2, RespuestasBien
  <2>3. CASE ~(x.op = "memwrite" /\ ~Sano(h))
    <3>1. Cambia(c, h)
      BY <2>1, <2>3 DEF Cambia
    <3>. QED
      BY <1>5, <2>1, <3>1, RespuestasBien
  <2>. QED
    BY <2>2, <2>3
<1>. QED
  BY <1>6, <1>7, <1>8


\* A block is given by a heap whose process has its PID already.
LEMMA MemallocServido ==
  ASSUME Servido, NEW c \in Clientes, AtenderMemalloc(c), PidDe(c) # SinPid
  PROVE  Servido'
<1>. DEFINE x == cliente[c]
            t == tiene[c]
            h == heap[PidDe(c)]
            tam == x.bloque.tam
<1>1. /\ x.op = "memalloc" /\ x.pc \in {"pidiendo", "reenviado"} /\ Servible(h)
      /\ UNCHANGED <<conf, tiene, conexiones, caido>>
  BY DEF AtenderMemalloc, Llego, conexiones
<1>2. Vivo(c) /\ t \in SUBSET Bloques /\ tam \in Nat \ {0} /\ caido' \in BOOLEAN
  BY <1>1, ClienteBien DEF Vivo, Bloques, Servido, Conectados, TiposOK
<1>3. HeapOK(h)
  BY <1>2, SuHeap
<1>4. Suyos(x, t) = t
  BY <1>1 DEF Suyos, Devolviendo, Recibiendo
<1>5. CASE SinParticion(h) \/ Negado(h, tam)
  <2>. DEFINE r == Contestado(x, -1)
  <2>1. Responder(c, -1) /\ heap' = heap
    BY <1>5 DEF AtenderMemalloc, Negar
  <2>2. -1 \in Respuestas
    BY RespuestasBien
  <2>3. /\ Sigue1(c, r) /\ Activo(c) /\ cliente' = [cliente EXCEPT ![c] = r]
        /\ ~Devolviendo(r) /\ ~Recibiendo(r) /\ ~Cerrando(x)
    BY <1>1, <2>1, <2>2, ResponderBien
  <2>. HIDE DEF r
  <2>4. Pasa(c, r, t)
    BY <1>1, <1>2, <2>3 DEF Pasa
  <2>5. Suyos(r, t) = t
    BY <2>3 DEF Suyos
  <2>. QED
    BY <1>4, <2>1, <2>3, <2>4, <2>5, SigueIgual
<1>6. CASE ~(SinParticion(h) \/ Negado(h, tam))
  <2>. DEFINE al == Alocar(h, tam)
              r == Contestado(x, al.dir)
  <2>1. Responder(c, al.dir) /\ heap' = [heap EXCEPT ![PidDe(c)] = al.heap]
    BY <1>6 DEF AtenderMemalloc
  <2>. DEFINE k == al.heap
              dir == al.dir
  <2>2. PICK a \in Nat : /\ dir = a + TamHeader /\ dir <= TamPagina * MaxPaginas
                         /\ HeapOK(k) /\ Agrega(h, k, a, tam)
    BY <1>1, <1>2, <1>3, <1>6, AlocarBien
  <2>. HIDE DEF k, dir
  <2>3. dir \in Nat /\ dir \in Respuestas
    BY <2>2, TamaniosAssumption, RespuestasBien
  <2>4. r = Contestado(x, dir) /\ Responder(c, dir) /\ heap' = [heap EXCEPT ![PidDe(c)] = k]
    BY <2>1 DEF k, dir
  <2>5. /\ Sigue1(c, r) /\ Activo(c) /\ cliente' = [cliente EXCEPT ![c] = r] /\ r.bloque = x.bloque
        /\ ~Devolviendo(r) /\ Recibiendo(r) /\ r.resp = dir
    BY <1>1, <2>3, <2>4, ResponderBien
  <2>. HIDE DEF r
  <2>6. Pasa(c, r, t)
    BY <1>1, <1>2, <2>5 DEF Pasa
  <2>7. Cambia(c, k)
    BY <2>2, <2>4 DEF Cambia
  <2>8. Suyos(r, t) = t \union {[dir |-> a + TamHeader, tam |-> tam]}
    BY <2>2, <2>5 DEF Suyos
  <2>9. ASSUME Corresponden(x, t, PidDe(c), h), Sano(k)  PROVE Iguala(Suyos(r, t), k)
    <3>1. Iguala(t, h)
      BY <1>4, <2>2, <2>9 DEF Corresponden, Agrega
    <3>. QED
      BY <1>3, <2>2, <2>8, <2>9, <3>1, IgualaAgrega
  <2>10. Mantiene(c, r, t, k)
    BY <2>5, <2>9 DEF Mantiene, Corresponden
  <2>. QED
    BY <2>6, <2>7, <2>10, SigueUno
<1>. QED
  BY <1>5, <1>6

\* A client that gets its PID: its heap has no pages yet.
LEMMA PrimerMemallocServido ==
  ASSUME Servido, NEW c \in Clientes, AtenderMemalloc(c), PidDe(c) = SinPid
  PROVE  Servido'
<1>. DEFINE x == cliente[c]
            t == tiene[c]
            h == heap[pidGlobal]
            tam == x.bloque.tam
            nuevo == [fd |-> x.fd, pid |-> pidGlobal]
            l == Append(pidsCliente, nuevo)
<1>1. /\ x.op = "memalloc" /\ x.pc \in {"pidiendo", "reenviado"} /\ Servible(h)
      /\ pidsCliente' = l /\ pidGlobal' = pidGlobal + 1
      /\ UNCHANGED <<conf, tiene, abiertos, muertos, caido>>
  BY DEF AtenderMemalloc, Llego
<1>2. Conectados /\ Duenos /\ TiposOK /\ SinKernelOK /\ HeapsOK /\ BloquesOK
  BY DeQuien DEF Servido, Conectados
<1>3. /\ Vivo(c) /\ Activo(c) /\ t \in SUBSET Bloques /\ tam \in Nat \ {0} /\ x \in Estado
  BY <1>1, ClienteBien DEF Vivo, Activo, Bloques
<1>4. ~conf.kernel
  BY <1>2, <1>3 DEF Duenos
<1>5. /\ pidsCliente \in Seq(Registros) /\ Unicos(pidsCliente) /\ pidGlobal \in Nat
      /\ \A i \in DOMAIN pidsCliente : pidsCliente[i].pid \in Int /\ pidsCliente[i].pid < pidGlobal
      /\ x.fd \in Descriptores
  <2>1. pidsCliente \in Seq(Registros) /\ pidGlobal \in Nat /\ Cardinality(Clientes) \in Nat
    BY <1>2 DEF TiposOK, Duenos
  <2>2. \A i \in DOMAIN pidsCliente : pidsCliente[i] \in Registros
    BY <2>1, ElementOfSeq, LenProperties
  <2>3. \A p \in Pids : p \in Int
    BY <2>1 DEF Pids
  <2>4. \A i \in DOMAIN pidsCliente : pidsCliente[i].pid \in Int
    BY <2>2, <2>3 DEF Registros
  <2>. QED
    BY <1>2, <1>3, <1>4, <2>1, <2>4 DEF SinKernelOK, TiposOK
<1>6. \A i \in DOMAIN pidsCliente : pidsCliente[i].fd # x.fd
  <2>1. PidEn(pidsCliente, x.fd) = SinPid
    BY <1>2, <1>4 DEF Duenos
  <2>. QED
    BY <1>5, <2>1, PidEnUnico
<1>7. ~Contado(c)
  <2>1. x.fd \notin Registrados
    BY <1>6 DEF Registrados
  <2>. QED
    BY <1>1, <1>4, <2>1 DEF Contado
<1>8. pidGlobal \in Pids /\ pidGlobal # SinPid
  BY <1>2, <1>5, <1>7 DEF Duenos, SinPid
<1>9. nuevo \in Registros /\ nuevo.fd = x.fd /\ nuevo.pid = pidGlobal
  BY <1>5, <1>8 DEF Registros
<1>. HIDE DEF nuevo
<1>10. \A i \in DOMAIN pidsCliente : pidsCliente[i].fd # nuevo.fd /\ pidsCliente[i].pid # nuevo.pid
  BY <1>5, <1>6, <1>9
<1>11. /\ l \in Seq(Registros) /\ Unicos(l)
       /\ {l[i].fd : i \in DOMAIN l} = {pidsCliente[i].fd : i \in DOMAIN pidsCliente} \union {nuevo.fd}
       /\ \A i \in DOMAIN l : l[i] = nuevo \/ \E j \in DOMAIN pidsCliente : l[i] = pidsCliente[j]
       /\ PidEn(l, nuevo.fd) = nuevo.pid
       /\ \A fd : fd # nuevo.fd => PidEn(l, fd) = PidEn(pidsCliente, fd)
  BY <1>5, <1>9, <1>10, RegistroNuevo
<1>. HIDE DEF l
<1>12. \A i \in DOMAIN l : l[i].pid < pidGlobal + 1
  BY <1>5, <1>9, <1>11
<1>13. h = SinHeap /\ HeapOK(h)
  BY <1>2, <1>5, <1>8 DEF HeapsOK, Vacio
<1>14. heap = [p \in Pids |-> heap[p]]
  BY <1>2 DEF TiposOK
<1>15. ASSUME NEW s \in Respuestas, Responder(c, s), NEW k, HeapOK(k),
              (heap' = heap /\ k = h) \/ heap' = [heap EXCEPT ![pidGlobal] = k],
              cliente[c].fd \notin muertos /\ Sano(k) =>
                 Iguala(IF s >= 0 THEN {[dir |-> s, tam |-> tam]} ELSE {}, k)
       PROVE  Servido'
  <2>. DEFINE r == Contestado(x, s)
  <2>1. /\ r \in Estado /\ r.pc = "respondido" /\ r.op = "memalloc" /\ r.bloque = x.bloque
        /\ r.resp = s /\ r.fd = x.fd /\ r.pid = x.pid
        /\ cliente' = [cliente EXCEPT ![c] = r]
        /\ ~Devolviendo(r) /\ (Recibiendo(r) <=> s >= 0)
    BY <1>1, <1>15, ResponderBien
  <2>. HIDE DEF r
  <2>2. Registra(c, r, l, pidGlobal + 1)
    <3>1. {l[i].fd : i \in DOMAIN l} = Registrados \union {r.fd}
      BY <1>9, <1>11, <2>1 DEF Registrados
    <3>2. r.fd \in {l[i].fd : i \in DOMAIN l} /\ Registrados \ {r.fd} \subseteq {l[i].fd : i \in DOMAIN l}
      BY <3>1
    <3>3. \A fd : fd # r.fd => PidEn(l, fd) = PidEn(pidsCliente, fd)
      BY <1>9, <1>11, <2>1
    <3>4. pidGlobal + 1 \in Nat /\ r.bloque.tam # 0
      BY <1>3, <1>5, <2>1
    <3>. QED
      BY <1>3, <1>4, <1>7, <1>11, <1>12, <2>1, <3>1, <3>2, <3>3, <3>4 DEF Registra
  <2>3. heap' = [p \in Pids |-> heap'[p]]
    BY <1>14, <1>15
  <2>4. /\ Conectados' /\ PidDe(c)' = PidEn(l, r.fd)
        /\ \A e \in Clientes \ {c} : cliente'[e] = cliente[e] /\ (Vivo(e) => PidDe(e)' = PidDe(e))
    BY <1>1, <1>2, <2>1, <2>2, <2>3, RegistraConectados
  <2>5. PidDe(c)' = pidGlobal
    BY <1>9, <1>11, <2>1, <2>4
  <2>6. cliente'[c] = r /\ Vivo(c)'
    BY <1>2, <2>1 DEF TiposOK, Vivo
  <2>7. \A p \in Pids : heap'[p] = heap[p] \/ (HeapOK(heap'[p]) /\ p = pidGlobal)
    BY <1>14, <1>15
  <2>8. heap'[pidGlobal] = k
    BY <1>8, <1>14, <1>15
  <2>9. Ajeno(c)
    <3>1. tiene' = tiene /\ muertos \subseteq muertos' /\ pidGlobal <= pidGlobal'
      BY <1>1, <1>5
    <3>. QED
      BY <1>8, <2>4, <2>5, <2>6, <2>7, <3>1 DEF Ajeno
  <2>10. BloquesDe(c)'
    <3>1. SUFFICES ASSUME cliente[c].fd \notin muertos
                   PROVE  Corresponden(r, t, pidGlobal, k)
      BY <1>1, <2>1, <2>5, <2>6, <2>8 DEF BloquesDe
    <3>2. Corresponden(x, t, SinPid, heap[SinPid])
      BY <1>2, <1>3, <3>1 DEF BloquesOK, BloquesDe
    <3>3. t = {}
      BY <1>1, <3>2 DEF Corresponden, Suyos, Cerrando
    <3>4. Suyos(r, t) = IF s >= 0 THEN {[dir |-> s, tam |-> tam]} ELSE {}
      BY <2>1, <3>3 DEF Suyos
    <3>5. Sano(k) => Iguala(Suyos(r, t), k)
      BY <1>15, <3>1, <3>4
    <3>. QED
      BY <1>8, <2>1, <3>5 DEF Corresponden
  <2>. QED
    BY <2>4, <2>9, <2>10, OtrosSiguen
<1>16. CASE SinParticion(h) \/ Negado(h, tam)
  <2>1. Responder(c, -1) /\ heap' = heap
    BY <1>16 DEF AtenderMemalloc, Negar
  <2>2. -1 \in Respuestas /\ ~(-1 >= 0)
    BY RespuestasBien
  <2>3. Iguala({}, h)
    BY <1>13, IgualaVacio
  <2>. QED
    BY <1>13, <1>15, <2>1, <2>2, <2>3
<1>17. CASE ~(SinParticion(h) \/ Negado(h, tam))
  <2>. DEFINE al == Alocar(h, tam)
              k == al.heap
              s == al.dir
  <2>1. Responder(c, s) /\ heap' = [heap EXCEPT ![pidGlobal] = k]
    BY <1>17 DEF AtenderMemalloc
  <2>2. PICK a \in Nat : /\ s = a + TamHeader /\ s <= TamPagina * MaxPaginas
                         /\ HeapOK(k) /\ Agrega(h, k, a, tam)
    BY <1>1, <1>3, <1>13, <1>17, AlocarBien
  <2>. HIDE DEF k, s
  <2>3. s \in Nat /\ s \in Respuestas /\ s >= 0
    BY <2>2, TamaniosAssumption, RespuestasBien
  <2>4. ASSUME Sano(k)  PROVE Iguala({[dir |-> s, tam |-> tam]}, k)
    <3>1. Iguala({}, h)
      BY <1>13, IgualaVacio
    <3>2. Iguala({} \union {[dir |-> a + TamHeader, tam |-> tam]}, k)
      BY <1>13, <2>2, <2>4, <3>1, IgualaAgrega
    <3>. QED
      BY <2>2, <3>2
  <2>. QED
    BY <1>15, <2>1, <2>2, <2>3, <2>4
<1>. QED
  BY <1>16, <1>17

\* memoria forgets the connection of a client that closes.
LEMMA CloseServido ==
  ASSUME Servido, NEW c \in Clientes, AtenderClose(c)
  PROVE  Servido'
<1>. DEFINE x == cliente[c]
            t == tiene[c]
            deEse == {i \in DOMAIN pidsCliente : pidsCliente[i].pid = PidDe(c)}
            r == Contestado(x, 1)
<1>1. /\ x.op = "close" /\ x.pc = "pidiendo" /\ Responder(c, 1)
      /\ pidsCliente' = IF deEse = {} THEN pidsCliente ELSE RemoveAt(pidsCliente, Min(deEse))
      /\ UNCHANGED <<conf, tiene, abiertos, pidGlobal, muertos, heap, caido>>
  BY DEF AtenderClose
<1>2. Conectados /\ Duenos /\ TiposOK /\ ConKernelOK /\ SinKernelOK /\ BloquesOK
  BY DeQuien DEF Servido, Conectados
<1>3. 1 \in Respuestas
  BY RespuestasBien
<1>4. /\ r \in Estado /\ r.pc = "respondido" /\ r.op = "close" /\ r.bloque = x.bloque
      /\ r.fd = x.fd /\ r.pid = x.pid /\ Vivo(c) /\ Activo(c) /\ Sigue1(c, r)
      /\ cliente' = [cliente EXCEPT ![c] = r]
      /\ ~Devolviendo(r) /\ ~Recibiendo(r) /\ ~Cerrando(x)
  BY <1>1, <1>3, ResponderBien
<1>. HIDE DEF r
<1>5. t \in SUBSET Bloques /\ caido' \in BOOLEAN
  BY <1>1, <1>2, ClienteBien DEF TiposOK
<1>6. CASE deEse = {}
  <2>1. UNCHANGED <<conf, tiene, conexiones, heap, caido>>
    BY <1>1, <1>6 DEF conexiones
  <2>2. Pasa(c, r, t)
    BY <1>4, <1>5, <2>1 DEF Pasa
  <2>3. Suyos(r, t) = Suyos(x, t)
    BY <1>1, <1>4 DEF Suyos, Devolviendo, Recibiendo
  <2>. QED
    BY <1>1, <1>4, <2>2, <2>3, SigueIgual
<1>7. CASE deEse # {}
  <2>. DEFINE i == Min(deEse)
              l == RemoveAt(pidsCliente, i)
  <2>1. pidsCliente \in Seq(Registros) /\ deEse \subseteq Nat
    BY <1>2, LenProperties DEF TiposOK
  <2>2. i \in deEse
    BY <1>7, <2>1, MinimoExiste
  <2>. HIDE DEF i
  <2>3. i \in DOMAIN pidsCliente /\ pidsCliente[i].pid = PidDe(c)
    BY <2>2
  <2>4. ~conf.kernel
    BY <1>2, <2>3 DEF ConKernelOK
  <2>5. /\ Unicos(pidsCliente) /\ pidGlobal \in Nat
        /\ \A j \in DOMAIN pidsCliente : pidsCliente[j].pid < pidGlobal
    BY <1>2, <2>4 DEF SinKernelOK, TiposOK
  <2>6. pidsCliente[i].fd = x.fd
    <3>1. PidDe(c) = PidEn(pidsCliente, x.fd)
      BY <1>2, <2>4 DEF Duenos
    <3>2. pidsCliente[i].pid # SinPid
      <4>1. pidsCliente[i] \in Registros
        BY <2>1, <2>3, ElementOfSeq, LenProperties
      <4>2. \A p \in Pids : p # SinPid
        BY DEF Pids, SinPid
      <4>. QED
        BY <4>1, <4>2 DEF Registros
    <3>3. PidEn(pidsCliente, pidsCliente[i].fd) = pidsCliente[i].pid
      BY <2>1, <2>3, <2>5, PidEnUnico
    <3>. QED
      BY <2>1, <2>3, <2>5, <3>1, <3>2, <3>3, PidEnUnico
  <2>7. /\ l \in Seq(Registros) /\ Unicos(l)
        /\ \A j \in DOMAIN l : \E k \in DOMAIN pidsCliente : l[j] = pidsCliente[k]
        /\ {l[j].fd : j \in DOMAIN l}
             = {pidsCliente[j].fd : j \in DOMAIN pidsCliente} \ {pidsCliente[i].fd}
        /\ PidEn(l, pidsCliente[i].fd) = SinPid
        /\ \A fd : fd # pidsCliente[i].fd => PidEn(l, fd) = PidEn(pidsCliente, fd)
    BY <2>1, <2>3, <2>5, RegistroQuitado
  <2>. HIDE DEF l
  <2>8. /\ l \in Seq(Registros) /\ Unicos(l)
        /\ \A j \in DOMAIN l : \E k \in DOMAIN pidsCliente : l[j] = pidsCliente[k]
        /\ {l[j].fd : j \in DOMAIN l} = {pidsCliente[j].fd : j \in DOMAIN pidsCliente} \ {x.fd}
        /\ PidEn(l, x.fd) = SinPid
        /\ \A fd : fd # x.fd => PidEn(l, fd) = PidEn(pidsCliente, fd)
    BY <2>6, <2>7
  <2>9. pidsCliente' = l
    BY <1>1, <1>7 DEF i, l
  <2>10. Registra(c, r, l, pidGlobal)
    BY <1>4, <2>4, <2>5, <2>8 DEF Registra, Registrados
  <2>11. heap' = [p \in Pids |-> heap'[p]]
    BY <1>1, <1>2 DEF TiposOK
  <2>12. /\ Conectados' /\ PidDe(c)' = PidEn(l, r.fd)
         /\ \A e \in Clientes \ {c} : cliente'[e] = cliente[e] /\ (Vivo(e) => PidDe(e)' = PidDe(e))
    BY <1>1, <1>2, <1>4, <2>9, <2>10, <2>11, RegistraConectados
  <2>13. PidDe(c)' = SinPid
    BY <1>4, <2>8, <2>12
  <2>14. Ajeno(c)
    <3>1. tiene' = tiene /\ muertos \subseteq muertos' /\ pidGlobal <= pidGlobal' /\ heap' = heap
      BY <1>1, <2>5
    <3>. QED
      BY <2>12, <3>1 DEF Ajeno
  <2>15. BloquesDe(c)'
    <3>1. cliente'[c] = r /\ Cerrando(r)
      BY <1>2, <1>4 DEF TiposOK, Cerrando
    <3>. QED
      BY <1>4, <2>13, <3>1 DEF BloquesDe, Corresponden
  <2>. QED
    BY <2>12, <2>14, <2>15, OtrosSiguen
<1>. QED
  BY <1>6, <1>7


\* A client that connects has no blocks, and its heap has no pages.
LEMMA ConectaServido ==
  ASSUME Servido, NEW c \in Clientes, Conectar(c)
  PROVE  Servido'
<1>1. /\ Conectados'
      /\ \A e \in Clientes \ {c} : cliente'[e] = cliente[e] /\ PidDe(e)' = PidDe(e)
      /\ cliente'[c].op = "nada" /\ cliente'[c].pc = "listo" /\ tiene'[c] = {}
      /\ cliente'[c].fd \in muertos \/ PidDe(c)' = SinPid \/ PidDe(c)' = pidGlobal
  BY ConectaConectados
<1>2. /\ tiene' = tiene /\ muertos' = muertos /\ heap' = heap /\ pidGlobal' \in {pidGlobal, pidGlobal + 1}
      /\ pidGlobal \in Nat
  BY DEF Conectar, Servido, Conectados, TiposOK
<1>3. Ajeno(c)
  BY <1>1, <1>2 DEF Ajeno
<1>4. BloquesDe(c)'
  <2>1. SUFFICES ASSUME cliente'[c].fd \notin muertos
                 PROVE  Corresponden(cliente'[c], {}, PidDe(c)', heap[PidDe(c)'])
    BY <1>1, <1>2 DEF BloquesDe
  <2>2. Suyos(cliente'[c], {}) = {} /\ ~Devolviendo(cliente'[c])
    BY <1>1 DEF Suyos, Devolviendo, Recibiendo
  <2>3. PidDe(c)' # SinPid => heap[PidDe(c)'] = SinHeap
    <3>1. SUFFICES ASSUME PidDe(c)' # SinPid  PROVE heap[pidGlobal] = SinHeap
      BY <1>1, <2>1
    <3>2. Vivo(c)' /\ PidDe(c)' = pidGlobal
      BY <1>1, <2>1, <3>1 DEF Vivo
    <3>3. PidDe(c)' \in Pids
      BY <1>1, <3>1, <3>2, DeQuienDespues DEF Duenos
    <3>. QED
      BY <1>2, <3>2, <3>3 DEF Servido, HeapsOK, Vacio
  <2>. QED
    BY <2>2, <2>3, IgualaVacio DEF Corresponden
<1>. QED
  BY <1>1, <1>3, <1>4, OtrosSiguen

\* One that ends has none either.
LEMMA MuereServido ==
  ASSUME Servido, NEW c \in Clientes, Morir(c)
  PROVE  Servido'
<1>1. /\ Conectados' /\ ~Activo(c)'
      /\ \A e \in Clientes \ {c} : cliente'[e] = cliente[e] /\ tiene'[e] = tiene[e] /\ PidDe(e)' = PidDe(e)
  BY MuereConectados DEF Servido
<1>2. muertos \subseteq muertos' /\ heap' = heap /\ pidGlobal' = pidGlobal /\ pidGlobal \in Nat
  BY DEF Morir, Servido, Conectados, TiposOK
<1>3. Ajeno(c) /\ BloquesDe(c)'
  BY <1>1, <1>2 DEF Ajeno, BloquesDe
<1>. QED
  BY <1>1, <1>3, OtrosSiguen

\* The answers of memoria.
LEMMA AtiendeServido ==
  ASSUME Servido, NEW c \in Clientes, Atender(c)
  PROVE  Servido'
<1>1. CASE Reenviar(c)
  BY <1>1, ReenviaServido
<1>2. CASE AtenderMemalloc(c)
  BY <1>2, MemallocServido, PrimerMemallocServido
<1>3. CASE AtenderSinTabla(c)
  <2>1. UNCHANGED <<conf, cliente, tiene, conexiones, heap>> /\ caido' \in BOOLEAN
    BY <1>3 DEF AtenderSinTabla
  <2>. QED
    BY <2>1, SigueNadie
<1>4. CASE AtenderMemfree(c)
  BY <1>4, MemfreeServido
<1>5. CASE AtenderUso(c)
  BY <1>5, UsoServido
<1>6. CASE AtenderClose(c)
  BY <1>6, CloseServido
<1>7. CASE AtenderOtro(c)
  BY <1>7, OtroServido
<1>8. CASE Recibir(c)
  BY <1>8, RecibeServido
<1>. QED
  BY <1>1, <1>2, <1>3, <1>4, <1>5, <1>6, <1>7, <1>8 DEF Atender

\* The requests of a client.
LEMMA PedidoServido ==
  ASSUME Servido, NEW c \in Clientes,
         \/ \E tam \in 1 .. TamPagina * MaxPaginas : PedirMemalloc(c, tam)
         \/ PedirMemfree(c) \/ PedirUso(c) \/ PedirNulo(c) \/ PedirClose(c) \/ PedirOtro(c)
  PROVE  Servido'
<1>1. SinBloque \in Bloques /\ tiene[c] \in SUBSET Bloques
  BY ClienteBien DEF SinBloque, Bloques
<1>2. {"memalloc", "memfree", "memread", "memwrite", "close", "otro"} \subseteq Pedidos
  BY DEF Pedidos
<1>3. CASE \E tam \in 1 .. TamPagina * MaxPaginas : PedirMemalloc(c, tam)
  <2>1. PICK tam \in 1 .. TamPagina * MaxPaginas : PedirMemalloc(c, tam)
    BY <1>3
  <2>. DEFINE b == [dir |-> 0, tam |-> tam]
  <2>2. b \in Bloques /\ b.tam # 0
    <3>1. tam \in Nat /\ tam # 0
      OBVIOUS
    <3>. QED
      BY <3>1 DEF Bloques
  <2>3. Pedir(c, "memalloc", b) /\ UNCHANGED tiene
    BY <2>1 DEF PedirMemalloc
  <2>. HIDE DEF b
  <2>. QED
    BY <1>2, <2>2, <2>3, PideServido
<1>4. CASE PedirMemfree(c)
  <2>1. PICK b \in tiene[c] : Pedir(c, "memfree", b) /\ tiene' = [tiene EXCEPT ![c] = @ \ {b}]
    BY <1>4 DEF PedirMemfree
  <2>2. b \in Bloques
    BY <1>1
  <2>. QED
    BY <1>2, <2>1, <2>2, PideServido
<1>5. CASE PedirUso(c)
  <2>1. PICK b \in tiene[c], op \in {"memread", "memwrite"} : Pedir(c, op, b) /\ UNCHANGED tiene
    BY <1>5 DEF PedirUso
  <2>2. b \in Bloques /\ op \in Pedidos /\ op # "memalloc" /\ op # "memfree"
    BY <1>1, <1>2
  <2>. QED
    BY <2>1, <2>2, PideServido
<1>6. CASE PedirNulo(c) \/ PedirClose(c) \/ PedirOtro(c)
  <2>1. PICK op \in {"memread", "close", "otro"} : Pedir(c, op, SinBloque) /\ UNCHANGED tiene
    BY <1>6 DEF PedirNulo, PedirClose, PedirOtro
  <2>2. op \in Pedidos /\ op # "memalloc" /\ op # "memfree"
    BY <1>2
  <2>. QED
    BY <1>1, <2>1, <2>2, PideServido
<1>. QED
  BY <1>3, <1>4, <1>5, <1>6

\* Every step of the specification.
LEMMA PasoServido ==
  ASSUME Servido, [Next]_vars
  PROVE  Servido'
<1>1. ASSUME NEW c \in Clientes,
             \/ Conectar(c) \/ \E tam \in 1 .. TamPagina * MaxPaginas : PedirMemalloc(c, tam)
             \/ PedirMemfree(c) \/ PedirUso(c) \/ PedirNulo(c) \/ PedirClose(c) \/ PedirOtro(c)
             \/ Morir(c) \/ Atender(c)
      PROVE  Servido'
  BY <1>1, ConectaServido, PedidoServido, MuereServido, AtiendeServido
<1>2. CASE UNCHANGED vars
  <2>1. UNCHANGED <<conf, cliente, tiene, conexiones, heap>> /\ caido' \in BOOLEAN
    BY <1>2 DEF vars, Servido, Conectados, TiposOK
  <2>. QED
    BY <2>1, SigueNadie
<1>. QED
  BY <1>1, <1>2 DEF Next

\* At the start nobody is connected and no heap has pages.
LEMMA ServidoAlInicio == Init => Servido
<1>. SUFFICES ASSUME Init  PROVE Servido
  OBVIOUS
<1>1. /\ conf \in Configuraciones /\ cliente = [c \in Clientes |-> Afuera] /\ tiene = [c \in Clientes |-> {}]
      /\ abiertos = {} /\ pidsCliente = <<>> /\ pidGlobal = 0 /\ heap = [p \in Pids |-> SinHeap]
      /\ caido = FALSE /\ muertos = {}
  BY DEF Init
<1>2. /\ Afuera.pc = "afuera" /\ Afuera.fd = 0 /\ Afuera.pid = SinPid /\ Afuera.op = "nada"
      /\ \A c \in Clientes : cliente[c] = Afuera
  BY <1>1 DEF Afuera
<1>3. \A c \in Clientes : ~Vivo(c) /\ ~Activo(c)
  BY <1>2 DEF Vivo, Activo
<1>4. TiposOK
  <2>1. 0 \in Respuestas /\ SinBloque \in Bloques
    <3>1. TamPagina \in Nat /\ MaxPaginas \in Nat
      BY TamaniosAssumption
    <3>2. TamPagina * MaxPaginas \in Nat
      BY <3>1
    <3>. QED
      BY <3>2 DEF Respuestas, SinBloque, Bloques
  <2>2. Afuera \in Estado
    BY <2>1 DEF Afuera, Estado, Estados
  <2>3. heap = [p \in Pids |-> heap[p]]
    BY <1>1
  <2>4. pidsCliente \in Seq(Registros)
    BY <1>1
  <2>. QED
    BY <1>1, <2>2, <2>3, <2>4 DEF TiposOK
<1>5. ClientesOK
  BY <1>1, <1>2, <1>3 DEF ClientesOK
<1>6. ConKernelOK
  BY <1>1, <1>3 DEF ConKernelOK
<1>7. SinKernelOK
  <2>1. DOMAIN pidsCliente = {}
    BY <1>1
  <2>2. Registrados = {} /\ Unicos(pidsCliente)
    BY <2>1 DEF Registrados, Unicos
  <2>3. {cliente[c].fd : c \in {e \in Clientes : Vivo(e)}} = {}
    BY <1>3
  <2>. QED
    BY <1>1, <1>2, <1>3, <2>1, <2>2, <2>3 DEF SinKernelOK
<1>8. PidsAlcanzan
  <2>. DEFINE Q == {c \in Clientes : Contado(c)}
  <2>1. Q \subseteq Clientes
    OBVIOUS
  <2>. HIDE DEF Q
  <2>2. Cardinality(Q) \in Nat
    BY <2>1, MasContados
  <2>. QED
    BY <1>1, <2>2 DEF PidsAlcanzan, Q
<1>9. HeapsOK
  BY <1>1 DEF HeapsOK, HeapOK, Vacio
<1>10. BloquesOK
  BY <1>3 DEF BloquesOK, BloquesDe
<1>. QED
  BY <1>4, <1>5, <1>6, <1>7, <1>8, <1>9, <1>10 DEF Servido, Conectados

\* Servido holds for ever: initially, and after every action of every client, of the kernel and of memoria.
LEMMA ServidoSiempre == Spec => []Servido
<1>1. Servido /\ [Next]_vars => Servido'
  BY PasoServido
<1>. QED
  BY <1>1, ServidoAlInicio, PTL DEF Spec

-----------------------------------------------------------------------------
\* What it gives.

\* The types, of the headers too.
LEMMA ServidoTipos == Servido => TypeOK
<1>. SUFFICES ASSUME Servido  PROVE TypeOK
  OBVIOUS
<1>1. TiposOK /\ HeapsOK /\ pidGlobal \in 0 .. Cardinality(Clientes)
  BY DeQuien DEF Servido, Conectados, Duenos
<1>2. ASSUME NEW p \in Pids
      PROVE  /\ heap[p].ids \in Seq(Nat) /\ Len(heap[p].ids) <= MaxPaginas /\ heap[p].defecto \in Defectos
             /\ \A d \in DOMAIN heap[p].hdr :
                   d \in Nat /\ heap[p].hdr[d] \in [prev : Nat, next : Nat, libre : BOOLEAN]
  <2>. DEFINE h == heap[p]
  <2>1. HeapOK(h)
    BY <1>1 DEF HeapsOK
  <2>. HIDE DEF h
  <2>2. CASE Vacio(h)
    <3>1. h.ids = <<>> /\ h.hdr = <<>> /\ h.defecto = "ninguno"
      BY <2>2 DEF Vacio, SinHeap
    <3>2. <<>> \in Seq(Nat) /\ Len(<<>>) = 0 /\ DOMAIN <<>> = {} /\ MaxPaginas \in Nat
      BY TamaniosAssumption
    <3>. QED
      BY <3>1, <3>2 DEF h, Defectos
  <2>3. CASE EsHeap(h)
    BY <2>3 DEF EsHeap, Headers, h
  <2>. QED
    BY <2>1, <2>2, <2>3 DEF HeapOK, Roto, Encadenado
<1>3. \A c \in Clientes : tiene[c] \subseteq Bloques
  BY <1>1 DEF TiposOK
<1>. QED
  BY <1>1, <1>2, <1>3 DEF TypeOK, TiposOK, Estado, Estados, Respuestas, Registros

\* Every variable stays within its type, the headers of every heap among them: no link and
\* no address is ever negative, and no PID is given to more clients than there are.
THEOREM TiposDeConexion == Spec => []TypeOK
<1>1. Servido => TypeOK
  BY ServidoTipos
<1>. QED
  BY <1>1, ServidoSiempre, PTL

\* A heap that is a chain is one for the walk from address 0.
LEMMA ServidoCadena == Servido => CadenaDeBloques
<1>. SUFFICES ASSUME Servido, NEW p \in Pids, heap[p].ids # <<>>, Servible(heap[p])
              PROVE  /\ CadenaTermina(heap[p])
                     /\ \E cad \in {Cadena(heap[p])} :
                           /\ \A i \in 2 .. Len(cad) :
                                 /\ cad[i] > cad[i - 1] + TamHeader
                                 /\ heap[p].hdr[cad[i]].prev = cad[i - 1]
                           /\ heap[p].hdr[Last(cad)].libre
                           /\ Last(cad) + TamHeader <= Total(heap[p])
  BY DEF CadenaDeBloques
<1>. DEFINE h == heap[p]
            cad == Cadena(h)
<1>1. Encadenado(h, DOMAIN h.hdr) /\ EsHeap(h)
  BY ConPaginas DEF Servido, HeapsOK
<1>2. EnCadena(h.hdr, DOMAIN h.hdr) /\ LibresOK(h.hdr, DOMAIN h.hdr, Total(h))
  BY <1>1 DEF Encadenado
<1>3. IsFiniteSet(DOMAIN h.hdr) /\ DOMAIN h.hdr \subseteq Nat /\ h.hdr \in [DOMAIN h.hdr -> Headers]
  BY <1>1 DEF EsHeap
<1>4. /\ CadenaTermina(h)
      /\ \A i \in 2 .. Len(cad) : cad[i] > cad[i - 1] + TamHeader /\ h.hdr[cad[i]].prev = cad[i - 1]
      /\ h.hdr[Last(cad)].next = 0 /\ Last(cad) \in DOMAIN h.hdr
  BY <1>2, <1>3, CadenaDe
<1>5. h.hdr[Last(cad)].libre /\ Last(cad) + TamHeader <= Total(h)
  BY <1>2, <1>4 DEF LibresOK
<1>. QED
  BY <1>4, <1>5

\* The headers of every heap are one chain that goes up to a free one inside its pages, with
\* back links that are right, after any memalloc and memfree of any clients, for pages and
\* headers of any size.
THEOREM CadenaSiempreBien == Spec => []CadenaDeBloques
<1>1. Servido => CadenaDeBloques
  BY ServidoCadena
<1>. QED
  BY <1>1, ServidoSiempre, PTL

\* What LibresOK says of the chain is what the walk finds.
LEMMA ServidoLibres == Servido => SinLibresContiguos
<1>. SUFFICES ASSUME Servido, NEW p \in Pids, Servible(heap[p]), NEW d \in DOMAIN heap[p].hdr,
                     heap[p].hdr[d].libre, heap[p].hdr[d].next # 0
              PROVE  ~heap[p].hdr[heap[p].hdr[d].next].libre
  BY DEF SinLibresContiguos
<1>1. HeapOK(heap[p])
  BY DEF Servido, HeapsOK
<1>2. ~Vacio(heap[p])
  BY DEF Vacio, SinHeap
<1>3. LibresOK(heap[p].hdr, DOMAIN heap[p].hdr, Total(heap[p]))
  BY <1>1, <1>2 DEF HeapOK, Roto, Encadenado
<1>. QED
  BY <1>3 DEF LibresOK

\* memfree joins what it frees with both neighbours, however the heap was: no free block
\* follows another.
THEOREM NuncaLibresContiguos == Spec => []SinLibresContiguos
<1>1. Servido => SinLibresContiguos
  BY ServidoLibres
<1>. QED
  BY <1>1, ServidoSiempre, PTL

\* What the client holds is in Suyos.
LEMMA ServidoBloques == Servido => BloquesDelCliente
<1>. SUFFICES ASSUME Servido, NEW c \in Clientes, cliente[c].pc = "listo", cliente[c].fd \notin muertos,
                     PidDe(c) # SinPid, Sano(heap[PidDe(c)])
              PROVE  /\ {b.dir : b \in tiene[c]} = {u.dir : u \in Usados(heap[PidDe(c)])}
                     /\ \A b \in tiene[c], u \in Usados(heap[PidDe(c)]) : b.dir = u.dir => b.tam <= u.cabe
  BY DEF BloquesDelCliente
<1>. DEFINE h == heap[PidDe(c)]
            B == tiene[c]
<1>1. Vivo(c) /\ Activo(c) /\ cliente[c].op = "nada"
  BY ClienteBien DEF Vivo, Activo
<1>2. HeapOK(h)
  BY <1>1, SuHeap
<1>3. Iguala(B, h)
  <2>1. Corresponden(cliente[c], B, PidDe(c), h)
    BY <1>1 DEF Servido, BloquesOK, BloquesDe
  <2>2. Suyos(cliente[c], B) = B
    BY <1>1 DEF Suyos, Devolviendo, Recibiendo
  <2>. QED
    BY <2>1, <2>2 DEF Corresponden
<1>. HIDE DEF h, B
<1>4. Usados(h) = {[dir |-> d + TamHeader, cabe |-> Espacio(h, d)] : d \in EnUso(h)}
  <2>1. CASE h.ids = <<>>
    <3>1. Servible(h)
      BY DEF Servible, Sano, h
    <3>2. h = SinHeap
      BY <1>2, <2>1, <3>1 DEF HeapOK, Vacio, Roto, Encadenado
    <3>3. EnUso(h) = {}
      BY <3>2 DEF SinHeap, EnUso
    <3>. QED
      BY <2>1, <3>3 DEF Usados
  <2>2. CASE h.ids # <<>>
    BY <2>2 DEF Usados, EnUso
  <2>. QED
    BY <2>1, <2>2
<1>5. {u.dir : u \in Usados(h)} = {d + TamHeader : d \in EnUso(h)}
  <2>. DEFINE De(d) == [dir |-> d + TamHeader, cabe |-> Espacio(h, d)]
  <2>1. Usados(h) = {De(d) : d \in EnUso(h)} /\ \A d : De(d).dir = d + TamHeader
    BY <1>4
  <2>. HIDE DEF De
  <2>. QED
    BY <2>1
<1>6. ASSUME NEW b \in B, NEW u \in Usados(h), b.dir = u.dir  PROVE b.tam <= u.cabe
  <2>1. PICK d \in EnUso(h) : u = [dir |-> d + TamHeader, cabe |-> Espacio(h, d)]
    BY <1>4
  <2>. QED
    BY <1>3, <1>6, <2>1 DEF Iguala
<1>7. {b.dir : b \in B} = {d + TamHeader : d \in EnUso(h)}
  BY <1>3 DEF Iguala
<1>. QED
  BY <1>5, <1>6, <1>7 DEF h, B

\* What a client holds are the used blocks of its own heap, whatever the other clients did
\* meanwhile: none is lost, none is given twice, none is another's, and each is as large as
\* it asked for.  (Of heaps the allocator has neither broken nor moved, and of descriptors on
\* which nobody died: memoria does not forget the PID of one that did.)
THEOREM BloquesSiempreSuyos == Spec => []BloquesDelCliente
<1>1. Servido => BloquesDelCliente
  BY ServidoBloques
<1>. QED
  BY <1>1, ServidoSiempre, PTL

=============================================================================
