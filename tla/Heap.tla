---------------------------------- MODULE Heap ----------------------------------
(***************************************************************************)
(* The allocator of memoria (memoria/src/memoria.c, memalloc to            *)
(* actualizar_headers_por_liberar_pagina) as operators on the heap of one  *)
(* process: its pages, by id, and the headers written in them, by logical  *)
(* address.  A block goes from its header to the next one; address 0 is    *)
(* the first header, and as a link it is also NULL: the last header has    *)
(* next = 0.  Contents of blocks are left out: clients stay inside theirs. *)
(* Assignment is fixed.  TAMANIO_PAGINA is a power of two, as in           *)
(* memoria.config: the offsets the code computes with doubles are exact.   *)
(*                                                                         *)
(* A request that makes the code write or read a header where it is not    *)
(* marks the heap with the defect; nothing is said of it afterwards.       *)
(***************************************************************************)
EXTENDS Integers, FiniteSets, Sequences, SequencesExt

CONSTANTS
    TamPagina,          \* TAMANIO_PAGINA
    TamHeader,          \* sizeof(heap_metadata)
    MaxPaginas          \* MAX_FRAMES_SWAP: pages of a process in swamp

ASSUME TamaniosAssumption ==
    TamHeader \in Nat \ {0} /\ TamPagina \in Nat /\ TamPagina >= 2 * TamHeader /\ MaxPaginas \in Nat

Techo(n) == (n + TamPagina - 1) \div TamPagina
Pagina(dir) == dir \div TamPagina
Offset(dir) == dir % TamPagina
Total(h) == Len(h.ids) * TamPagina

Header(prev, next, libre) == [prev |-> prev, next |-> next, libre |-> libre]
SinHeap == [ids |-> <<>>, hdr |-> <<>>, defecto |-> "ninguno"]
Defecto(h, cual) == [h EXCEPT !.hdr = <<>>, !.defecto = cual]
Sano(h) == h.defecto = "ninguno"

\* guardar_header, when it writes where it should.
Guardar(hdr, dir, cab) == [d \in DOMAIN hdr \union {dir} |-> IF d = dir THEN cab ELSE hdr[d]]

(***************************************************************************)
(* guardar_header gets a page and an offset in it.  Past the end of that   *)
(* page it takes the following one, and there it does not look whether the *)
(* header fits.                                                            *)
(***************************************************************************)
GuardaBien(offset) == offset > TamPagina => offset - TamPagina + TamHeader <= TamPagina

-----------------------------------------------------------------------------
\* The chain of headers

\* The headers from the first one on, following next; NULL leads back to it.
Recorrido(h) ==
    LET r[n \in 0 .. Cardinality(DOMAIN h.hdr)] == IF n = 0 THEN 0 ELSE h.hdr[r[n - 1]].next
    IN  r

CadenaTermina(h) == \E i \in DOMAIN Recorrido(h) : h.hdr[Recorrido(h)[i]].next = 0

\* The headers up to the last one.
Cadena(h) ==
    LET r == Recorrido(h)
        fin == Min({i \in DOMAIN r : h.hdr[r[i]].next = 0})
    IN  [i \in 1 .. fin + 1 |-> r[i - 1]]

\* A header that has left the chain is forgotten: it is never looked at again.
Servible(h) == h.defecto \in {"ninguno", "movido"}
Limpiar(h) ==
    IF Servible(h) /\ CadenaTermina(h) THEN [h EXCEPT !.hdr = Restrict(@, ToSet(Cadena(h)))]
    ELSE h

-----------------------------------------------------------------------------
\* memalloc

\* Case A: the first block and, after it, the last header.
Primera(size) ==
    [ids |-> [i \in 1 .. Techo(size + 2 * TamHeader) |-> i - 1],
     hdr |-> Guardar(Guardar(<<>>, 0, Header(0, TamHeader + size, FALSE)),
                     TamHeader + size, Header(0, 0, TRUE)),
     defecto |-> "ninguno"]

\* The space of a block that is not the last, without its header.
Espacio(h, dir) == h.hdr[dir].next - dir - TamHeader

\* The subtraction of two headers is unsigned: what is smaller than one more
\* header looks enormous.
Sobra(h, dir, size) == Espacio(h, dir) - TamHeader > size \/ Espacio(h, dir) < TamHeader

Sirve(h, dir, size) ==
    /\ h.hdr[dir].libre
    /\ h.hdr[dir].next = 0 \/ Espacio(h, dir) = size \/ Sobra(h, dir, size)

\* obtener_alloc_disponible goes on until a free block serves: the last one does.
Disponible(h, size) ==
    LET r == Recorrido(h)
        n == CHOOSE i \in DOMAIN r : /\ Sirve(h, r[i], size)
                                     /\ \A j \in 0 .. i - 1 : ~Sirve(h, r[j], size)
    IN  r[n]

Ocupar(h, dir) == [h EXCEPT !.hdr[dir].libre = FALSE]

\* B.A: the block is reused as it is.
Reusar(h, dir) == Ocupar(h, dir)

\* A mutation: the header after the rest keeps its previous one.
PartirSinEnlace(h, dir, size) ==
    LET nueva == dir + TamHeader + size
        hdr1 == Guardar(h.hdr, nueva, Header(dir, h.hdr[dir].next, TRUE))
    IN  [h EXCEPT !.hdr = [hdr1 EXCEPT ![dir].next = nueva, ![dir].libre = FALSE]]

\* B.B: the rest becomes a free block.  The old header is saved in the page of the
\* new one, at its own offset.
Partir(h, dir, size) ==
    LET nueva == dir + TamHeader + size
        sig == h.hdr[dir].next
        hdr1 == Guardar(h.hdr, nueva, Header(dir, sig, TRUE))
        hdr2 == [hdr1 EXCEPT ![sig].prev = nueva, ![dir].next = nueva, ![dir].libre = FALSE]
    IN  IF Espacio(h, dir) < TamHeader THEN Defecto(h, "desborde")
        ELSE IF Pagina(nueva) # Pagina(dir) THEN Defecto(h, "otraPagina")
        ELSE [h EXCEPT !.hdr = hdr2]

\* The last block, with room for size and another header.
PartirUltimo(h, dir, size) ==
    LET nueva == dir + TamHeader + size IN
    IF ~GuardaBien(Offset(dir) + TamHeader + size) THEN Defecto(h, "fueraDePagina")
    ELSE [h EXCEPT !.hdr = Guardar([@ EXCEPT ![dir].next = nueva, ![dir].libre = FALSE],
                                   nueva, Header(dir, 0, TRUE))]

\* The last block grows by the pages it lacks, if swamp has them.  Its header is
\* looked for in the last page, also when it starts in the one before.
PaginasQueFaltan(h, dir, size) == Techo(size + 2 * TamHeader - (Total(h) - dir))
Crecer(h, dir, size) ==
    LET n == PaginasQueFaltan(h, dir, size)
        nueva == dir + TamHeader + size
    IN  IF Pagina(dir) # Len(h.ids) - 1 THEN Defecto(h, "offsetNegativo")
        ELSE [h EXCEPT !.ids = @ \o [i \in 1 .. n |-> Last(h.ids) + i],
                       !.hdr = Guardar([@ EXCEPT ![dir].next = nueva, ![dir].libre = FALSE],
                                       nueva, Header(dir, 0, TRUE))]

HayQueCrecer(h, dir, size) == h.hdr[dir].next = 0 /\ Total(h) - dir - 2 * TamHeader <= size

\* A mutation: nobody refuses.
NegadoNunca(h, size) == FALSE

\* The request fails and nothing changes: swamp refuses the first pages, memoria itself
\* the ones that would make the last page swamp has for the process, or more.
Negado(h, size) ==
    IF h.ids = <<>> THEN Techo(size + 2 * TamHeader) > MaxPaginas
    ELSE \E dir \in {Disponible(h, size)} :
            HayQueCrecer(h, dir, size) /\ Len(h.ids) + PaginasQueFaltan(h, dir, size) >= MaxPaginas

\* The heap and the address after memalloc, when it is not refused.
Alocar(h, size) ==
    IF h.ids = <<>> THEN [heap |-> Primera(size), dir |-> TamHeader]
    ELSE LET dir == Disponible(h, size) IN
         [heap |-> IF HayQueCrecer(h, dir, size) THEN Crecer(h, dir, size)
                   ELSE IF h.hdr[dir].next = 0 THEN PartirUltimo(h, dir, size)
                   ELSE IF Espacio(h, dir) = size THEN Reusar(h, dir)
                   ELSE Partir(h, dir, size),
          dir |-> dir + TamHeader]

-----------------------------------------------------------------------------
\* memfree

\* The addresses after a page has been taken out: what follows moves down.
Bajar(dir, pagina) == IF Pagina(dir) > pagina THEN dir - TamPagina ELSE dir
QuitarPagina(h, pagina) ==
    LET fijas == {d \in DOMAIN h.hdr : Pagina(d) # pagina} IN
    [ids |-> RemoveAt(h.ids, pagina + 1),
     hdr |-> [d \in {Bajar(e, pagina) : e \in fijas} |->
                LET e == CHOOSE e \in fijas : Bajar(e, pagina) = d IN
                [h.hdr[e] EXCEPT !.prev = IF e = 0 THEN @ ELSE Bajar(@, pagina),
                                !.next = Bajar(@, pagina)]],
     defecto |-> "movido"]

(***************************************************************************)
(* liberar_si_hay_paginas_libres, for the free space from desde to hasta   *)
(* (0: to the end).  It takes out the pages strictly between both ends,    *)
(* and then, at the end, the last one.                                     *)
(*                                                                         *)
(* The places of the pages are not adjusted after the first is taken out.  *)
(* The headers are corrected from the first that points past the page: up  *)
(* to the end of the heap there is none, and the search does not end; when *)
(* it is the first header of all, where to save it is not initialised.     *)
(***************************************************************************)
PaginasIntermedias(h, desde, hasta) ==
    (IF hasta = 0 THEN Len(h.ids) - 1 ELSE Pagina(hasta)) - Pagina(desde) - 1

SobraUltima(h, desde, hasta) == hasta = 0 /\ Total(h) - desde > TamPagina

LiberarPaginas(h, desde, hasta) ==
    LET m == PaginasIntermedias(h, desde, hasta) IN
    IF m <= 0
    THEN IF SobraUltima(h, desde, hasta) THEN [h EXCEPT !.ids = Front(@)] ELSE h
    ELSE IF hasta = 0 THEN Defecto(h, "busquedaSinFin")
    ELSE IF Pagina(h.hdr[0].next) > Pagina(desde) THEN Defecto(h, "sinInicializar")
    ELSE IF m > 1 THEN Defecto(h, "paginaEquivocada")
    ELSE QuitarPagina(h, Pagina(desde) + 1)

\* The block at dir with the free one that follows it.  The header after that gets
\* the previous one; when there is none, the one written is that of address 0.
Unir(h, dir, anterior) ==
    LET post == h.hdr[h.hdr[dir].next].next
        hdr1 == [h.hdr EXCEPT ![dir].next = post]
    IN  [h EXCEPT !.hdr = [hdr1 EXCEPT ![post].prev = anterior]]

EsPrimero(h, dir) == h.hdr[dir].prev = 0 /\ h.hdr[h.hdr[dir].next].prev = 0
SiguienteLibre(h, dir) == h.hdr[h.hdr[dir].next].libre
\* A mutation: the header before is not looked at.
AnteriorOcupado(h, dir) == FALSE

AnteriorLibre(h, dir) == h.hdr[h.hdr[dir].prev].libre

\* A.1, A.2
LiberarPrimero(h, dir) ==
    LET h1 == IF SiguienteLibre(h, dir) THEN Unir(h, dir, h.hdr[h.hdr[dir].next].prev) ELSE h
        h2 == [h1 EXCEPT !.hdr[dir].libre = TRUE]
    IN  LiberarPaginas(h2, TamHeader, h2.hdr[dir].next)

\* B.1 to B.4
LiberarOtro(h, dir) ==
    LET ant == h.hdr[dir].prev
        sig == h.hdr[dir].next
        post == h.hdr[sig].next
        libre == [h EXCEPT !.hdr[dir].libre = TRUE]
        unidoAtras == [h EXCEPT !.hdr[ant].next = sig, !.hdr[sig].prev = ant]
        unidoTodo == [h EXCEPT !.hdr = [[@ EXCEPT ![ant].next = post] EXCEPT ![post].prev = ant]]
    IN  CASE ~AnteriorLibre(h, dir) /\ ~SiguienteLibre(h, dir) ->
               LiberarPaginas(libre, h.hdr[ant].next + TamHeader, sig)
          [] AnteriorLibre(h, dir) /\ ~SiguienteLibre(h, dir) ->
               LiberarPaginas(unidoAtras, ant + TamHeader, sig)
          [] ~AnteriorLibre(h, dir) /\ SiguienteLibre(h, dir) ->
               LiberarPaginas(Unir(libre, dir, h.hdr[sig].prev), h.hdr[sig].prev + TamHeader, post)
          [] OTHER ->
               LiberarPaginas(unidoTodo, ant + TamHeader, post)

\* The previous header of the first block is overwritten by a join at the end of the
\* heap: then it is freed as if it had one before.
Liberar(h, dir) ==
    IF dir \notin DOMAIN h.hdr THEN Defecto(h, "sinHeader")
    ELSE IF EsPrimero(h, dir) THEN Limpiar(LiberarPrimero(h, dir))
    ELSE IF dir = 0 THEN Defecto(h, "primeroConAnterior")
    ELSE Limpiar(LiberarOtro(h, dir))

\* memfree of the last header is refused.
EsUltimo(h, dir) == h.hdr[dir].next = 0

-----------------------------------------------------------------------------
\* memread and memwrite of size bytes at an address: inside the pages, or a fault;
\* they take every place of the table for an id.
DentroDeLasPaginas(h, dir, size) ==
    Pagina(dir) <= Len(h.ids) /\ dir + size <= Total(h)
SinHuecos(h) == \A i \in DOMAIN h.ids : h.ids[i] = i - 1

\* The used blocks: the address the client has, and how much fits.
Usados(h) ==
    IF h.ids = <<>> THEN {}
    ELSE {[dir |-> d + TamHeader, cabe |-> Espacio(h, d)] :
            d \in {e \in DOMAIN h.hdr : ~h.hdr[e].libre /\ h.hdr[e].next # 0}}
=============================================================================
