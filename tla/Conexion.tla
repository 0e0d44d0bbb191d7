-------------------------------- MODULE Conexion --------------------------------
(***************************************************************************)
(* The memory requests of the carpinchos from end to end: matelib          *)
(* (mate_init, mate_memalloc, mate_memfree, mate_memread, mate_memwrite,   *)
(* mate_close), the kernel that passes them on with the PID over a         *)
(* connection of their own, and the threads of memoria that serve them.    *)
(* Without a kernel memoria itself says who asks, by the descriptor of     *)
(* the connection.  The heap a request works on is module Heap.            *)
(*                                                                         *)
(* A client is correct: it waits for each answer, frees what it got and    *)
(* once, and reads and writes inside it.  It may die without a close.      *)
(***************************************************************************)
EXTENDS Heap

CONSTANTS
    Clientes,           \* carpinchos
    Configuraciones     \* ways to run memoria, see below

(***************************************************************************)
(* kernel is KERNEL_EXISTE; particiones is how many processes fit in       *)
(* swamp; clientes, tamanios, bloques (held by a client at once) and       *)
(* pedidos bound what the clients do.                                      *)
(***************************************************************************)
Pedidos == {"memalloc", "memfree", "memread", "memwrite", "close", "otro", "morir"}
ASSUME ConfiguracionesAssumption ==
    \A c \in Configuraciones :
        /\ c.kernel \in BOOLEAN /\ c.particiones \in Nat /\ c.clientes \subseteq Clientes
        /\ c.tamanios \subseteq Nat \ {0} /\ c.bloques \in Nat /\ c.pedidos \subseteq Pedidos

ASSUME ClientesAssumption == IsFiniteSet(Clientes)

Descriptores == 1 .. Cardinality(Clientes)
Pids == 0 .. Cardinality(Clientes) - 1
SinPid == -1
SinBloque == [dir |-> 0, tam |-> 1]

VARIABLES
    conf,               \* memoria.config and the bounds
    cliente,            \* each client: where it is, descriptor, kernel's PID, request, answer
    tiene,              \* the blocks each client holds: address and size asked for
    abiertos,           \* descriptors of memoria in use
    pidsCliente,        \* PIDS_CLIENTE
    pidGlobal,          \* PID_GLOBAL of memoria, or the kernel's count
    heap,               \* the heap of each PID
    caido,              \* memoria has crashed
    muertos             \* history: descriptors closed without a close

conexiones == <<abiertos, pidsCliente, pidGlobal, muertos>>
vars == <<conf, cliente, tiene, conexiones, heap, caido>>

Afuera == [pc |-> "afuera", fd |-> 0, pid |-> SinPid, op |-> "nada", bloque |-> SinBloque, resp |-> 0]

Init ==
    /\ conf \in Configuraciones
    /\ cliente = [c \in Clientes |-> Afuera]
    /\ tiene = [c \in Clientes |-> {}]
    /\ abiertos = {}
    /\ pidsCliente = <<>>
    /\ pidGlobal = 0
    /\ heap = [p \in Pids |-> SinHeap]
    /\ caido = FALSE
    /\ muertos = {}

-----------------------------------------------------------------------------
\* Clients

\* mate_init: the connection and the handshake.  accept takes the lowest descriptor free;
\* the kernel numbers its carpinchos.
Conectar(c) ==
    /\ cliente[c].pc = "afuera" /\ c \in conf.clientes /\ ~caido
    /\ IF conf.kernel
       THEN /\ cliente' = [cliente EXCEPT ![c].pc = "listo", ![c].pid = pidGlobal]
            /\ pidGlobal' = pidGlobal + 1
            /\ UNCHANGED abiertos
       ELSE \E fd \in {Min(Descriptores \ abiertos)} :
            /\ cliente' = [cliente EXCEPT ![c].pc = "listo", ![c].fd = fd]
            /\ abiertos' = abiertos \union {fd}
            /\ UNCHANGED pidGlobal
    /\ UNCHANGED <<conf, tiene, pidsCliente, muertos, heap, caido>>

Pedir(c, op, bloque) ==
    /\ cliente[c].pc = "listo" /\ op \in conf.pedidos
    /\ cliente' = [cliente EXCEPT ![c].pc = "pidiendo", ![c].op = op, ![c].bloque = bloque]
    /\ UNCHANGED <<conf, conexiones, heap, caido>>

PedirMemalloc(c, tam) ==
    /\ tam \in conf.tamanios
    /\ Cardinality(tiene[c]) < conf.bloques
    /\ Pedir(c, "memalloc", [dir |-> 0, tam |-> tam])
    /\ UNCHANGED tiene

PedirMemfree(c) ==
    \E b \in tiene[c] : Pedir(c, "memfree", b) /\ tiene' = [tiene EXCEPT ![c] = @ \ {b}]

\* memread or memwrite of a block it has.
PedirUso(c) ==
    \E b \in tiene[c], op \in {"memread", "memwrite"} : Pedir(c, op, b) /\ UNCHANGED tiene

\* mate_memalloc gives NULL when it is refused, and NULL is an address like another.
PedirNulo(c) == tiene[c] = {} /\ Pedir(c, "memread", SinBloque) /\ UNCHANGED tiene

PedirClose(c) == Pedir(c, "close", SinBloque) /\ UNCHANGED tiene

\* Without a kernel, a semaphore or an I/O.
PedirOtro(c) == ~conf.kernel /\ Pedir(c, "otro", SinBloque) /\ UNCHANGED tiene

\* The client ends without mate_close: its thread in memoria closes the descriptor and
\* ends, and nobody takes it out of PIDS_CLIENTE.
Morir(c) ==
    /\ "morir" \in conf.pedidos /\ ~conf.kernel /\ ~caido
    /\ cliente[c].pc = "listo"
    /\ cliente' = [cliente EXCEPT ![c] = [Afuera EXCEPT !.pc = "muerto"]]
    /\ tiene' = [tiene EXCEPT ![c] = {}]
    /\ abiertos' = abiertos \ {cliente[c].fd}
    /\ muertos' = muertos \union {cliente[c].fd}
    /\ UNCHANGED <<conf, pidsCliente, pidGlobal, heap, caido>>

-----------------------------------------------------------------------------
\* The kernel

\* The processor of the carpincho connects with memoria.
Reenviar(c) ==
    /\ conf.kernel /\ cliente[c].pc = "pidiendo" /\ cliente[c].op # "close" /\ ~caido
    /\ cliente' = [cliente EXCEPT ![c].pc = "reenviado"]
    /\ UNCHANGED <<conf, tiene, conexiones, heap, caido>>

-----------------------------------------------------------------------------
\* The threads of memoria

\* A mutation: whoever has a record.
PrimerPid(fd) == IF pidsCliente = <<>> THEN SinPid ELSE pidsCliente[1].pid

\* pid_por_conexion
PidPorConexion(fd) ==
    LET suyos == {i \in DOMAIN pidsCliente : pidsCliente[i].fd = fd} IN
    IF suyos = {} THEN SinPid ELSE pidsCliente[Min(suyos)].pid

PidDe(c) == IF conf.kernel THEN cliente[c].pid ELSE PidPorConexion(cliente[c].fd)

Llego(c, ops) ==
    /\ cliente[c].op \in ops /\ ~caido
    /\ cliente[c].pc = IF conf.kernel THEN "reenviado" ELSE "pidiendo"

Responder(c, resp) == cliente' = [cliente EXCEPT ![c].pc = "respondido", ![c].resp = resp]

\* swamp has no partition for another process.
SinParticion(h) ==
    h.ids = <<>> /\ Cardinality({p \in Pids : heap[p].ids # <<>>}) >= conf.particiones

\* A mutation: memalloc returns without an answer.
NegarCallado(c) == cliente' = [cliente EXCEPT ![c].pc = "sinRespuesta"]

Negar(c) == Responder(c, -1)

\* memalloc gives a new PID to a connection that has none, also when it is refused then.
AtenderMemalloc(c) ==
    /\ Llego(c, {"memalloc"})
    /\ \E pid \in {IF PidDe(c) = SinPid THEN pidGlobal ELSE PidDe(c)} : \E h \in {heap[pid]} :
          /\ Servible(h)
          /\ IF PidDe(c) = SinPid
             THEN /\ pidsCliente' = Append(pidsCliente, [fd |-> cliente[c].fd, pid |-> pid])
                  /\ pidGlobal' = pidGlobal + 1
             ELSE UNCHANGED <<pidsCliente, pidGlobal>>
          /\ IF SinParticion(h) \/ Negado(h, cliente[c].bloque.tam)
             THEN Negar(c) /\ UNCHANGED heap
             ELSE \E r \in {Alocar(h, cliente[c].bloque.tam)} :
                     /\ heap' = [heap EXCEPT ![pid] = r.heap]
                     /\ Responder(c, r.dir)
    /\ UNCHANGED <<conf, tiene, abiertos, muertos, caido>>

\* memfree, memread and memwrite do not look whether the process has a table.
ConTabla(c) == PidDe(c) # SinPid /\ heap[PidDe(c)].ids # <<>>
AtenderSinTabla(c) ==
    /\ Llego(c, {"memfree", "memread", "memwrite"}) /\ ~ConTabla(c)
    /\ caido' = TRUE
    /\ UNCHANGED <<conf, cliente, tiene, conexiones, heap>>

AtenderMemfree(c) ==
    /\ Llego(c, {"memfree"}) /\ ConTabla(c)
    /\ \E h \in {heap[PidDe(c)]}, dir \in {cliente[c].bloque.dir - TamHeader} :
          /\ Servible(h)
          /\ IF dir \in DOMAIN h.hdr /\ EsUltimo(h, dir)
             THEN Responder(c, -5) /\ UNCHANGED heap
             ELSE heap' = [heap EXCEPT ![PidDe(c)] = Liberar(h, dir)] /\ Responder(c, 1)
    /\ UNCHANGED <<conf, tiene, conexiones, caido>>

\* A write where a block was before its heap moved may fall on a header.
AtenderUso(c) ==
    /\ Llego(c, {"memread", "memwrite"}) /\ ConTabla(c)
    /\ \E h \in {heap[PidDe(c)]}, b \in {cliente[c].bloque} :
          /\ Servible(h)
          /\ IF ~DentroDeLasPaginas(h, b.dir, b.tam)
             THEN Responder(c, IF cliente[c].op = "memread" THEN -6 ELSE -7) /\ UNCHANGED <<heap, caido>>
             ELSE IF ~SinHuecos(h)
             THEN caido' = TRUE /\ UNCHANGED <<heap, cliente>>
             ELSE /\ heap' = IF cliente[c].op = "memwrite" /\ ~Sano(h)
                             THEN [heap EXCEPT ![PidDe(c)] = Defecto(h, "pisado")] ELSE heap
                  /\ Responder(c, 1)
                  /\ UNCHANGED caido
    /\ UNCHANGED <<conf, tiene, conexiones>>

\* eliminar_proceso forgets the connection of the PID and nothing else; memoria leaves its
\* descriptor open.  The kernel answers first and its carpinchos have no record.
AtenderClose(c) ==
    /\ cliente[c].pc = "pidiendo" /\ cliente[c].op = "close" /\ ~caido
    /\ LET deEse == {i \in DOMAIN pidsCliente : pidsCliente[i].pid = PidDe(c)} IN
       pidsCliente' = IF deEse = {} THEN pidsCliente ELSE RemoveAt(pidsCliente, Min(deEse))
    /\ Responder(c, 1)
    /\ UNCHANGED <<conf, tiene, abiertos, pidGlobal, muertos, heap, caido>>

\* An operation memoria does not know ends its thread, and nobody answers.
AtenderOtro(c) ==
    /\ Llego(c, {"otro"})
    /\ cliente' = [cliente EXCEPT ![c].pc = "sinHilo"]
    /\ UNCHANGED <<conf, tiene, conexiones, heap, caido>>

-----------------------------------------------------------------------------
\* The answer is read, through the kernel if there is one.
Recibir(c) ==
    /\ cliente[c].pc = "respondido"
    /\ LET pedido == cliente[c] IN
          /\ cliente' = [cliente EXCEPT ![c] =
                           [pedido EXCEPT !.pc = IF pedido.op = "close" THEN "cerrado" ELSE "listo",
                                          !.op = "nada", !.bloque = SinBloque, !.resp = 0]]
          /\ tiene' = IF pedido.op = "memalloc" /\ pedido.resp >= 0
                      THEN [tiene EXCEPT ![c] = @ \union {[dir |-> pedido.resp, tam |-> pedido.bloque.tam]}]
                      ELSE tiene
    /\ UNCHANGED <<conf, conexiones, heap, caido>>

Atender(c) ==
    \/ Reenviar(c) \/ AtenderMemalloc(c) \/ AtenderSinTabla(c) \/ AtenderMemfree(c)
    \/ AtenderUso(c) \/ AtenderClose(c) \/ AtenderOtro(c) \/ Recibir(c)

Next ==
    \E c \in Clientes :
        \/ Conectar(c) \/ \E tam \in 1 .. TamPagina * MaxPaginas : PedirMemalloc(c, tam)
        \/ PedirMemfree(c) \/ PedirUso(c) \/ PedirNulo(c) \/ PedirClose(c) \/ PedirOtro(c)
        \/ Morir(c) \/ Atender(c)

\* The threads of memoria, of the kernel and of the clients run.
Spec == Init /\ [][Next]_vars /\ \A c \in Clientes : WF_vars(Atender(c))

-----------------------------------------------------------------------------
Bloques == [dir : Nat, tam : Nat]
Defectos ==
    {"ninguno", "movido", "pisado", "sinHeader", "desborde", "otraPagina", "fueraDePagina",
     "offsetNegativo", "busquedaSinFin", "sinInicializar", "paginaEquivocada", "primeroConAnterior"}

\* Every variable stays within its type.
TypeOK ==
    /\ conf \in Configuraciones
    /\ cliente \in [Clientes ->
         [pc : {"afuera", "listo", "pidiendo", "reenviado", "respondido", "sinHilo", "cerrado", "muerto"},
          fd : Descriptores \union {0}, pid : Pids \union {SinPid},
          op : Pedidos \union {"nada"}, bloque : Bloques, resp : (-7 .. TamPagina * MaxPaginas) \union {1}]]
    /\ \A c \in Clientes : tiene[c] \subseteq Bloques
    /\ abiertos \subseteq Descriptores /\ muertos \subseteq Descriptores
    /\ pidsCliente \in Seq([fd : Descriptores, pid : Pids])
    /\ pidGlobal \in 0 .. Cardinality(Clientes)
    /\ \A p \in Pids :
         /\ heap[p].ids \in Seq(Nat) /\ Len(heap[p].ids) <= MaxPaginas /\ heap[p].defecto \in Defectos
         /\ \A d \in DOMAIN heap[p].hdr :
               d \in Nat /\ heap[p].hdr[d] \in [prev : Nat, next : Nat, libre : BOOLEAN]
    /\ caido \in BOOLEAN

\* The headers of every heap are a chain: from address 0 each is past the end of the one
\* before, which the back link leads to, up to a last one that is free and inside the pages.
CadenaDeBloques ==
    \A p \in Pids :
        heap[p].ids # <<>> /\ Servible(heap[p]) =>
            /\ CadenaTermina(heap[p])
            /\ \E cad \in {Cadena(heap[p])} :
                  /\ \A i \in 2 .. Len(cad) :
                        /\ cad[i] > cad[i - 1] + TamHeader
                        /\ heap[p].hdr[cad[i]].prev = cad[i - 1]
                  /\ heap[p].hdr[Last(cad)].libre
                  /\ Last(cad) + TamHeader <= Total(heap[p])

\* memfree joins a block with both neighbours: no free block is followed by another, so space
\* given back is never split for good.
SinLibresContiguos ==
    \A p \in Pids :
        Servible(heap[p]) =>
            \A d \in DOMAIN heap[p].hdr :
                heap[p].hdr[d].libre /\ heap[p].hdr[d].next # 0 =>
                    ~heap[p].hdr[heap[p].hdr[d].next].libre

\* What a client holds are the used blocks of its own heap, all of them, each of at least
\* the size it asked for; unless its connection was of one that died, or its heap has moved.
BloquesDelCliente ==
    \A c \in Clientes :
        LET h == heap[PidDe(c)] IN
        cliente[c].pc = "listo" /\ cliente[c].fd \notin muertos /\ PidDe(c) # SinPid /\ Sano(h) =>
            /\ {b.dir : b \in tiene[c]} = {u.dir : u \in Usados(h)}
            /\ \A b \in tiene[c], u \in Usados(h) : b.dir = u.dir => b.tam <= u.cabe

\* Every request is answered, unless memoria crashes, does not know the operation, or the
\* heap has a defect.
RespuestaLlega ==
    \A c \in Clientes :
        cliente[c].pc \in {"pidiendo", "reenviado"} ~>
            (cliente[c].pc \in {"listo", "cerrado", "sinHilo"} \/ caido
             \/ (PidDe(c) # SinPid /\ ~Servible(heap[PidDe(c)])))
=============================================================================
