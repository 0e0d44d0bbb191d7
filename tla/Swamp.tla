--------------------------------- MODULE Swamp ---------------------------------
(***************************************************************************)
(* swamp (swamp/src/swamp.c): the swap files, cut in frames, and the loop  *)
(* that serves memoria's requests one at a time; and the part of memoria   *)
(* (memoria/src/memoria.c) that sends them: the page numbers of each       *)
(* process, the one socket they share and mutex_swamp, which is held until *)
(* an answer arrives.  Throwing and releasing a page have no answer, so    *)
(* memoria goes on while they wait in the socket.                          *)
(***************************************************************************)
EXTENDS Integers, FiniteSets, Sequences, SequencesExt

CONSTANTS
    Procesos,           \* PIDs
    NumArchivos,        \* files of ARCHIVOS_SWAP
    MarcosPorArchivo,   \* TAMANIO_SWAP / TAMANIO_PAGINA
    Configuraciones,    \* values of MARCOS_POR_CARPINCHO
    Datos,              \* what a page may hold
    Ceros,              \* what a new file holds
    MaxPedido,          \* bound: pages asked for at once
    MaxPagina,          \* bound: no process asks for pages above this number
    MaxCanal,           \* bound: requests in the socket
    Nadie               \* pid = -1: a frame of no process

Archivos == 1 .. NumArchivos
Marcos == Archivos \X (1 .. MarcosPorArchivo)
SinPagina == -1
PedidosConRespuesta == {"RESERVAR_ESPACIO", "TRAER_DE_SWAP"}

ASSUME TamaniosAssumption ==
    /\ NumArchivos \in Nat \ {0}
    /\ MarcosPorArchivo \in Nat \ {0}
    /\ MaxPedido \in Nat /\ MaxPagina \in Nat /\ MaxCanal \in Nat
ASSUME ConfiguracionesAssumption == Configuraciones \subseteq Int
ASSUME DatosAssumption == Ceros \in Datos
ASSUME NadieAssumption == Nadie \notin Procesos
\* No answer to be read.
Nada == [op |-> "NINGUNA"]

VARIABLES
    marcosMax,          \* CONFIG.marcos_max: fixed assignment when positive
    marco,              \* FRAMES_SWAP: pid, id_pag and ocupado of each frame
    espacio,            \* espacio_disponible of each file, in frames
    dato,               \* what each frame holds on disk
    canal,              \* requests in the socket, oldest first
    respuesta,          \* the answer memoria has not read yet
    tabla,              \* memoria's page table of each process: its page ids
    caido               \* swamp has died: exit(1) or a NULL dereference

discos == <<marco, espacio, dato>>
vars == <<marcosMax, discos, canal, respuesta, tabla, caido>>

Fija == marcosMax > 0

Init ==
    /\ marcosMax \in Configuraciones
    /\ marco = [f \in Marcos |-> [pid |-> Nadie, pag |-> SinPagina, ocupado |-> FALSE]]
    /\ espacio = [a \in Archivos |-> MarcosPorArchivo]
    /\ dato = [f \in Marcos |-> Ceros]
    /\ canal = <<>>
    /\ respuesta = Nada
    /\ tabla = [p \in Procesos |-> <<>>]
    /\ caido = FALSE

-----------------------------------------------------------------------------
\* memoria

\* mutex_swamp is taken: somebody waits for an answer.
Esperando ==
    \/ respuesta # Nada
    \/ \E i \in DOMAIN canal : canal[i].op \in PedidosConRespuesta

Enviar(r) ==
    /\ ~Esperando
    /\ Len(canal) < MaxCanal
    /\ canal' = Append(canal, r)

\* Page numbers follow the last page of the table.
PrimeraNueva(p) == IF tabla[p] = <<>> THEN 0 ELSE Last(tabla[p]) + 1

\* memalloc: the first pages of a process, or more of them; with fixed
\* assignment memoria itself bounds the growth.
PedirReserva(p, n) ==
    /\ PrimeraNueva(p) + n - 1 <= MaxPagina
    /\ Fija /\ tabla[p] # <<>> => Len(tabla[p]) + n < marcosMax
    /\ Enviar([op |-> "RESERVAR_ESPACIO", pid |-> p, cant |-> n])
    /\ UNCHANGED <<marcosMax, discos, respuesta, tabla, caido>>

\* With fixed assignment the answer to a growth is not looked at.
LeerReserva ==
    /\ respuesta.op = "RESERVAR_ESPACIO"
    /\ LET p == respuesta.pid IN
          tabla' = IF respuesta.ok \/ (Fija /\ tabla[p] # <<>>)
                   THEN [tabla EXCEPT ![p] =
                            @ \o [i \in 1 .. respuesta.cant |-> PrimeraNueva(p) + i - 1]]
                   ELSE tabla
    /\ respuesta' = Nada
    /\ UNCHANGED <<marcosMax, discos, canal, caido>>

\* The page of a freed block, never the first one of the process.
PedirLiberar(p, i) ==
    /\ i \in 2 .. Len(tabla[p])
    /\ Enviar([op |-> "LIBERAR_PAGINA", pid |-> p, pag |-> tabla[p][i]])
    /\ tabla' = [tabla EXCEPT ![p] = RemoveAt(@, i)]
    /\ UNCHANGED <<marcosMax, discos, respuesta, caido>>

PedirTirar(p, i, d) ==
    /\ i \in DOMAIN tabla[p]
    /\ Enviar([op |-> "TIRAR_A_SWAP", pid |-> p, pag |-> tabla[p][i], dato |-> d])
    /\ UNCHANGED <<marcosMax, discos, respuesta, tabla, caido>>

PedirTraer(p, i) ==
    /\ i \in DOMAIN tabla[p]
    /\ Enviar([op |-> "TRAER_DE_SWAP", pid |-> p, pag |-> tabla[p][i]])
    /\ UNCHANGED <<marcosMax, discos, respuesta, tabla, caido>>

LeerPagina ==
    /\ respuesta.op = "TRAER_DE_SWAP"
    /\ respuesta' = Nada
    /\ UNCHANGED <<marcosMax, discos, canal, tabla, caido>>

-----------------------------------------------------------------------------
\* swamp: searches in FRAMES_SWAP, a list ordered by file and offset.

Antes(f, g) == f[1] < g[1] \/ (f[1] = g[1] /\ f[2] < g[2])

\* list_find
EsPrimero(f, S) == f \in S /\ \A g \in S \ {f} : Antes(f, g)

\* s lists the first n elements of what a list_filter answers.
Primeros(s, n, S) ==
    /\ s \in [1 .. n -> S]
    /\ \A i, j \in 1 .. n : i < j => Antes(s[i], s[j])
    /\ \A f \in S : (\A i \in 1 .. n : s[i] # f) => \A i \in 1 .. n : Antes(s[i], f)

FramesDelProceso(p) == {f \in Marcos : marco[f].pid = p}

\* A mutation: the page number alone.
FramesConNumero(p, g) == {f \in Marcos : marco[f].ocupado /\ marco[f].pag = g}

FramesDePagina(p, g) == {f \in Marcos : marco[f].pid = p /\ marco[f].pag = g}

FramesLibresDelArchivo(a) ==
    {f \in Marcos : ~marco[f].ocupado /\ f[1] = a /\ marco[f].pid = Nadie}

FramesLibresDelProceso(a, p) ==
    {f \in Marcos : ~marco[f].ocupado /\ f[1] = a /\ marco[f].pid = p}

Asignados(p) == {f \in FramesDelProceso(p) : marco[f].ocupado /\ marco[f].pag # SinPagina}

\* A mutation: pages are counted, not numbered.
CantidadDePaginas(p, u) == u = Cardinality(Asignados(p)) - 1

UltimaPagina(p, u) ==
    /\ u \in {marco[f].pag : f \in Asignados(p)}
    /\ \A f \in Asignados(p) : marco[f].pag <= u

\* Ties are broken by list_sort: any file with the most space.
ConMasEspacio(a) == \A b \in Archivos : espacio[b] <= espacio[a]

\* A mutation: the space is not looked at.
HayLugarSiempre(a, n) == TRUE

HayLugar(a, n) == espacio[a] >= n

\* A mutation: a page that is released keeps its space.
NoDevolverEspacio(a) == UNCHANGED espacio

DevolverEspacio(a) == espacio' = [espacio EXCEPT ![a] = @ + 1]

-----------------------------------------------------------------------------
\* swamp: atender_peticiones

Pedido(op) ==
    /\ ~caido
    /\ canal # <<>>
    /\ Head(canal).op = op

Atendido(r) ==
    /\ canal' = Tail(canal)
    /\ respuesta' = r
    /\ UNCHANGED <<marcosMax, tabla, caido>>

ReservaAceptada(r) == [op |-> r.op, pid |-> r.pid, cant |-> r.cant, ok |-> TRUE]
ReservaRechazada(r) == [op |-> r.op, pid |-> r.pid, cant |-> r.cant, ok |-> FALSE]

\* The frames s[1 .. n] take the pages u+1 .. u+n.
ConPaginas(m, s, n, p, u) ==
    [f \in Marcos |->
        IF \E i \in 1 .. n : s[i] = f
        THEN [pid |-> p, pag |-> u + (CHOOSE i \in 1 .. n : s[i] = f), ocupado |-> TRUE]
        ELSE m[f]]

\* reservar_espacio, case 1.  The frames come from the process or from the
\* file, the space from the file in both cases.
FramesParaCrecer(a, p) ==
    IF Fija THEN FramesLibresDelProceso(a, p) ELSE FramesLibresDelArchivo(a)

ReservarExistente ==
    LET r == Head(canal) IN
    /\ Pedido("RESERVAR_ESPACIO")
    /\ \E f \in FramesDelProceso(r.pid) :
          /\ EsPrimero(f, FramesDelProceso(r.pid))
          /\ HayLugar(f[1], r.cant)
          /\ \E u \in 0 .. MaxPagina, s \in [1 .. r.cant -> FramesParaCrecer(f[1], r.pid)] :
                /\ UltimaPagina(r.pid, u)
                /\ Primeros(s, r.cant, FramesParaCrecer(f[1], r.pid))
                /\ marco' = ConPaginas(marco, s, r.cant, r.pid, u)
          /\ espacio' = [espacio EXCEPT ![f[1]] = @ - r.cant]
    /\ Atendido(ReservaAceptada(r))
    /\ UNCHANGED dato

\* Frames a new process takes: with fixed assignment, all it may ever use.
FramesRequeridos(n) == IF Fija THEN marcosMax ELSE n

\* reservar_espacio, case 2.
ReservarNuevo ==
    LET r == Head(canal)
        q == FramesRequeridos(r.cant) IN
    /\ Pedido("RESERVAR_ESPACIO")
    /\ FramesDelProceso(r.pid) = {}
    /\ r.cant <= q
    /\ \E a \in Archivos :
          /\ ConMasEspacio(a)
          /\ HayLugar(a, q)
          /\ \E s \in [1 .. q -> FramesLibresDelArchivo(a)] :
                /\ Primeros(s, q, FramesLibresDelArchivo(a))
                /\ LET tomados == [f \in Marcos |->
                           IF \E i \in 1 .. q : s[i] = f
                           THEN [marco[f] EXCEPT !.pid = r.pid, !.ocupado = FALSE]
                           ELSE marco[f]]
                   IN  marco' = ConPaginas(tomados, s, r.cant, r.pid, SinPagina)
          /\ espacio' = [espacio EXCEPT ![a] = @ - q]
    /\ Atendido(ReservaAceptada(r))
    /\ UNCHANGED dato

RechazarReserva ==
    LET r == Head(canal) IN
    /\ Pedido("RESERVAR_ESPACIO")
    /\ \/ \E f \in Marcos :
             EsPrimero(f, FramesDelProceso(r.pid)) /\ ~HayLugar(f[1], r.cant)
       \/ /\ FramesDelProceso(r.pid) = {}
          /\ \E a \in Archivos : ConMasEspacio(a) /\ ~HayLugar(a, FramesRequeridos(r.cant))
    /\ Atendido(ReservaRechazada(r))
    /\ UNCHANGED discos

Tirar ==
    LET r == Head(canal) IN
    /\ Pedido("TIRAR_A_SWAP")
    /\ \E f \in Marcos :
          /\ EsPrimero(f, FramesDePagina(r.pid, r.pag))
          /\ dato' = [dato EXCEPT ![f] = r.dato]
    /\ Atendido(respuesta)
    /\ UNCHANGED <<marco, espacio>>

Traer ==
    LET r == Head(canal) IN
    /\ Pedido("TRAER_DE_SWAP")
    /\ \E f \in Marcos :
          /\ EsPrimero(f, FramesDePagina(r.pid, r.pag))
          /\ Atendido([op |-> r.op, pid |-> r.pid, pag |-> r.pag, dato |-> dato[f]])
    /\ UNCHANGED discos

\* A mutation: the frame leaves its process whatever the assignment.
DuenioSiempreNadie(f) == Nadie

\* A frame leaves its process only if marcos_max is negative.
DuenioTrasLiberar(f) == IF marcosMax < 0 THEN Nadie ELSE marco[f].pid

Liberar ==
    LET r == Head(canal) IN
    /\ Pedido("LIBERAR_PAGINA")
    /\ \E f \in Marcos :
          /\ EsPrimero(f, FramesDePagina(r.pid, r.pag))
          /\ DevolverEspacio(f[1])
          /\ marco' = [marco EXCEPT ![f] =
                [pid |-> DuenioTrasLiberar(f), pag |-> SinPagina, ocupado |-> FALSE]]
    /\ Atendido(respuesta)
    /\ UNCHANGED dato

\* list_get past the end, or a page that is not found: the process dies.
FaltanFrames(r) ==
    \/ \E f \in Marcos :
          /\ EsPrimero(f, FramesDelProceso(r.pid))
          /\ HayLugar(f[1], r.cant)
          /\ \/ Cardinality(FramesParaCrecer(f[1], r.pid)) < r.cant
             \/ Asignados(r.pid) = {}
    \/ /\ FramesDelProceso(r.pid) = {}
       /\ \E a \in Archivos :
             LET q == FramesRequeridos(r.cant) IN
             /\ ConMasEspacio(a)
             /\ HayLugar(a, q)
             /\ Cardinality(FramesLibresDelArchivo(a)) < q \/ q < r.cant

Caer ==
    LET r == Head(canal) IN
    /\ ~caido
    /\ canal # <<>>
    /\ IF r.op = "RESERVAR_ESPACIO" THEN FaltanFrames(r)
       ELSE FramesDePagina(r.pid, r.pag) = {}
    /\ caido' = TRUE
    /\ UNCHANGED <<marcosMax, discos, canal, respuesta, tabla>>

-----------------------------------------------------------------------------
HiloMemoria ==
    \/ \E p \in Procesos, n \in 1 .. MaxPedido : PedirReserva(p, n)
    \/ \E p \in Procesos, i \in 1 .. MaxPagina + 1 :
          PedirLiberar(p, i) \/ PedirTraer(p, i) \/ \E d \in Datos : PedirTirar(p, i, d)
    \/ LeerReserva
    \/ LeerPagina

HiloSwamp ==
    \/ ReservarExistente \/ ReservarNuevo \/ RechazarReserva
    \/ Tirar \/ Traer \/ Liberar
    \/ Caer

Next == HiloMemoria \/ HiloSwamp

Spec == Init /\ [][Next]_vars

-----------------------------------------------------------------------------
PedidosPosibles ==
    [op : {"RESERVAR_ESPACIO"}, pid : Procesos, cant : 1 .. MaxPedido]
    \cup [op : {"TIRAR_A_SWAP"}, pid : Procesos, pag : 0 .. MaxPagina, dato : Datos]
    \cup [op : {"TRAER_DE_SWAP", "LIBERAR_PAGINA"}, pid : Procesos, pag : 0 .. MaxPagina]

Respuestas ==
    [op : {"RESERVAR_ESPACIO"}, pid : Procesos, cant : 1 .. MaxPedido, ok : BOOLEAN]
    \cup [op : {"TRAER_DE_SWAP"}, pid : Procesos, pag : 0 .. MaxPagina, dato : Datos]
    \cup {Nada}

\* Type invariant of swamp and its client.  It says that espacio_disponible is
\* never negative, and that page numbers stay in the range memoria asked for.
TypeOK ==
    /\ marcosMax \in Configuraciones
    /\ marco \in [Marcos -> [pid : Procesos \cup {Nadie}, pag : SinPagina .. MaxPagina,
                             ocupado : BOOLEAN]]
    /\ espacio \in [Archivos -> Nat]
    /\ dato \in [Marcos -> Datos]
    /\ canal \in Seq(PedidosPosibles)
    /\ respuesta \in Respuestas
    /\ tabla \in [Procesos -> Seq(0 .. MaxPagina)]
    /\ caido \in BOOLEAN

\* With dynamic assignment espacio_disponible counts the frames of the file
\* that reservar_espacio may take: a page that is released can be used again.
EspacioExacto ==
    marcosMax <= 0 =>
        \A a \in Archivos : espacio[a] = Cardinality(FramesLibresDelArchivo(a))

\* Both sides number pages on their own (memoria after the last of its table,
\* swamp after the highest of its frames) and agree: with dynamic assignment
\* the pages of a process in swamp are those of memoria and those whose
\* release is still in the socket; each in one frame.
PaginasCoinciden ==
    ~Fija /\ respuesta.op # "RESERVAR_ESPACIO" =>
        \A p \in Procesos, g \in 0 .. MaxPagina :
            Cardinality(FramesDePagina(p, g))
                = Cardinality({i \in DOMAIN tabla[p] : tabla[p][i] = g})
                  + Cardinality({i \in DOMAIN canal : /\ canal[i].op = "LIBERAR_PAGINA"
                                                     /\ canal[i].pid = p
                                                     /\ canal[i].pag = g})

\* With fixed assignment a process has its marcos_max frames, all in one file,
\* from its first reservation on, and no frame of another process.
CuotaFija ==
    Fija => \A p \in Procesos :
        \/ FramesDelProceso(p) = {}
        \/ /\ Cardinality(FramesDelProceso(p)) = marcosMax
           /\ \A f, g \in FramesDelProceso(p) : f[1] = g[1]

\* With dynamic assignment swamp never looks for a page or a frame it does
\* not have: no exit(1), no NULL dereference.
SwampNoCae == ~Fija => ~caido

\* swamp is a store of pages, with either assignment.
PaginasGuardadas ==
    { [pid |-> marco[f].pid, pag |-> marco[f].pag, dato |-> dato[f]] :
        f \in {g \in Marcos : marco[g].ocupado} }

A == INSTANCE Almacen WITH paginas <- PaginasGuardadas

\* Refinement: seen through the pages its occupied frames hold, every step of
\* swamp is a step of Almacen or changes nothing.
EsAlmacen == A!Spec
=============================================================================
