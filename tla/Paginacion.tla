------------------------------ MODULE Paginacion ------------------------------
(***************************************************************************)
(* The paging layer of memoria (memoria/src/memoria.c, memoria/src/tlb.c): *)
(* page tables, frames, presence, use and modified bits, the TLB, the two  *)
(* replacement algorithms, and the suspension of a process.  Each request  *)
(* of a carpincho runs on a thread of its own; what the allocator does     *)
(* with the pages (which it touches, asks for or gives back, and when) is  *)
(* any sequence of the operations of this layer.                           *)
(*                                                                         *)
(* Contents are abstracted to "the current content of page k": ram says    *)
(* which page's current content a frame holds, enSwap whether the copy in  *)
(* swamp is the current one.  swamp itself is module Swamp.                *)
(***************************************************************************)
EXTENDS Integers, FiniteSets, Sequences, SequencesExt

CONSTANTS
    Procesos,           \* PIDs
    MaxPaginas,         \* bound: page ids of a process are below it
    Configuraciones,    \* the configurations memoria may start with
    Nadie               \* pid = -1, no page, a free mutex

Ids == 0 .. MaxPaginas - 1
Claves == Procesos \X Ids
SinMarco == -1

ASSUME PaginasAssumption == MaxPaginas \in Nat \ {0} /\ IsFiniteSet(Procesos)
ASSUME NadieAssumption == Nadie \notin Procesos /\ Nadie \notin Claves

(***************************************************************************)
(* frames (TAMANIO / TAMANIO_PAGINA), tipo, mmu, tlb, entradas, marcos and *)
(* maxSwap are in memoria.config or told by swamp; hilos is the number of  *)
(* processors of the kernel, hence of requests in flight; tope (pages per  *)
(* process) and llamadas (the operations used) bound what clients do.      *)
(***************************************************************************)
Llamadas == {"memalloc", "leer", "escribir", "guardar", "cabecera", "liberar", "suspender"}
ASSUME ConfiguracionesAssumption ==
    \A c \in Configuraciones :
        /\ c.tipo \in {"FIJA", "DINAMICA"} /\ c.mmu \in {"LRU", "CLOCK-M"}
        /\ c.tlb \in {"LRU", "FIFO"}
        /\ c.frames \in Nat \ {0}
        /\ c.entradas \in Nat /\ c.marcos \in Nat /\ c.hilos \in Nat /\ c.maxSwap \in Nat
        /\ c.tope \in [Procesos -> 0 .. MaxPaginas] /\ c.llamadas \subseteq Llamadas

VARIABLES
    conf,               \* CONFIG
    marco,              \* FRAMES_MEMORIA: ocupado and pid of each frame
    mtxFrames,          \* who locked mutex_frames
    tabla,              \* paginas of each t_tabla_pagina: ids; empty: no table
    pag,                \* the t_pagina of each id
    usos,               \* pages by tiempo_uso, oldest first (with LRU)
    posClock,           \* POSICION_CLOCK
    ram, enSwap,        \* contents, see above
    tlb,                \* TLB
    hilo,               \* the thread that serves each process
    suspendidos,        \* processes the kernel has suspended
    caido,              \* what killed memoria
    manchados,          \* history: frames released by a suspension, or taken twice
    robados,            \* history: processes that lost a frame, or got one of those
    achicados           \* history: processes that gave back a page

tablas == <<tabla, pag, usos>>
datos == <<ram, enSwap>>
historia == <<manchados, robados, achicados>>
vars == <<conf, marco, mtxFrames, tablas, posClock, datos, tlb, hilo, suspendidos, caido, historia>>

Marcos == 0 .. conf.frames - 1
Fija == conf.tipo = "FIJA"
Libre == [pc |-> "libre", op |-> "nada", pags |-> <<>>, frs |-> <<>>,
          faltan |-> 0, fr |-> SinMarco, vic |-> Nadie]
SinUsar == [frame |-> SinMarco, presencia |-> FALSE, modificado |-> FALSE,
            lock |-> FALSE, uso |-> FALSE]

Init ==
    /\ conf \in Configuraciones
    /\ marco = [f \in Marcos |-> [ocupado |-> FALSE, pid |-> Nadie]]
    /\ mtxFrames = Nadie
    /\ tabla = [p \in Procesos |-> <<>>]
    /\ pag = [k \in Claves |-> SinUsar]
    /\ usos = <<>>
    /\ posClock = 0
    /\ ram = [f \in Marcos |-> Nadie]
    /\ enSwap = [k \in Claves |-> FALSE]
    /\ tlb = <<>>
    /\ hilo = [p \in Procesos |-> Libre]
    /\ suspendidos = {}
    /\ caido = "no"
    /\ manchados = {}
    /\ robados = {}
    /\ achicados = {}

-----------------------------------------------------------------------------
\* Frames, pages and contents

EnTabla(k) == k[2] \in ToSet(tabla[k[1]])
PaginasEnTablas == {k \in Claves : EnTabla(k)}

\* A mutation: frames are counted from 1.
PrimeroDesdeUno(fs) == (CHOOSE f \in fs : \A g \in fs : f <= g) + 1

\* list_get(.., 0) and list_find over FRAMES_MEMORIA take the lowest number.
Primero(fs) == CHOOSE f \in fs : \A g \in fs : f <= g
MarcosLibres(p) ==
    {f \in Marcos : ~marco[f].ocupado /\ (Fija => marco[f].pid = p)}
Desasignados == {f \in Marcos : ~marco[f].ocupado /\ marco[f].pid = Nadie}

\* The elements of S from the least to the greatest clave.
EnOrden(S, clave) ==
    CHOOSE s \in [1 .. Cardinality(S) -> S] :
        /\ IsInjective(s)
        /\ \A i, j \in 1 .. Cardinality(S) : i < j => clave[s[i]] <= clave[s[j]]

\* Ids follow the last page of the table.
PrimeraNueva(p) == IF tabla[p] = <<>> THEN 0 ELSE Last(tabla[p]) + 1

\* tiempo_uso is a clock: only the order matters.
Usar(k) == IF conf.mmu = "LRU" THEN Append(RemoveFirst(usos, k), k) ELSE usos

\* The pages ks, written in the frames fs, make every other copy of them old.
Escribir(ks, fs) ==
    /\ ram' = [f \in Marcos |->
                 IF \E i \in DOMAIN fs : fs[i] = f
                 THEN ks[Max({i \in DOMAIN fs : fs[i] = f})]
                 ELSE IF ram[f] \in ToSet(ks) THEN Nadie ELSE ram[f]]
    /\ enSwap' = [k \in Claves |-> enSwap[k] /\ k \notin ToSet(ks)]

\* tirar_a_swap sends what is in the frame of the page.
TirarASwap(k) == enSwap' = [enSwap EXCEPT ![k] = ram[pag[k].frame] = k]

Ir(p, pc) == hilo' = [hilo EXCEPT ![p].pc = pc]
En(p, pc) == caido = "no" /\ hilo[p].pc = pc
Terminar(p) == hilo' = [hilo EXCEPT ![p] = Libre]
Morir(causa) == caido' = causa
Resto == <<conf, suspendidos, historia>>

-----------------------------------------------------------------------------
\* Requests that ask for pages

\* The kernel serves as many requests at once as it has processors, one per
\* carpincho, and none of a suspended one.
PuedePedir(p, llamada) ==
    /\ llamada \in conf.llamadas
    /\ En(p, "libre")
    /\ p \notin suspendidos
    /\ Cardinality({q \in Procesos : hilo[q].op \in Llamadas}) < conf.hilos

\* memalloc, case A: a process without a table asks for its first n pages.
MemallocNuevo(p, n) ==
    /\ PuedePedir(p, "memalloc")
    /\ tabla[p] = <<>>
    /\ n \in 1 .. conf.tope[p]
    /\ hilo' = [hilo EXCEPT ![p] = [Libre EXCEPT !.pc = IF Fija THEN "reservar" ELSE "pedir",
                                                 !.op = "memalloc", !.faltan = n]]
    /\ UNCHANGED <<marco, mtxFrames, tablas, posClock, datos, tlb, caido, Resto>>

\* With fixed assignment marcos_max frames are looked for under mutex_frames.
ReservarMarcos(p) ==
    /\ En(p, "reservar")
    /\ mtxFrames = Nadie
    /\ mtxFrames' = p
    /\ Cardinality(Desasignados) >= conf.marcos
    /\ hilo' = [hilo EXCEPT ![p].pc = "tomar",
                            ![p].frs = SubSeq(EnOrden(Desasignados, [f \in Marcos |-> f]), 1, conf.marcos)]
    /\ UNCHANGED <<marco, tablas, posClock, datos, tlb, caido, Resto>>

\* Too few: the request fails, and the mutex stays locked.
NegarMarcos(p) ==
    /\ En(p, "reservar")
    /\ mtxFrames = Nadie
    /\ mtxFrames' = p
    /\ Cardinality(Desasignados) < conf.marcos
    /\ Terminar(p)
    /\ UNCHANGED <<marco, tablas, posClock, datos, tlb, caido, Resto>>

TomarMarcos(p) ==
    /\ En(p, "tomar")
    /\ LET suyos == ToSet(hilo[p].frs)
           ajenos == {f \in suyos : marco[f].pid # Nadie} IN
          /\ marco' = [f \in Marcos |-> IF f \in suyos THEN [marco[f] EXCEPT !.pid = p]
                                        ELSE marco[f]]
          /\ manchados' = manchados \union ajenos
          /\ robados' = robados \union {marco[f].pid : f \in ajenos}
                           \union {q \in {p} : (manchados \union ajenos) \cap suyos # {}}
    /\ mtxFrames' = Nadie
    /\ hilo' = [hilo EXCEPT ![p].pc = "pedir", ![p].frs = <<>>]
    /\ UNCHANGED <<conf, tablas, posClock, datos, tlb, suspendidos, caido, achicados>>

\* memalloc, case B: the last block grows by n pages.
MemallocCrecer(p, n) ==
    /\ PuedePedir(p, "memalloc")
    /\ tabla[p] # <<>>
    /\ n \in 1 .. conf.tope[p] - PrimeraNueva(p)
    /\ Fija => Len(tabla[p]) + n < conf.maxSwap
    /\ hilo' = [hilo EXCEPT ![p] = [Libre EXCEPT !.pc = "pedir", !.op = "memalloc", !.faltan = n]]
    /\ UNCHANGED <<marco, mtxFrames, tablas, posClock, datos, tlb, caido, Resto>>

(***************************************************************************)
(* solicitar_frame_en_ppal: a free frame, or else a replacement.  With     *)
(* fixed assignment and as many pages as frames the mutex is unlocked      *)
(* without having been locked.                                             *)
(***************************************************************************)
SolicitarFrame(p) ==
    /\ En(p, "pedir")
    /\ \/ /\ Fija /\ Len(tabla[p]) >= conf.marcos
          /\ mtxFrames' = Nadie
          /\ Ir(p, "elegir")
          /\ UNCHANGED marco
       \/ /\ Fija => Len(tabla[p]) < conf.marcos
          /\ mtxFrames = Nadie
          /\ UNCHANGED mtxFrames
          /\ IF MarcosLibres(p) = {}
             THEN Ir(p, "elegir") /\ UNCHANGED marco
             ELSE LET f == Primero(MarcosLibres(p)) IN
                  /\ marco' = [marco EXCEPT ![f].ocupado = TRUE]
                  /\ hilo' = [hilo EXCEPT ![p].pc = "crear", ![p].fr = f]
    /\ UNCHANGED <<tablas, posClock, datos, tlb, caido, Resto>>

\* The rest of the loop of memalloc or of dessuspender_proceso, which asks for frames
\* and forgets which it got.
OtroMas(p) ==
    hilo' = [hilo EXCEPT ![p] = IF hilo[p].faltan = 1 THEN Libre
                                ELSE [hilo[p] EXCEPT !.pc = "pedir", !.faltan = @ - 1,
                                                     !.fr = SinMarco]]

CrearPagina(p) ==
    /\ En(p, "crear") /\ hilo[p].op = "memalloc"
    /\ LET k == <<p, PrimeraNueva(p)>> IN
          /\ tabla' = [tabla EXCEPT ![p] = Append(@, k[2])]
          /\ pag' = [pag EXCEPT ![k] = [frame |-> hilo[p].fr, presencia |-> TRUE,
                                        modificado |-> TRUE, lock |-> FALSE, uso |-> TRUE]]
          /\ usos' = Usar(k)
          /\ Escribir(<<k>>, <<hilo[p].fr>>)
    /\ OtroMas(p)
    /\ UNCHANGED <<marco, mtxFrames, posClock, tlb, caido, Resto>>

OlvidarMarco(p) ==
    /\ En(p, "crear") /\ hilo[p].op = "volver"
    /\ OtroMas(p)
    /\ UNCHANGED <<marco, mtxFrames, tablas, posClock, datos, tlb, caido, Resto>>

-----------------------------------------------------------------------------
\* Replacement

\* Present and unlocked: of the process with fixed assignment, else of anyone.
Candidatas(p) ==
    {k \in PaginasEnTablas : pag[k].presencia /\ ~pag[k].lock /\ (Fija => k[1] = p)}

MenosUsada(ks) == usos[Min({i \in DOMAIN usos : usos[i] \in ks})]

(***************************************************************************)
(* algoritmo_CLOCK_M: up to four turns over the candidates sorted by       *)
(* frame, from POSICION_CLOCK on.  Odd turns look for (u=0, m=0), even     *)
(* ones for (u=0, m=1) and clear u as they go, so after turn 2 all have    *)
(* u=0.  Visit t is the t-th page looked at.                               *)
(***************************************************************************)
PorMarco(ks) == EnOrden(ks, [k \in ks |-> pag[k].frame])

Desde(lista) == IF posClock >= Len(lista) THEN 0 ELSE posClock
LugarDeVisita(lista, t) == (Desde(lista) + t - 1) % Len(lista)
Visitada(lista, t) == lista[LugarDeVisita(lista, t) + 1]
Vuelta(lista, t) == (t - 1) \div Len(lista) + 1
\* A mutation: the turns that look for modified pages come first.
SirveAlReves(lista, t) ==
    LET v == pag[Visitada(lista, t)] IN
    /\ Vuelta(lista, t) <= 2 => ~v.uso
    /\ v.modificado = (Vuelta(lista, t) % 2 = 1)

Sirve(lista, t) ==
    LET v == pag[Visitada(lista, t)] IN
    /\ Vuelta(lista, t) <= 2 => ~v.uso
    /\ v.modificado = (Vuelta(lista, t) % 2 = 0)

\* The visit that ends the search.
UltimaVisita(lista) ==
    CHOOSE t \in 1 .. 4 * Len(lista) :
        Sirve(lista, t) /\ \A u \in 1 .. t - 1 : ~Sirve(lista, u)

\* ejecutar_algoritmo_reemplazo, up to the choice.
ElegirVictima(p) ==
    /\ En(p, "elegir")
    /\ Candidatas(p) # {}
    /\ IF conf.mmu = "LRU"
       THEN /\ hilo' = [hilo EXCEPT ![p].pc = "expulsar", ![p].vic = MenosUsada(Candidatas(p))]
            /\ UNCHANGED <<pag, posClock>>
       ELSE \E lista \in {PorMarco(Candidatas(p))} : \E t \in {UltimaVisita(lista)} :
            /\ hilo' = [hilo EXCEPT ![p].pc = "expulsar", ![p].vic = Visitada(lista, t)]
            /\ pag' = [k \in Claves |->
                         IF \E u \in 1 .. t - 1 : Vuelta(lista, u) = 2 /\ Visitada(lista, u) = k
                         THEN [pag[k] EXCEPT !.uso = FALSE]
                         ELSE pag[k]]
            /\ posClock' = LugarDeVisita(lista, t) + 1
    /\ UNCHANGED <<marco, mtxFrames, tabla, usos, datos, tlb, caido, Resto>>

\* Nothing to choose from: list_get gives NULL with LRU, exit(1) with CLOCK-M.
SinVictima(p) ==
    /\ En(p, "elegir")
    /\ Candidatas(p) = {}
    /\ Morir("sinVictima")
    /\ UNCHANGED <<marco, mtxFrames, tablas, posClock, datos, tlb, hilo, Resto>>

\* A mutation: the TLB is not told of the replacement.
SinDesreferenciar(pid, k) == tlb' = tlb

\* desreferenciar_pag_tlb: the first entry with that pid, page and frame.
Desreferenciar(pid, k) ==
    tlb' = RemoveFirst(tlb, [pid |-> pid, pag |-> k[2], frame |-> pag[k].frame])

\* The entry is looked for with the pid of the process that asks.
Expulsar(p) ==
    /\ En(p, "expulsar")
    /\ LET k == hilo[p].vic IN
          /\ Desreferenciar(p, k)
          /\ IF pag[k].modificado THEN TirarASwap(k) ELSE UNCHANGED enSwap
          /\ pag' = [pag EXCEPT ![k].lock = TRUE, ![k].modificado = FALSE]
    /\ Ir(p, "soltar")
    /\ UNCHANGED <<marco, mtxFrames, tabla, usos, posClock, ram, caido, Resto>>

\* A mutation: the presence bit of the victim is not cleared.
SueltaPresente(k) == [pag[k] EXCEPT !.lock = FALSE]

Suelta(k) == [pag[k] EXCEPT !.presencia = FALSE, !.lock = FALSE]

\* A mutation: a replacement keeps mutex_frames.
MutexRetenido(p) == p

\* A page fault with dynamic assignment replaces under mutex_frames.
Creando(p) == hilo[p].op \in {"memalloc", "volver"}
MutexTrasReemplazo(p) == IF Creando(p) \/ Fija THEN mtxFrames ELSE Nadie

SoltarVictima(p) ==
    /\ En(p, "soltar")
    /\ LET k == hilo[p].vic IN
          /\ pag' = [pag EXCEPT ![k] = Suelta(k)]
          /\ hilo' = [hilo EXCEPT ![p].pc = IF Creando(p) THEN "crear" ELSE "traer",
                                  ![p].fr = pag[k].frame, ![p].vic = Nadie]
    /\ mtxFrames' = MutexTrasReemplazo(p)
    /\ UNCHANGED <<marco, tabla, usos, posClock, datos, tlb, caido, Resto>>

-----------------------------------------------------------------------------
\* Requests that use pages

\* memread and memwrite look every index up as an id, and use what they find.
ConHuecos(p) == \E i \in 0 .. Len(tabla[p]) - 1 : i \notin ToSet(tabla[p])

(***************************************************************************)
(* op on the pages at places s of the table: one page of memread or        *)
(* memwrite (a longer one is a sequence of them), the one or two pages of  *)
(* a header that is saved or read, a page that is given back.              *)
(***************************************************************************)
Acceder(p, op, s) ==
    /\ PuedePedir(p, op)
    /\ \A i \in DOMAIN s : s[i] \in DOMAIN tabla[p]
    /\ IF op \in {"leer", "escribir"} /\ ConHuecos(p)
       THEN Morir("sinPagina") /\ UNCHANGED hilo
       ELSE /\ hilo' = [hilo EXCEPT ![p] =
                          [Libre EXCEPT !.pc = "buscar", !.op = op,
                                        !.pags = [i \in DOMAIN s |-> tabla[p][s[i]]]]]
            /\ UNCHANGED caido
    /\ UNCHANGED <<marco, mtxFrames, tablas, posClock, datos, tlb, Resto>>

Leer(p, i) == Acceder(p, "leer", <<i>>)
EscribirPagina(p, i) == Acceder(p, "escribir", <<i>>)
GuardarHeader(p, i) == Acceder(p, "guardar", <<i>>) \/ Acceder(p, "guardar", <<i, i + 1>>)
DesserializarHeader(p, i) == Acceder(p, "cabecera", <<i>>) \/ Acceder(p, "cabecera", <<i, i + 1>>)
LiberarPagina(p, i) == i > 1 /\ Acceder(p, "liberar", <<i>>)

Buscada(p) == <<p, hilo[p].pags[Len(hilo[p].frs) + 1]>>

\* buscar_pagina is done: the frame is fr.
Encontrada(p, fr) ==
    hilo' = [hilo EXCEPT ![p] =
               [@ EXCEPT !.frs = Append(hilo[p].frs, fr), !.fr = SinMarco,
                         !.pc = IF Len(hilo[p].frs) + 1 < Len(hilo[p].pags) THEN "buscar"
                                ELSE IF hilo[p].op = "liberar" THEN "quitar" ELSE "copiar"]]

\* A mutation: any process's entry will do.
EntradasDeCualquiera(k) == {i \in DOMAIN tlb : tlb[i].pag = k[2]}

\* buscar_pag_tlb: the first entry of the page.
EntradasTLB(k) == {i \in DOMAIN tlb : tlb[i].pid = k[1] /\ tlb[i].pag = k[2]}

(***************************************************************************)
(* Up to the look at the presence bit and the TLB.  Most callers lock the  *)
(* page before; desserializar_header locks each page after it is found,    *)
(* and nothing locks one that is given back.                               *)
(***************************************************************************)
BuscarPagina(p) ==
    /\ En(p, "buscar")
    /\ LET k == Buscada(p)
           bloqueadas == CASE hilo[p].op = "liberar" -> {}
                           [] hilo[p].op = "cabecera" ->
                                {<<p, hilo[p].pags[i]>> : i \in DOMAIN hilo[p].frs}
                           [] OTHER -> {k} IN
          /\ pag' = [l \in Claves |-> [pag[l] EXCEPT !.lock = @ \/ l \in bloqueadas,
                                                     !.uso = @ \/ l = k]]
          /\ usos' = Usar(k)
          /\ IF ~pag[k].presencia THEN Ir(p, "falta")
             ELSE IF EntradasTLB(k) # {} THEN Encontrada(p, tlb[Min(EntradasTLB(k))].frame)
             ELSE hilo' = [hilo EXCEPT ![p].pc = "actualizar", ![p].fr = pag[k].frame]
    /\ UNCHANGED <<marco, mtxFrames, tabla, posClock, datos, tlb, caido, Resto>>

\* traer_pagina_a_mp, the frame.  With fixed assignment a free frame of the
\* process is used but not marked, and without the mutex.
BuscarMarco(p) ==
    /\ En(p, "falta")
    /\ Fija \/ mtxFrames = Nadie
    /\ IF MarcosLibres(p) = {}
       THEN /\ mtxFrames' = IF Fija THEN mtxFrames ELSE p
            /\ Ir(p, "elegir")
            /\ UNCHANGED marco
       ELSE LET f == Primero(MarcosLibres(p)) IN
            /\ marco' = [marco EXCEPT ![f].ocupado = @ \/ ~Fija]
            /\ hilo' = [hilo EXCEPT ![p].pc = "traer", ![p].fr = f]
            /\ UNCHANGED mtxFrames
    /\ UNCHANGED <<tablas, posClock, datos, tlb, caido, Resto>>

TraerPagina(p) ==
    /\ En(p, "traer")
    /\ LET k == Buscada(p) IN
          /\ ram' = [ram EXCEPT ![hilo[p].fr] = IF enSwap[k] THEN k ELSE Nadie]
          /\ pag' = [pag EXCEPT ![k].presencia = TRUE, ![k].modificado = FALSE,
                                ![k].frame = hilo[p].fr]
    /\ Ir(p, "actualizar")
    /\ UNCHANGED <<marco, mtxFrames, tabla, usos, posClock, enSwap, tlb, caido, Resto>>

Entrada(p) == [pid |-> p, pag |-> Buscada(p)[2], frame |-> hilo[p].fr]

\* actualizar_tlb looks at the size in one critical section ...
ActualizarTLB(p) ==
    /\ En(p, "actualizar")
    /\ IF conf.entradas > 0 /\ Len(tlb) >= conf.entradas
       THEN Ir(p, "reemplazar") /\ UNCHANGED tlb
       ELSE /\ Encontrada(p, hilo[p].fr)
            /\ tlb' = IF conf.entradas = 0 THEN tlb ELSE Append(tlb, Entrada(p))
    /\ UNCHANGED <<marco, mtxFrames, tablas, posClock, datos, caido, Resto>>

\* A mutation: FIFO does not remove its victim either.
QuedanTodas == tlb

\* ... and replaces in another: FIFO removes the first entry, LRU none.
Quedan == IF conf.tlb = "FIFO" THEN Tail(tlb) ELSE tlb

ReemplazarTLB(p) ==
    /\ En(p, "reemplazar")
    /\ IF tlb = <<>>
       THEN Morir("tlbVacia") /\ UNCHANGED <<tlb, hilo>>
       ELSE /\ tlb' = Append(Quedan, Entrada(p))
            /\ Encontrada(p, hilo[p].fr)
            /\ UNCHANGED caido
    /\ UNCHANGED <<marco, mtxFrames, tablas, posClock, datos, Resto>>

PaginasPedidas(p) == [i \in DOMAIN hilo[p].pags |-> <<p, hilo[p].pags[i]>>]

\* A mutation: set_modificado is not called.
CopiadaLimpia(k, escribe) == [pag[k] EXCEPT !.lock = FALSE]

\* A mutation: unlockear is not called.
CopiadaConLock(k, escribe) == [pag[k] EXCEPT !.modificado = @ \/ escribe]

Copiada(k, escribe) == [pag[k] EXCEPT !.modificado = @ \/ escribe, !.lock = FALSE]

Copiar(p) ==
    /\ En(p, "copiar")
    /\ LET ks == PaginasPedidas(p)
           escribe == hilo[p].op \in {"escribir", "guardar"} IN
          /\ IF escribe THEN Escribir(ks, hilo[p].frs) ELSE UNCHANGED datos
          /\ pag' = [k \in Claves |->
                       IF k \in ToSet(ks) THEN Copiada(k, escribe) ELSE pag[k]]
    /\ Terminar(p)
    /\ UNCHANGED <<marco, mtxFrames, tabla, usos, posClock, tlb, caido, Resto>>

\* The page leaves the table and swamp; its frame keeps its pid and the TLB its entry.  It is
\* freed, and a thread that has chosen it as its victim still reads the frame in it.
QuitarPagina(p) ==
    /\ En(p, "quitar")
    /\ LET k == PaginasPedidas(p)[1] IN
          /\ marco' = [marco EXCEPT ![hilo[p].frs[1]].ocupado = FALSE]
          /\ tabla' = [tabla EXCEPT ![p] = RemoveFirst(@, k[2])]
          /\ pag' = [pag EXCEPT ![k] = [SinUsar EXCEPT !.frame = pag[k].frame]]
          /\ usos' = RemoveFirst(usos, k)
          /\ enSwap' = [enSwap EXCEPT ![k] = FALSE]
    /\ achicados' = achicados \union {p}
    /\ Terminar(p)
    /\ UNCHANGED <<conf, mtxFrames, posClock, ram, tlb, suspendidos, caido, manchados, robados>>

-----------------------------------------------------------------------------
\* Suspension, asked by the kernel for a blocked carpincho

Suspender(p) ==
    /\ "suspender" \in conf.llamadas
    /\ En(p, "libre")
    /\ p \notin suspendidos
    /\ suspendidos' = suspendidos \union {p}
    /\ hilo' = IF tabla[p] = <<>> THEN hilo
               ELSE [hilo EXCEPT ![p] = [Libre EXCEPT !.pc = "suspender",
                                                      !.faltan = Len(tabla[p])]]
    /\ UNCHANGED <<conf, marco, mtxFrames, tablas, posClock, datos, tlb, caido, historia>>

Suspendida(p) == <<p, tabla[p][Len(tabla[p]) - hilo[p].faltan + 1]>>

\* The frame of a present page is given away first and the page thrown after;
\* no bit is cleared.
SoltarMarco(p) ==
    /\ En(p, "suspender")
    /\ hilo[p].faltan > 0
    /\ LET k == Suspendida(p) IN
          IF pag[k].presencia
          THEN /\ marco' = [marco EXCEPT ![pag[k].frame] = [ocupado |-> FALSE, pid |-> Nadie]]
               /\ manchados' = manchados \union {pag[k].frame}
               /\ robados' = robados \union ({p, marco[pag[k].frame].pid} \ {Nadie})
               /\ IF pag[k].modificado THEN Ir(p, "tirar")
                  ELSE hilo' = [hilo EXCEPT ![p].faltan = @ - 1]
          ELSE /\ hilo' = [hilo EXCEPT ![p].faltan = @ - 1]
               /\ UNCHANGED <<marco, manchados, robados>>
    /\ UNCHANGED <<conf, mtxFrames, tablas, posClock, datos, tlb, suspendidos, caido, achicados>>

TirarSuspendida(p) ==
    /\ En(p, "tirar")
    /\ TirarASwap(Suspendida(p))
    /\ hilo' = [hilo EXCEPT ![p].pc = "suspender", ![p].faltan = @ - 1]
    /\ UNCHANGED <<marco, mtxFrames, tablas, posClock, ram, tlb, caido, Resto>>

\* With fixed assignment every other frame of the process goes too.
SoltarElResto(p) ==
    /\ En(p, "suspender")
    /\ hilo[p].faltan = 0
    /\ LET suyos == {f \in Marcos : Fija /\ marco[f].pid = p} IN
          /\ marco' = [f \in Marcos |-> IF f \in suyos THEN [ocupado |-> FALSE, pid |-> Nadie]
                                        ELSE marco[f]]
          /\ manchados' = manchados \union suyos
          /\ robados' = robados \union {q \in {p} : suyos # {}}
    /\ Terminar(p)
    /\ UNCHANGED <<conf, mtxFrames, tablas, posClock, datos, tlb, suspendidos, caido, achicados>>

\* dessuspender_proceso asks for marcos_max frames, of a table that may not exist.
Dessuspender(p) ==
    /\ En(p, "libre")
    /\ p \in suspendidos
    /\ suspendidos' = suspendidos \ {p}
    /\ IF Fija /\ tabla[p] = <<>> THEN Morir("sinTabla") /\ UNCHANGED hilo
       ELSE /\ hilo' = IF Fija THEN [hilo EXCEPT ![p] = [Libre EXCEPT !.pc = "pedir", !.op = "volver",
                                                                      !.faltan = conf.marcos]]
                       ELSE hilo
            /\ UNCHANGED caido
    /\ UNCHANGED <<conf, marco, mtxFrames, tablas, posClock, datos, tlb, historia>>

-----------------------------------------------------------------------------
\* mutex_frames is waited for.
PasoConMutex(p) ==
    ReservarMarcos(p) \/ NegarMarcos(p) \/ SolicitarFrame(p) \/ BuscarMarco(p)

PasoDelHilo(p) ==
    \/ PasoConMutex(p) \/ TomarMarcos(p) \/ CrearPagina(p) \/ OlvidarMarco(p)
    \/ ElegirVictima(p) \/ SinVictima(p) \/ Expulsar(p) \/ SoltarVictima(p)
    \/ BuscarPagina(p) \/ TraerPagina(p) \/ ActualizarTLB(p) \/ ReemplazarTLB(p)
    \/ Copiar(p) \/ QuitarPagina(p)
    \/ SoltarMarco(p) \/ TirarSuspendida(p) \/ SoltarElResto(p)

PedidoNuevo(p) ==
    \/ \E n \in 1 .. MaxPaginas : MemallocNuevo(p, n) \/ MemallocCrecer(p, n)
    \/ \E i \in 1 .. MaxPaginas :
          \/ Leer(p, i) \/ EscribirPagina(p, i) \/ GuardarHeader(p, i)
          \/ DesserializarHeader(p, i) \/ LiberarPagina(p, i)
    \/ Suspender(p) \/ Dessuspender(p)

Next == \E p \in Procesos : PedidoNuevo(p) \/ PasoDelHilo(p)

\* Threads run; a thread that waits for a mutex that is unlocked again and again gets it.
Equidad ==
    \A p \in Procesos :
        /\ WF_vars(PasoDelHilo(p))
        /\ SF_vars(PasoConMutex(p))

Spec == Init /\ [][Next]_vars /\ Equidad

-----------------------------------------------------------------------------
\* Every variable stays within its type.
TypeOK ==
    /\ conf \in Configuraciones
    /\ marco \in [Marcos -> [ocupado : BOOLEAN, pid : Procesos \union {Nadie}]]
    /\ mtxFrames \in Procesos \union {Nadie}
    /\ tabla \in [Procesos -> Seq(Ids)]
    /\ pag \in [Claves -> [frame : Marcos \union {SinMarco}, presencia : BOOLEAN,
                           modificado : BOOLEAN, lock : BOOLEAN, uso : BOOLEAN]]
    /\ usos \in Seq(Claves)
    /\ posClock \in Nat
    /\ ram \in [Marcos -> Claves \union {Nadie}]
    /\ enSwap \in [Claves -> BOOLEAN]
    /\ tlb \in Seq([pid : Procesos, pag : Ids, frame : Marcos])
    /\ hilo \in [Procesos ->
         [pc : {"libre", "reservar", "tomar", "pedir", "crear", "elegir", "expulsar", "soltar",
                "buscar", "falta", "traer", "actualizar", "reemplazar", "copiar", "quitar",
                "suspender", "tirar"},
          op : Llamadas \union {"nada", "volver"},
          pags : Seq(Ids), frs : Seq(Marcos), faltan : Nat,
          fr : Marcos \union {SinMarco}, vic : Claves \union {Nadie}]]
    /\ suspendidos \subseteq Procesos
    /\ caido \in {"no", "sinVictima", "sinPagina", "tlbVacia", "sinTabla"}
    /\ manchados \subseteq Marcos
    /\ robados \subseteq Procesos
    /\ achicados \subseteq Procesos

(***************************************************************************)
(* The processes paging can be trusted for.  With fixed assignment: it     *)
(* never gave back a page, no frame of its own has been released by a      *)
(* suspension, its own or another's, or taken by another process, and it   *)
(* has no frame that was.  With dynamic assignment: one request at a time, *)
(* no TLB, and no suspension of a page in memory so far.                   *)
(***************************************************************************)
Confiable(p) ==
    IF Fija
    THEN p \notin achicados \union robados
    ELSE conf.hilos = 1 /\ conf.entradas = 0 /\ manchados = {}

\* A request reads and writes frames that hold the current content of its pages,
\* whatever the TLB answered and whatever was replaced while it was looking.
LecturaCorrecta ==
    \A p \in Procesos :
        hilo[p].pc = "copiar" /\ Confiable(p) =>
            \A i \in DOMAIN hilo[p].pags : ram[hilo[p].frs[i]] = <<p, hilo[p].pags[i]>>

\* No write is ever lost: the current content of a page is in its frame if it is
\* present and in swamp if it is not, or is present and not marked as modified.
PaginaRecuperable ==
    \A k \in PaginasEnTablas :
        Confiable(k[1]) =>
            /\ pag[k].presencia => ram[pag[k].frame] = k
            /\ ~pag[k].presencia \/ ~pag[k].modificado => enSwap[k]

\* The frame of a present page is marked, belongs to its process (fixed assignment) and is
\* not the frame of any other present page.
MarcoPropio ==
    \A k \in PaginasEnTablas :
        pag[k].presencia /\ Confiable(k[1]) =>
            /\ marco[pag[k].frame].ocupado
            /\ Fija => marco[pag[k].frame].pid = k[1]
            /\ \A l \in PaginasEnTablas \ {k} :
                  pag[l].presencia => pag[l].frame # pag[k].frame

\* With fixed assignment the TLB only has pages that are present, in the frame they are in,
\* and each of them once.
TLBFiel ==
    Fija => \A i \in DOMAIN tlb :
        Confiable(tlb[i].pid) =>
            /\ LET k == <<tlb[i].pid, tlb[i].pag>> IN pag[k].presencia /\ pag[k].frame = tlb[i].frame
            /\ \A j \in DOMAIN tlb : tlb[j] = tlb[i] => j = i

\* With FIFO the TLB never grows past CANTIDAD_ENTRADAS_TLB, although its size is
\* looked at in one critical section and an entry added in another.
TLBAcotada == conf.tlb = "FIFO" => Len(tlb) <= conf.entradas

\* memoria only dies for lack of a victim, of a page or of a TLB entry after a page was
\* given back, after a suspension, or with requests that overlap.
MemoriaNoCae ==
    /\ caido = "sinVictima" =>
          \/ achicados # {} \/ manchados # {}
          \/ IF Fija THEN conf.marcos < 2 ELSE conf.frames < 2 \/ conf.hilos > 1
    /\ caido = "sinPagina" => achicados # {}
    /\ caido = "tlbVacia" => conf.hilos > 1 \/ manchados # {}

\* CLOCK-M takes a page of the best class there is: (u=0, m=0), (0, 1), (1, 0), (1, 1).
Clase(k) == (IF pag[k].uso THEN 2 ELSE 0) + (IF pag[k].modificado THEN 1 ELSE 0)
VictimaDeLaMejorClase ==
    [][\A p \in Procesos :
         conf.mmu = "CLOCK-M" /\ hilo[p].pc = "elegir" /\ hilo'[p].pc = "expulsar" =>
             \A k \in Candidatas(p) : Clase(hilo'[p].vic) <= Clase(k)]_vars

\* A request, a suspension or a resumption ends, unless memoria dies or a failed
\* memalloc has left mutex_frames locked.
MutexPerdido ==
    \E q \in Procesos : mtxFrames = q /\ hilo[q].pc \in {"libre", "reservar"} /\ tabla[q] = <<>>
PedidoTermina ==
    \A p \in Procesos :
        hilo[p].pc # "libre" ~> (hilo[p].pc = "libre" \/ caido # "no" \/ MutexPerdido)
=============================================================================
