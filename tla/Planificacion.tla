----------------------------- MODULE Planificacion -----------------------------
(***************************************************************************)
(* The planner of the kernel (kernel/src/planificacion.c and the threads   *)
(* kernel.c starts): the five state lists, the counting semaphores that    *)
(* tie the schedulers together, the mate semaphores, the I/O devices and   *)
(* the deadlock detector.                                                  *)
(*                                                                         *)
(* One step of the model is one critical section, or one part of a         *)
(* function between two points where another thread can interfere.  A      *)
(* sem_wait is merged with the critical section it opens, a sem_post with  *)
(* the one it closes; reads the code makes without a lock are steps of     *)
(* their own, separate from the locked update that acts on them.           *)
(***************************************************************************)
EXTENDS Deteccion

CONSTANTS
    NumCarpinchos,      \* bound: clients that connect, PIDs 0 .. NumCarpinchos-1
    NumProcesadores,    \* grado_multiprocesamiento
    Grado,              \* grado_multiprogramacion
    Semaforos,          \* names of mate semaphores
    Dispositivos,       \* names of I/O devices
    Valores,            \* bound: initial values clients give to sem_init
    MaxValor,           \* bound: no client posts a semaphore already this high
    MaxUsos,            \* bound: immediate waits of one client on one semaphore
    Llamadas,           \* the operations clients use, a subset of Operaciones
    ConDetector,        \* FALSE: TIEMPO_DEADLOCK is longer than the behaviour
    RafagaLarga,        \* TRUE: no burst is shorter than the end of call_IO
    Nadie               \* no PCB, no object, no mutex owner

Operaciones == {"INICIALIZAR_SEM", "ESPERAR_SEM", "POST_SEM", "DESTROY_SEM",
                "CALL_IO", "MEM", "CLOSE"}

PIDs == 0 .. NumCarpinchos - 1

ASSUME CantidadesAssumption ==
    /\ NumCarpinchos \in Nat \ {0}
    /\ NumProcesadores \in Nat \ {0}
    /\ Grado \in Nat \ {0}
ASSUME ValoresAssumption ==
    Valores \subseteq Nat /\ MaxValor \in Nat /\ MaxUsos \in Nat
ASSUME LlamadasAssumption == Llamadas \subseteq Operaciones
ASSUME TiemposAssumption == ConDetector \in BOOLEAN /\ RafagaLarga \in BOOLEAN

-----------------------------------------------------------------------------
\* The threads of the kernel process.
Atencion(p) == <<"atender_carpinchos", p>>
Atenciones == {Atencion(p) : p \in PIDs}
Cpus == {<<"ejecutar", c>> : c \in 1 .. NumProcesadores}
Ios == {<<"ejecutar_io", d>> : d \in Dispositivos}
LP == <<"largo_plazo", 0>>
CP == <<"corto_plazo", 0>>
DL == <<"deadlock", 0>>
Hilos == Atenciones \cup Cpus \cup Ios \cup {LP, CP, DL}

\* The threads that serve a request or a kill, and release semaphores for it.
Ejecutores == Cpus \cup {DL}

\* A null pointer is no PCB and owns no mutex.
ASSUME NadieAssumption == Nadie \notin PIDs /\ Nadie \notin Ejecutores

Pasos == {"fuera", "pasarANew", "mediano", "suspender", "avisar", "fin",
          "largo", "grado", "dessuspender", "ready", "procesador", "despachar",
          "recibir", "bloquear", "soltar", "vaciar", "liberar", "unidad",
          "aReady", "aReadySusp", "esperar", "rafaga", "detectar",
          "quitarBlocked", "quitarSusp"} \cup Operaciones

Objetos == Semaforos \cup Dispositivos \cup {Nadie}
SinPedido == [op |-> "ninguna", obj |-> Nadie]
SinVuelta == [k |-> 0, sem |-> Nadie, faltan |-> 0]

VARIABLES
    nuevo, ready, blocked, blockedSusp, readySusp,  \* LISTA_NEW, LISTA_READY, ...
    semLargo,       \* sem_algoritmo_planificador_largo_plazo
    semReady,       \* sem_cola_ready
    semGrado,       \* sem_grado_multiprogramacion
    semProc,        \* sem_grado_multiprocesamiento
    lugar,          \* lugar_PCB of each processor; of DL, the victim
    ocupado,        \* bit_de_ocupado of each processor; sem_exec is 1 iff it is set
    mtxSem,         \* thread that owns mutex_lista_semaforos_mate, or Nadie
    existe,         \* names in LISTA_SEMAFOROS_MATE
    valor, cola,    \* value and cola_bloqueados of each mate semaphore
    usados,         \* recursos_usados of each carpincho
    cliente,        \* client side: waits for permission, may call, or is gone
    liberados,      \* PIDs whose PCB has been freed
    colaEspera,     \* cola_espera of each device; its sem counts its elements
    pc,             \* where each thread is
    mano,           \* the PCB each thread holds in a local variable
    pedido,         \* the request each executor serves
    vuelta,         \* its release loop: index k, semaphore, units left
    caido           \* the process died of a NULL dereference

listas == <<nuevo, ready, blocked, blockedSusp, readySusp>>
contadores == <<semLargo, semReady, semGrado, semProc>>
procesadores == <<lugar, ocupado>>
sems == <<mtxSem, existe, valor, cola>>
carpinchos == <<usados, cliente, liberados>>
hilos == <<pc, mano, pedido, vuelta>>
vars == <<listas, contadores, procesadores, sems, carpinchos, colaEspera, hilos, caido>>

Init ==
    /\ nuevo = <<>> /\ ready = <<>> /\ blocked = <<>>
    /\ blockedSusp = <<>> /\ readySusp = <<>>
    /\ semLargo = 0 /\ semReady = 0
    /\ semGrado = Grado /\ semProc = NumProcesadores
    /\ lugar = [t \in Ejecutores |-> Nadie]
    /\ ocupado = [t \in Cpus |-> FALSE]
    /\ mtxSem = Nadie
    /\ existe = {}
    /\ valor = [s \in Semaforos |-> 0]
    /\ cola = [s \in Semaforos |-> <<>>]
    /\ usados = [p \in PIDs |-> <<>>]
    /\ cliente = [p \in PIDs |-> "espera"]
    /\ liberados = {}
    /\ colaEspera = [t \in Ios |-> <<>>]
    /\ pc = [t \in Hilos |-> CASE t \in Atenciones -> "fuera"
                               [] t \in Cpus -> "recibir"
                               [] t \in Ios -> "esperar"
                               [] t = LP -> "largo"
                               [] t = CP -> "ready"
                               [] t = DL -> "detectar"]
    /\ mano = [t \in Hilos |-> Nadie]
    /\ pedido = [t \in Ejecutores |-> SinPedido]
    /\ vuelta = [t \in Ejecutores |-> SinVuelta]
    /\ caido = FALSE

-----------------------------------------------------------------------------
\* Vocabulary of the steps.

\* Thread t is at this step of a process that is alive.
En(t, paso) == ~caido /\ pc[t] = paso
Ir(t, paso) == pc' = [pc EXCEPT ![t] = paso]
Tomar(t, p) == mano' = [mano EXCEPT ![t] = p]

\* mutex_lista_blocked is held across the suspension message to memoria,
\* mutex_lista_ready_suspended across the resumption message.
BlockedLibre == \A t \in Hilos : pc[t] \notin {"suspender", "avisar"}
ReadySuspLibre == pc[LP] # "dessuspender"

\* A mutation: whoever is first leaves.
QuitarPrimero(l, p) == IF l = <<>> THEN l ELSE Tail(l)

\* list_remove_by_condition on the PID.
Quitar(l, p) ==
    IF p \in ToSet(l) THEN RemoveAt(l, CHOOSE i \in DOMAIN l : l[i] = p) ELSE l

\* dar_permiso_para_continuar: a client that is gone does not hear it.
Permiso(p) ==
    cliente' = [cliente EXCEPT ![p] = IF @ = "fin" THEN "fin" ELSE "activo"]

\* The processor goes back to the head of its loop.
Volver(t) ==
    /\ Ir(t, "recibir")
    /\ pedido' = [pedido EXCEPT ![t] = SinPedido]

\* Three mutations: a sem_post that was forgotten.
LargoPlazoSinAviso == UNCHANGED semLargo
CortoPlazoSinAviso == UNCHANGED semReady
ProcesadorPerdido == UNCHANGED semProc

\* sem_post on the counters the schedulers and the processors sleep on.
SenalLargoPlazo == semLargo' = semLargo + 1
SenalCortoPlazo == semReady' = semReady + 1
DevolverProcesador == semProc' = semProc + 1

\* Segmentation fault: every thread dies with the process.
Caer ==
    /\ caido' = TRUE
    /\ UNCHANGED <<listas, contadores, procesadores, sems, carpinchos,
                   colaEspera, hilos>>

-----------------------------------------------------------------------------
\* atender_carpinchos: the thread of one connection.

Conectar(p) ==
    /\ En(Atencion(p), "fuera")
    /\ \A q \in PIDs : q < p => pc[Atencion(q)] # "fuera"
    /\ Ir(Atencion(p), "pasarANew")
    /\ UNCHANGED <<listas, contadores, procesadores, sems, carpinchos, colaEspera,
                   mano, pedido, vuelta, caido>>

PasarANew(p) ==
    /\ En(Atencion(p), "pasarANew")
    /\ nuevo' = Append(nuevo, p)
    /\ SenalLargoPlazo
    /\ Ir(Atencion(p), "mediano")
    /\ UNCHANGED <<ready, blocked, blockedSusp, readySusp, semReady, semGrado, semProc,
                   procesadores, sems, carpinchos, colaEspera, mano, pedido, vuelta, caido>>

-----------------------------------------------------------------------------
\* algoritmo_planificador_mediano_plazo_blocked_suspended, called at the end
\* of pasar_a_new, of a wait_sem that blocks and of call_IO.

\* A mutation: more blocked carpinchos than slots, which never happens.
HayQueSuspenderTarde == Len(blocked) > Grado /\ Len(nuevo) > 0

HayQueSuspender == Len(blocked) = Grado /\ Len(nuevo) > 0

\* The return: a connection's thread ends; wait_sem still has to release
\* mutex_lista_semaforos_mate before its processor takes the next request.
TrasMediano(t) ==
    \/ /\ t \in Atenciones
       /\ Ir(t, "fin")
       /\ UNCHANGED <<mtxSem, pedido>>
    \/ /\ t \in Cpus
       /\ mtxSem' = IF pedido[t].op = "ESPERAR_SEM" THEN Nadie ELSE mtxSem
       /\ Volver(t)

Mediano(t) ==
    /\ En(t, "mediano")
    /\ BlockedLibre
    /\ \/ /\ HayQueSuspender
          /\ blocked' = Front(blocked)
          /\ Tomar(t, Last(blocked))
          /\ Ir(t, "suspender")
          /\ UNCHANGED <<mtxSem, pedido>>
       \/ /\ ~HayQueSuspender
          /\ TrasMediano(t)
          /\ UNCHANGED <<blocked, mano>>
    /\ UNCHANGED <<nuevo, ready, blockedSusp, readySusp, contadores, procesadores,
                   existe, valor, cola, carpinchos, colaEspera, vuelta, caido>>

Suspender(t) ==
    /\ En(t, "suspender")
    /\ blockedSusp' = Append(blockedSusp, mano[t])
    /\ Tomar(t, Nadie)
    /\ Ir(t, "avisar")
    /\ UNCHANGED <<nuevo, ready, blocked, readySusp, contadores, procesadores, sems,
                   carpinchos, colaEspera, pedido, vuelta, caido>>

\* avisar_suspension_a_memoria has been answered.
AvisarSuspension(t) ==
    /\ En(t, "avisar")
    /\ semGrado' = semGrado + 1
    /\ TrasMediano(t)
    /\ UNCHANGED <<listas, semLargo, semReady, semProc, procesadores, existe, valor,
                   cola, carpinchos, colaEspera, mano, vuelta, caido>>

-----------------------------------------------------------------------------
\* algoritmo_planificador_largo_plazo

EsperarLargoPlazo ==
    /\ En(LP, "largo")
    /\ semLargo > 0
    /\ semLargo' = semLargo - 1
    /\ Ir(LP, "grado")
    /\ UNCHANGED <<listas, semReady, semGrado, semProc, procesadores, sems, carpinchos,
                   colaEspera, mano, pedido, vuelta, caido>>

\* READY-SUSPENDED goes first; its processor token waits for memoria.
AdmitirSuspendido ==
    /\ En(LP, "grado")
    /\ semGrado > 0
    /\ readySusp # <<>>
    /\ semGrado' = semGrado - 1
    /\ readySusp' = Tail(readySusp)
    /\ ready' = Append(ready, Head(readySusp))
    /\ Ir(LP, "dessuspender")
    /\ UNCHANGED <<nuevo, blocked, blockedSusp, semLargo, semReady, semProc, procesadores,
                   sems, carpinchos, colaEspera, mano, pedido, vuelta, caido>>

\* avisar_dessuspension_a_memoria has been answered.
AvisarDessuspension ==
    /\ En(LP, "dessuspender")
    /\ SenalCortoPlazo
    /\ Ir(LP, "largo")
    /\ UNCHANGED <<listas, semLargo, semGrado, semProc, procesadores, sems, carpinchos,
                   colaEspera, mano, pedido, vuelta, caido>>

AdmitirNuevo ==
    /\ En(LP, "grado")
    /\ semGrado > 0
    /\ readySusp = <<>>
    /\ semGrado' = semGrado - 1
    /\ nuevo' = Tail(nuevo)
    /\ ready' = Append(ready, Head(nuevo))
    /\ SenalCortoPlazo
    /\ Ir(LP, "largo")
    /\ UNCHANGED <<blocked, blockedSusp, readySusp, semLargo, semProc, procesadores, sems,
                   carpinchos, colaEspera, mano, pedido, vuelta, caido>>

-----------------------------------------------------------------------------
\* algoritmo_planificador_corto_plazo and correr_dispatcher

EsperarReady ==
    /\ En(CP, "ready")
    /\ semReady > 0
    /\ semReady' = semReady - 1
    /\ Ir(CP, "procesador")
    /\ UNCHANGED <<listas, semLargo, semGrado, semProc, procesadores, sems, carpinchos,
                   colaEspera, mano, pedido, vuelta, caido>>

\* Whatever SJF or HRRN answers is an element of READY.
Elegir ==
    /\ En(CP, "procesador")
    /\ semProc > 0
    /\ semProc' = semProc - 1
    /\ \E i \in DOMAIN ready :
          /\ ready' = RemoveAt(ready, i)
          /\ Tomar(CP, ready[i])
    /\ Ir(CP, "despachar")
    /\ UNCHANGED <<nuevo, blocked, blockedSusp, readySusp, semLargo, semReady, semGrado,
                   procesadores, sems, carpinchos, colaEspera, pedido, vuelta, caido>>

\* list_find takes the first processor whose bit is clear.
ProcesadorLibre(t) == ~ocupado[t] /\ \A u \in Cpus : ~ocupado[u] => t[2] <= u[2]

Despachar ==
    /\ En(CP, "despachar")
    /\ \E t \in Cpus :
          /\ ProcesadorLibre(t)
          /\ lugar' = [lugar EXCEPT ![t] = mano[CP]]
          /\ ocupado' = [ocupado EXCEPT ![t] = TRUE]
    /\ Permiso(mano[CP])
    /\ Tomar(CP, Nadie)
    /\ Ir(CP, "ready")
    /\ UNCHANGED <<listas, contadores, sems, usados, liberados, colaEspera, pedido,
                   vuelta, caido>>

-----------------------------------------------------------------------------
\* ejecutar: a processor takes the next request of its carpincho.

Usos(p, s) ==
    LET suyos == { i \in DOMAIN usados[p] : usados[p][i].sem = s }
    IN  IF suyos = {} THEN 0 ELSE usados[p][CHOOSE i \in suyos : TRUE].cant

\* What a client may ask: it names semaphores that exist when it sends the
\* request, and stays within the bounds.
Peticiones(p) ==
    [op : Llamadas \cap {"INICIALIZAR_SEM"}, obj : Semaforos]
    \cup { r \in [op : Llamadas \cap {"ESPERAR_SEM"}, obj : existe] :
               Usos(p, r.obj) < MaxUsos }
    \cup { r \in [op : Llamadas \cap {"POST_SEM"}, obj : existe] :
               valor[r.obj] < MaxValor }
    \cup [op : Llamadas \cap {"DESTROY_SEM"}, obj : existe]
    \cup [op : Llamadas \cap {"CALL_IO"}, obj : Dispositivos]
    \cup [op : Llamadas \cap {"MEM", "CLOSE"}, obj : {Nadie}]

\* Nothing is modelled past the use of a freed PCB.
PCBUsable(t) == lugar[t] \notin liberados

Recibir(t) ==
    /\ En(t, "recibir")
    /\ ocupado[t]
    /\ PCBUsable(t)
    /\ cliente[lugar[t]] = "activo"
    /\ \E r \in Peticiones(lugar[t]) :
          /\ pedido' = [pedido EXCEPT ![t] = r]
          /\ Ir(t, r.op)
    /\ cliente' = [cliente EXCEPT ![lugar[t]] = "espera"]
    /\ UNCHANGED <<listas, contadores, procesadores, sems, usados, liberados, colaEspera,
                   mano, vuelta, caido>>

\* memalloc, memfree, memread, memwrite: a round trip to memoria, and the
\* answer is the permission to go on.
Memoria(t) ==
    /\ En(t, "MEM")
    /\ Permiso(lugar[t])
    /\ Volver(t)
    /\ UNCHANGED <<listas, contadores, procesadores, sems, usados, liberados, colaEspera,
                   mano, vuelta, caido>>

InitSem(t) ==
    LET s == pedido[t].obj IN
    /\ En(t, "INICIALIZAR_SEM")
    /\ mtxSem = Nadie
    /\ \E v \in Valores : valor' = IF s \in existe THEN valor
                                   ELSE [valor EXCEPT ![s] = v]
    /\ existe' = existe \cup {s}
    /\ Permiso(lugar[t])
    /\ Volver(t)
    /\ UNCHANGED <<listas, contadores, procesadores, mtxSem, cola, usados, liberados,
                   colaEspera, mano, vuelta, caido>>

-----------------------------------------------------------------------------
\* wait_sem

\* recursos_usados after one more unit of s.
Registrar(lista, s) ==
    IF \E i \in DOMAIN lista : lista[i].sem = s
    THEN [i \in DOMAIN lista |->
             IF lista[i].sem = s THEN [lista[i] EXCEPT !.cant = @ + 1] ELSE lista[i]]
    ELSE Append(lista, [sem |-> s, cant |-> 1])

\* A mutation: off by one.
HayUnidadDeMas(s) == valor[s] >= 0

HayUnidad(s) == valor[s] > 0

WaitTomar(t) ==
    LET s == pedido[t].obj IN
    /\ En(t, "ESPERAR_SEM")
    /\ mtxSem = Nadie
    /\ s \in existe
    /\ HayUnidad(s)
    /\ valor' = [valor EXCEPT ![s] = @ - 1]
    /\ usados' = [usados EXCEPT ![lugar[t]] = Registrar(@, s)]
    /\ Permiso(lugar[t])
    /\ Volver(t)
    /\ UNCHANGED <<listas, contadores, procesadores, mtxSem, existe, cola, liberados,
                   colaEspera, mano, vuelta, caido>>

WaitEncolar(t) ==
    LET s == pedido[t].obj IN
    /\ En(t, "ESPERAR_SEM")
    /\ mtxSem = Nadie
    /\ s \in existe
    /\ ~HayUnidad(s)
    /\ mtxSem' = t
    /\ cola' = [cola EXCEPT ![s] = Append(@, lugar[t])]
    /\ Ir(t, "bloquear")
    /\ UNCHANGED <<listas, contadores, procesadores, existe, valor, carpinchos, colaEspera,
                   mano, pedido, vuelta, caido>>

\* Shared by wait_sem and call_IO: to BLOCKED, then the processor is freed.
Bloquear(t) ==
    /\ En(t, "bloquear")
    /\ BlockedLibre
    /\ blocked' = Append(blocked, lugar[t])
    /\ Ir(t, "soltar")
    /\ UNCHANGED <<nuevo, ready, blockedSusp, readySusp, contadores, procesadores, sems,
                   carpinchos, colaEspera, mano, pedido, vuelta, caido>>

Soltar(t) ==
    /\ En(t, "soltar")
    /\ ocupado' = [ocupado EXCEPT ![t] = FALSE]
    /\ DevolverProcesador
    /\ Ir(t, "mediano")
    /\ UNCHANGED <<listas, semLargo, semReady, semGrado, lugar, sems, carpinchos, colaEspera,
                   mano, pedido, vuelta, caido>>

-----------------------------------------------------------------------------
\* Waking one carpincho: post_sem, destroy_sem, mate_close, the detector and
\* the devices all repeat the same code.

\* A mutation: nobody looks for it among the suspended.
PasoSinSuspendidos(p) == "aReady"

\* The list it is in is looked up without mutex_lista_blocked.
PasoSegunLista(p) == IF p \in ToSet(blocked) THEN "aReady" ELSE "aReadySusp"

SacarDeCola(t, s) ==
    /\ Tomar(t, Head(cola[s]))
    /\ cola' = [cola EXCEPT ![s] = Tail(@)]
    /\ Ir(t, PasoSegunLista(Head(cola[s])))

\* What each caller does once the carpincho is in its new list.
TrasMover(t) ==
    \/ /\ t \in Ios
       /\ Ir(t, "esperar")
       /\ UNCHANGED <<mtxSem, cliente, pedido>>
    \/ /\ t \in Cpus
       /\ pedido[t].op = "POST_SEM"
       /\ mtxSem' = Nadie
       /\ Permiso(lugar[t])
       /\ Volver(t)
    \/ /\ t \in Cpus
       /\ pedido[t].op = "DESTROY_SEM"
       /\ Ir(t, "vaciar")
       /\ UNCHANGED <<mtxSem, cliente, pedido>>
    \/ /\ t = DL \/ (t \in Cpus /\ pedido[t].op = "CLOSE")
       /\ Ir(t, IF vuelta[t].faltan = 0 THEN "liberar" ELSE "unidad")
       /\ UNCHANGED <<mtxSem, cliente, pedido>>

MoverAReady(t) ==
    /\ En(t, "aReady")
    /\ BlockedLibre
    /\ blocked' = Quitar(blocked, mano[t])
    /\ ready' = Append(ready, mano[t])
    /\ SenalCortoPlazo
    /\ Tomar(t, Nadie)
    /\ TrasMover(t)
    /\ UNCHANGED <<nuevo, blockedSusp, readySusp, semLargo, semGrado, semProc, procesadores,
                   existe, valor, cola, usados, liberados, colaEspera, vuelta, caido>>

MoverAReadySusp(t) ==
    /\ En(t, "aReadySusp")
    /\ ReadySuspLibre
    /\ blockedSusp' = Quitar(blockedSusp, mano[t])
    /\ readySusp' = Append(readySusp, mano[t])
    /\ SenalLargoPlazo
    /\ Tomar(t, Nadie)
    /\ TrasMover(t)
    /\ UNCHANGED <<nuevo, ready, blocked, semReady, semGrado, semProc, procesadores,
                   existe, valor, cola, usados, liberados, colaEspera, vuelta, caido>>

\* A mutation: a waiter is served only when another one stays behind it.
DebeDespertarTarde(s) == valor[s] = 0 /\ Len(cola[s]) > 1

\* post_sem and the release loops hand the unit to a waiter or count it.
DebeDespertar(s) == valor[s] = 0 /\ cola[s] # <<>>

PostSumar(t) ==
    LET s == pedido[t].obj IN
    /\ En(t, "POST_SEM")
    /\ mtxSem = Nadie
    /\ s \in existe
    /\ ~DebeDespertar(s)
    /\ valor' = [valor EXCEPT ![s] = @ + 1]
    /\ Permiso(lugar[t])
    /\ Volver(t)
    /\ UNCHANGED <<listas, contadores, procesadores, mtxSem, existe, cola, usados, liberados,
                   colaEspera, mano, vuelta, caido>>

PostDespertar(t) ==
    LET s == pedido[t].obj IN
    /\ En(t, "POST_SEM")
    /\ mtxSem = Nadie
    /\ s \in existe
    /\ DebeDespertar(s)
    /\ mtxSem' = t
    /\ SacarDeCola(t, s)
    /\ UNCHANGED <<listas, contadores, procesadores, existe, valor, carpinchos, colaEspera,
                   pedido, vuelta, caido>>

\* destroy_sem: wakes the whole queue, then forgets the semaphore.
Vaciar(t) ==
    LET s == pedido[t].obj IN
    /\ \/ En(t, "DESTROY_SEM") /\ mtxSem = Nadie
       \/ En(t, "vaciar")
    /\ s \in existe
    /\ cola[s] # <<>>
    /\ mtxSem' = t
    /\ SacarDeCola(t, s)
    /\ UNCHANGED <<listas, contadores, procesadores, existe, valor, carpinchos, colaEspera,
                   pedido, vuelta, caido>>

Destruir(t) ==
    LET s == pedido[t].obj IN
    /\ \/ En(t, "DESTROY_SEM") /\ mtxSem = Nadie
       \/ En(t, "vaciar")
    /\ s \in existe
    /\ cola[s] = <<>>
    /\ mtxSem' = Nadie
    /\ existe' = existe \ {s}
    /\ valor' = [valor EXCEPT ![s] = 0]
    /\ Permiso(lugar[t])
    /\ Volver(t)
    /\ UNCHANGED <<listas, contadores, procesadores, cola, usados, liberados, colaEspera,
                   mano, vuelta, caido>>

\* wait_sem, post_sem and destroy_sem dereference what list_find answers.
SemaforoNulo(t) ==
    /\ \E op \in {"ESPERAR_SEM", "POST_SEM", "DESTROY_SEM"} : En(t, op)
    /\ mtxSem = Nadie
    /\ pedido[t].obj \notin existe
    /\ Caer

-----------------------------------------------------------------------------
\* call_IO and ejecutar_io

\* The device is told before the carpincho is in BLOCKED.
PedirIO(t) ==
    LET d == <<"ejecutar_io", pedido[t].obj>> IN
    /\ En(t, "CALL_IO")
    /\ colaEspera' = [colaEspera EXCEPT ![d] = Append(@, lugar[t])]
    /\ Ir(t, "bloquear")
    /\ UNCHANGED <<listas, contadores, procesadores, sems, carpinchos, mano, pedido, vuelta,
                   caido>>

EmpezarRafaga(t) ==
    /\ En(t, "esperar")
    /\ colaEspera[t] # <<>>
    /\ Tomar(t, Head(colaEspera[t]))
    /\ colaEspera' = [colaEspera EXCEPT ![t] = Tail(@)]
    /\ Ir(t, "rafaga")
    /\ UNCHANGED <<listas, contadores, procesadores, sems, carpinchos, pedido, vuelta, caido>>

\* After the usleep: where is it?
TerminarRafaga(t) ==
    /\ En(t, "rafaga")
    /\ RafagaLarga => \A u \in Cpus : pc[u] = "bloquear" => lugar[u] # mano[t]
    /\ Ir(t, PasoSegunLista(mano[t]))
    /\ UNCHANGED <<listas, contadores, procesadores, sems, carpinchos, colaEspera, mano,
                   pedido, vuelta, caido>>

-----------------------------------------------------------------------------
\* mate_close

\* The client has its answer, memoria has been told, the processor's bit is
\* clear -- and lugar_PCB is still used below.
CloseSoltar(t) ==
    /\ En(t, "CLOSE")
    /\ cliente' = [cliente EXCEPT ![lugar[t]] = "fin"]
    /\ ocupado' = [ocupado EXCEPT ![t] = FALSE]
    /\ vuelta' = [vuelta EXCEPT ![t].k = 1]
    /\ Ir(t, "liberar")
    /\ UNCHANGED <<listas, contadores, lugar, sems, usados, liberados, colaEspera, mano,
                   pedido, caido>>

\* The list whose k-th record the loop reads is that of the PCB now in
\* lugar_PCB; for the detector, that of its victim.
Usados(t) == usados[lugar[t]]
QuedanRecursos(t) == vuelta[t].k <= Len(Usados(t))

\* A mutation: the index is not advanced.
MismoRecurso(k) == k

ProximoRecurso(k) == k + 1

\* The loop of mate_close locks on every turn and unlocks only after the loop;
\* the detector has held the mutex since it started.
PuedeLiberar(t) == t = DL \/ mtxSem = Nadie

Liberar(t) ==
    /\ En(t, "liberar")
    /\ PCBUsable(t)
    /\ QuedanRecursos(t)
    /\ PuedeLiberar(t)
    /\ LET r == Usados(t)[vuelta[t].k] IN
          /\ r.sem \in existe
          /\ vuelta' = [vuelta EXCEPT ![t] = [k |-> ProximoRecurso(@.k), sem |-> r.sem, faltan |-> r.cant]]
    /\ mtxSem' = t
    /\ Ir(t, "unidad")
    /\ UNCHANGED <<listas, contadores, procesadores, existe, valor, cola, carpinchos,
                   colaEspera, mano, pedido, caido>>

LiberarNulo(t) ==
    /\ En(t, "liberar")
    /\ PCBUsable(t)
    /\ QuedanRecursos(t)
    /\ PuedeLiberar(t)
    /\ Usados(t)[vuelta[t].k].sem \notin existe
    /\ Caer

UnidadSumar(t) ==
    LET s == vuelta[t].sem IN
    /\ En(t, "unidad")
    /\ ~DebeDespertar(s)
    /\ valor' = [valor EXCEPT ![s] = @ + 1]
    /\ vuelta' = [vuelta EXCEPT ![t].faltan = @ - 1]
    /\ Ir(t, IF vuelta[t].faltan = 1 THEN "liberar" ELSE "unidad")
    /\ UNCHANGED <<listas, contadores, procesadores, mtxSem, existe, cola, carpinchos,
                   colaEspera, mano, pedido, caido>>

UnidadDespertar(t) ==
    LET s == vuelta[t].sem IN
    /\ En(t, "unidad")
    /\ DebeDespertar(s)
    /\ vuelta' = [vuelta EXCEPT ![t].faltan = @ - 1]
    /\ SacarDeCola(t, s)
    /\ UNCHANGED <<listas, contadores, procesadores, mtxSem, existe, valor, carpinchos,
                   colaEspera, pedido, caido>>

\* The end of mate_close and of a kill: out of every queue, mutex unlocked
\* (whoever holds it), PCB freed.
Borrar(t) ==
    /\ En(t, "liberar")
    /\ PCBUsable(t)
    /\ ~QuedanRecursos(t)
    /\ cola' = [s \in Semaforos |-> Quitar(cola[s], lugar[t])]
    /\ mtxSem' = Nadie
    /\ usados' = [usados EXCEPT ![lugar[t]] = <<>>]
    /\ liberados' = liberados \cup {lugar[t]}
    /\ vuelta' = [vuelta EXCEPT ![t] = SinVuelta]
    /\ semGrado' = semGrado + 1

FinClose(t) ==
    /\ t \in Cpus
    /\ Borrar(t)
    /\ DevolverProcesador
    /\ Volver(t)
    /\ UNCHANGED <<listas, semLargo, semReady, procesadores, existe, valor, cliente,
                   colaEspera, mano, caido>>

-----------------------------------------------------------------------------
\* algoritmo_deteccion_deadlock

\* A blocked carpincho used a semaphore that has been destroyed since: the
\* detector dereferences what list_find answers for it.
RecursoPerdido == \E p \in Bloqueados(cola) : ~(Retiene(usados, p) \subseteq existe)

Detectar ==
    /\ ConDetector
    /\ En(DL, "detectar")
    /\ mtxSem = Nadie
    /\ ~RecursoPerdido
    /\ EnDeadlock(cola, usados) # {}
    /\ mtxSem' = DL
    /\ LET v == MayorPID(EnDeadlock(cola, usados)) IN
          /\ lugar' = [lugar EXCEPT ![DL] = v]
          /\ Ir(DL, IF v \in ToSet(blocked) THEN "quitarBlocked" ELSE "quitarSusp")
    /\ UNCHANGED <<listas, contadores, ocupado, existe, valor, cola, carpinchos, colaEspera,
                   mano, pedido, vuelta, caido>>

DetectarNulo ==
    /\ ConDetector
    /\ En(DL, "detectar")
    /\ mtxSem = Nadie
    /\ RecursoPerdido
    /\ Caer

QuitarVictima ==
    /\ \/ /\ En(DL, "quitarBlocked")
          /\ BlockedLibre
          /\ blocked' = Quitar(blocked, lugar[DL])
          /\ UNCHANGED blockedSusp
       \/ /\ En(DL, "quitarSusp")
          /\ blockedSusp' = Quitar(blockedSusp, lugar[DL])
          /\ UNCHANGED blocked
    /\ vuelta' = [vuelta EXCEPT ![DL].k = 1]
    /\ Ir(DL, "liberar")
    /\ UNCHANGED <<nuevo, ready, readySusp, contadores, procesadores, sems, carpinchos,
                   colaEspera, mano, pedido, caido>>

FinKill ==
    /\ Borrar(DL)
    /\ cliente' = [cliente EXCEPT ![lugar[DL]] = "fin"]
    /\ lugar' = [lugar EXCEPT ![DL] = Nadie]
    /\ Ir(DL, "detectar")
    /\ UNCHANGED <<listas, semLargo, semReady, semProc, ocupado, existe, valor, colaEspera,
                   mano, pedido, caido>>

-----------------------------------------------------------------------------
\* The threads, the specification and its fairness.

HiloAtencion(p) ==
    \/ PasarANew(p)
    \/ Mediano(Atencion(p))
    \/ Suspender(Atencion(p))
    \/ AvisarSuspension(Atencion(p))

HiloLargoPlazo ==
    \/ EsperarLargoPlazo
    \/ AdmitirSuspendido
    \/ AvisarDessuspension
    \/ AdmitirNuevo

HiloCortoPlazo ==
    \/ EsperarReady
    \/ Elegir
    \/ Despachar

\* Everything a processor does on its own, once a client has asked.
HiloCpu(t) ==
    \/ Memoria(t) \/ InitSem(t)
    \/ WaitTomar(t) \/ WaitEncolar(t)
    \/ Bloquear(t) \/ Soltar(t)
    \/ Mediano(t) \/ Suspender(t) \/ AvisarSuspension(t)
    \/ PostSumar(t) \/ PostDespertar(t)
    \/ Vaciar(t) \/ Destruir(t) \/ SemaforoNulo(t)
    \/ PedirIO(t)
    \/ CloseSoltar(t) \/ FinClose(t)
    \/ Liberar(t) \/ LiberarNulo(t) \/ UnidadSumar(t) \/ UnidadDespertar(t)
    \/ MoverAReady(t) \/ MoverAReadySusp(t)

HiloIO(t) ==
    \/ EmpezarRafaga(t)
    \/ TerminarRafaga(t)
    \/ MoverAReady(t)
    \/ MoverAReadySusp(t)

HiloDeadlock ==
    \/ Detectar \/ DetectarNulo
    \/ QuitarVictima
    \/ Liberar(DL) \/ LiberarNulo(DL) \/ UnidadSumar(DL) \/ UnidadDespertar(DL)
    \/ MoverAReady(DL) \/ MoverAReadySusp(DL)
    \/ FinKill

Next ==
    \/ \E p \in PIDs : Conectar(p) \/ HiloAtencion(p)
    \/ HiloLargoPlazo
    \/ HiloCortoPlazo
    \/ \E t \in Cpus : Recibir(t) \/ HiloCpu(t)
    \/ \E t \in Ios : HiloIO(t)
    \/ HiloDeadlock

Spec == Init /\ [][Next]_vars

\* Every kernel thread that can take a step takes one; nothing is assumed of
\* the clients, who may never connect and never ask (Conectar, Recibir).
FairSpec ==
    /\ Spec
    /\ \A p \in PIDs : WF_vars(HiloAtencion(p))
    /\ WF_vars(HiloLargoPlazo)
    /\ WF_vars(HiloCortoPlazo)
    /\ \A t \in Cpus : WF_vars(HiloCpu(t))
    /\ \A t \in Ios : WF_vars(HiloIO(t))
    /\ WF_vars(HiloDeadlock)

-----------------------------------------------------------------------------
\* Types.

Pedidos == [op : Operaciones, obj : Objetos] \cup {SinPedido}
Recursos == [sem : Semaforos, cant : Nat \ {0}]
Vueltas == [k : Nat, sem : Semaforos \cup {Nadie}, faltan : Nat]

TiposListas ==
    /\ nuevo \in Seq(PIDs) /\ ready \in Seq(PIDs) /\ blocked \in Seq(PIDs)
    /\ blockedSusp \in Seq(PIDs) /\ readySusp \in Seq(PIDs)
    /\ semLargo \in Nat /\ semReady \in Nat /\ semGrado \in Nat /\ semProc \in Nat

TiposProcesadores ==
    /\ lugar \in [Ejecutores -> PIDs \cup {Nadie}]
    /\ ocupado \in [Cpus -> BOOLEAN]
    /\ colaEspera \in [Ios -> Seq(PIDs)]

TiposSemaforos ==
    /\ mtxSem \in Ejecutores \cup {Nadie}
    /\ existe \subseteq Semaforos
    /\ valor \in [Semaforos -> Nat]
    /\ cola \in [Semaforos -> Seq(PIDs)]

TiposCarpinchos ==
    /\ usados \in [PIDs -> Seq(Recursos)]
    /\ cliente \in [PIDs -> {"espera", "activo", "fin"}]
    /\ liberados \subseteq PIDs

TiposHilos ==
    /\ pc \in [Hilos -> Pasos]
    /\ mano \in [Hilos -> PIDs \cup {Nadie}]
    /\ pedido \in [Ejecutores -> Pedidos]
    /\ vuelta \in [Ejecutores -> Vueltas]
    /\ caido \in BOOLEAN

\* Type invariant of the planner's state.  It says that no counting semaphore
\* goes below zero: a wait that found no unit does not take one.
TypeOK ==
    /\ TiposListas
    /\ TiposProcesadores
    /\ TiposSemaforos
    /\ TiposCarpinchos
    /\ TiposHilos

-----------------------------------------------------------------------------
\* Safety.

Uno(b) == IF b THEN 1 ELSE 0
Veces(l, p) == Cardinality({i \in DOMAIN l : l[i] = p})

\* p runs on t; between the two halves of wait_sem and call_IO it is already
\* in BLOCKED and the processor's bit is still set.
Ejecuta(t, p) == ocupado[t] /\ lugar[t] = p /\ pc[t] # "soltar"

\* t has cleared its bit in mate_close and not yet freed the PCB.
Cerrando(t) == pedido[t].op = "CLOSE" /\ pc[t] # "CLOSE"

\* Tokens and lists.  The counters the schedulers sleep on match the lists
\* they take from: sem_algoritmo_planificador_largo_plazo counts NEW and
\* READY-SUSPENDED, sem_cola_ready counts READY, up to the token a scheduler
\* has taken and not used and the one the long-term scheduler owes while it
\* talks to memoria.  So list_remove(LISTA_NEW, 0) and list_get_minimum never
\* see an empty list, and no carpincho is left in a list nobody will look at.
FichasDeListas ==
    /\ semLargo + Uno(pc[LP] = "grado") = Len(nuevo) + Len(readySusp)
    /\ semReady + Uno(pc[CP] = "procesador") + Uno(pc[LP] = "dessuspender") = Len(ready)

\* Tokens and processors.  sem_grado_multiprocesamiento never promises a
\* processor that is not there, not even while mate_close works with its bit
\* clear: correr_dispatcher dereferences what list_find answers.
FichasDeProcesadores ==
    semProc + Uno(pc[CP] = "despachar") + Cardinality({t \in Cpus : Cerrando(t)})
        = Cardinality({t \in Cpus : ~ocupado[t]})

\* Nobody sleeps in the queue of a mate semaphore with units left, however
\* the units came back: post_sem, a close or a kill.
NadieDuermeConUnidades ==
    \A s \in Semaforos : /\ valor[s] > 0 => cola[s] = <<>>
                         /\ s \notin existe => cola[s] = <<>>

\* A carpincho is in exactly one place: being connected, in one list once, in
\* the hand of the dispatcher or of the medium-term scheduler, on one
\* processor, closing, or freed.
CadaUnoEnUnLugar ==
    \A p \in PIDs :
        Uno(pc[Atencion(p)] \in {"fuera", "pasarANew"})
        + Veces(nuevo, p) + Veces(ready, p) + Veces(blocked, p)
        + Veces(blockedSusp, p) + Veces(readySusp, p)
        + Uno(mano[CP] = p)
        + Cardinality({t \in Hilos : pc[t] = "suspender" /\ mano[t] = p})
        + Cardinality({t \in Cpus : Ejecuta(t, p)})
        + Cardinality({t \in Cpus : Cerrando(t) /\ lugar[t] = p})
        + Uno(p \in liberados)
        = 1

\* The degree of multiprogramming is conserved: every slot is free, in the
\* hand of the long-term scheduler, or held by one carpincho that is in READY,
\* dispatched, running, in BLOCKED, being suspended or closing.
GradoConservado ==
    semGrado
    + Len(ready) + Len(blocked) + Uno(pc[CP] = "despachar")
    + Cardinality({t \in Cpus : ocupado[t] /\ pc[t] # "soltar"})
    + Cardinality({t \in Cpus : Cerrando(t)})
    + Cardinality({t \in Hilos : pc[t] \in {"suspender", "avisar"}})
    = Grado

\* Without devices, the carpinchos that are stopped (in BLOCKED, in
\* BLOCKED-SUSPENDED or on the way to one of them) are exactly the ones in a
\* semaphore's queue or just taken out of one by a thread about to wake them:
\* no wake-up is lost and none is given to somebody who is not asleep.
DetenidosEncolados ==
    ToSet(blocked) \cup ToSet(blockedSusp)
    \cup {mano[t] : t \in {u \in Hilos : pc[u] = "suspender"}}
    \cup {lugar[t] : t \in {u \in Cpus : pc[u] = "bloquear"}}
    = Bloqueados(cola)
      \cup {mano[t] : t \in {u \in Hilos : pc[u] \in {"aReady", "aReadySusp"}}}

\* If every slot is taken by a blocked carpincho and somebody waits in NEW,
\* some thread is about to run the medium-term scheduler: the test is made
\* only after each insertion, never by a scheduler that waits for it.
SuspensionPendiente ==
    Len(blocked) = Grado /\ nuevo # <<>> =>
        \E t \in Hilos : pc[t] \in {"soltar", "mediano"}

\* A carpincho whose PCB has been freed is in no list a scheduler takes from
\* and on no processor.
MuertosFueraDeListas ==
    /\ liberados \cap (ToSet(nuevo) \cup ToSet(ready) \cup ToSet(readySusp)) = {}
    /\ \A t \in Cpus : ocupado[t] => lugar[t] \notin liberados

-----------------------------------------------------------------------------
\* Liveness.

\* A carpincho in NEW does not wait for ever behind G blocked ones.
NuevoDesplazaBloqueado ==
    (Len(blocked) = Grado /\ nuevo # <<>>) ~> (Len(blocked) < Grado \/ nuevo = <<>>)

\* A processor is not left idle while READY is not empty.
NoHayOcioConListos ==
    (ready # <<>> /\ \E t \in Cpus : ~ocupado[t])
        ~> (ready = <<>> \/ \A t \in Cpus : ocupado[t])

\* A circular wait among recorded users of semaphores is broken, unless the
\* process dies on a semaphore that was destroyed.
CirculoSeRompe ==
    (\E C \in SUBSET PIDs : EsperaCircular(cola, usados, C))
        ~> (caido \/ \A C \in SUBSET PIDs : ~EsperaCircular(cola, usados, C))

\* A close that starts ends: the PCB is freed and its slot given back.
CloseTermina ==
    \A t \in Cpus : Cerrando(t) ~> ~Cerrando(t)
=============================================================================
