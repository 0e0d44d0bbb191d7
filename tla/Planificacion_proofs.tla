------------------------- MODULE Planificacion_proofs -------------------------
(***************************************************************************)
(* The type invariant of the planner and two of its safety invariants,     *)
(* for any number of carpinchos, processors, devices and semaphores:       *)
(*                                                                         *)
(*   TypeOK                   no counting semaphore, no mate semaphore and *)
(*                            no index leaves its range                    *)
(*   FichasDeListas           the schedulers' counters match the lists     *)
(*   NadieDuermeConUnidades   nobody sleeps on a semaphore with units      *)
(*                                                                         *)
(* None is inductive alone.  AdmitirNuevo takes the head of NEW because    *)
(* the counters say it is not empty; UnidadDespertar wakes somebody only   *)
(* on a semaphore that exists; and the types need to know what each thread *)
(* has in its hands at each step.  IndInv adds that: ControlOK.            *)
(*                                                                         *)
(* At the end, apart: nobody in a circular wait escapes the detector.      *)
(***************************************************************************)
EXTENDS Planificacion, SequenceTheorems, WellFoundedInduction, TLAPS

-----------------------------------------------------------------------------
\* The inductive invariant.

\* A thread that is about to move a PCB has one.
ManosOK ==
    \A t \in Hilos :
        pc[t] \in {"suspender", "aReady", "aReadySusp", "despachar", "rafaga"}
            => mano[t] \in PIDs

\* A processor that is taken or busy has a PCB in its place, and so has the
\* detector when it kills.
LugaresOK ==
    /\ \A t \in Cpus : ocupado[t] \/ pc[t] # "recibir" => lugar[t] \in PIDs
    /\ pc[DL] # "detectar" => lugar[DL] \in PIDs

\* t has taken a carpincho out of a queue and is about to move it.
Despierta(t) == pc[t] \in {"aReady", "aReadySusp"}

\* t is inside the release loop of mate_close or of a kill.
EnLiberacion(t) ==
    \/ pc[t] \in {"liberar", "unidad"}
    \/ Despierta(t) /\ (t = DL \/ pedido[t].op = "CLOSE")

\* The release loop knows its semaphore while it has units to give back, and
\* its index starts at 1.
VueltasOK ==
    \A t \in Ejecutores :
        /\ vuelta[t].faltan > 0 => vuelta[t].sem \in Semaforos
        /\ pc[t] = "unidad" => vuelta[t].faltan > 0
        /\ EnLiberacion(t) => vuelta[t].k > 0

\* What a processor does is what it was asked.
PedidosOK ==
    \A t \in Cpus :
        /\ pc[t] \in Operaciones => pedido[t].op = pc[t]
        /\ pc[t] = "vaciar" => pedido[t].op = "DESTROY_SEM"
        /\ pc[t] = "INICIALIZAR_SEM" => pedido[t].obj \in Semaforos

ControlOK == ManosOK /\ LugaresOK /\ VueltasOK /\ PedidosOK

IndInv == TypeOK /\ ControlOK /\ FichasDeListas /\ NadieDuermeConUnidades

-----------------------------------------------------------------------------
\* Lemmas about threads and steps.

\* Threads of different kinds are different threads.
LEMMA HilosDistintos ==
    /\ LP \in Hilos /\ CP \in Hilos /\ DL \in Hilos
    /\ Cpus \subseteq Hilos /\ Ios \subseteq Hilos /\ Ejecutores \subseteq Hilos
    /\ DL \in Ejecutores /\ Cpus \subseteq Ejecutores
    /\ \A p \in PIDs : Atencion(p) \in Hilos
    /\ LP # CP /\ LP # DL /\ CP # DL
    /\ \A t \in Cpus : t # LP /\ t # CP /\ t # DL /\ t \notin Ios
    /\ \A t \in Ios : t # LP /\ t # CP /\ t # DL /\ t \notin Ejecutores
    /\ \A t \in Atenciones : t # LP /\ t # CP /\ t # DL /\ t \in Hilos
                              /\ t \notin Cpus /\ t \notin Ejecutores
    /\ \A p \in PIDs : Atencion(p) \in Atenciones
    /\ \A t \in Ejecutores : t # DL => t \in Cpus
BY DEF Hilos, Cpus, Ios, Ejecutores, Atenciones, Atencion, LP, CP, DL

\* The steps the actions name.
LEMMA PasosTipo ==
    /\ {"fuera", "pasarANew", "mediano", "suspender", "avisar", "fin",
          "largo", "grado", "dessuspender", "ready", "procesador", "despachar",
          "recibir", "bloquear", "soltar", "vaciar", "liberar", "unidad",
          "aReady", "aReadySusp", "esperar", "rafaga", "detectar",
          "quitarBlocked", "quitarSusp"} \subseteq Pasos
BY DEF Pasos

\* An idle executor has the empty request.
LEMMA PedidosTipo == SinPedido \in Pedidos
BY DEF Pedidos

\* What a client may ask is a well-formed request (Recibir).
LEMMA PeticionesTipo ==
  ASSUME existe \subseteq Semaforos, NEW p, NEW r \in Peticiones(p)
  PROVE  /\ r \in Pedidos
         /\ r.op \in Operaciones
         /\ r.op = "INICIALIZAR_SEM" => r.obj \in Semaforos
BY DEF Peticiones, Pedidos, Operaciones, Objetos

\* A waker goes to READY or to READY-SUSPENDED and nowhere else.
LEMMA PasoSegunListaTipo ==
  \A p : PasoSegunLista(p) \in {"aReady", "aReadySusp"}
BY DEF PasoSegunLista

\* The updates of the release loop keep its record well formed.
LEMMA VueltasTipo ==
  /\ SinVuelta \in Vueltas
  /\ \A v \in Vueltas :
        /\ [v EXCEPT !.k = 1] \in Vueltas
        /\ v.faltan > 0 => [v EXCEPT !.faltan = @ - 1] \in Vueltas
  /\ \A r \in Recursos, k \in Nat :
        [k |-> k, sem |-> r.sem, faltan |-> r.cant] \in Vueltas
BY DEF Vueltas, SinVuelta, Recursos

-----------------------------------------------------------------------------
\* Lemmas about lists and records.

\* What Mediano takes from the end of BLOCKED.
LEMMA FrenteTipo ==
  ASSUME NEW S, NEW l \in Seq(S), l # <<>>
  PROVE  Front(l) \in Seq(S) /\ Last(l) \in S
<1>1. Len(l) \in Nat \ {0} /\ \A i \in 1 .. Len(l) : l[i] \in S
  BY EmptySeq, ElementOfSeq
<1>. QED
  BY <1>1, SubSeqProperties DEF Front, Last

\* list_remove at a position of the list: one element less, the rest and the
\* element itself of the same type.
LEMMA RemoveAtTipo ==
  ASSUME NEW S, NEW l \in Seq(S), NEW i \in DOMAIN l
  PROVE  /\ RemoveAt(l, i) \in Seq(S)
         /\ Len(RemoveAt(l, i)) = Len(l) - 1
         /\ l[i] \in S
<1>1. /\ Len(l) \in Nat /\ i \in 1 .. Len(l)
      /\ \A j \in 1 .. Len(l) : l[j] \in S
  BY LenProperties, ElementOfSeq
<1>2. SubSeq(l, 1, i - 1) \in Seq(S) /\ Len(SubSeq(l, 1, i - 1)) = i - 1
  BY <1>1, SubSeqProperties
<1>3. SubSeq(l, i + 1, Len(l)) \in Seq(S) /\ Len(SubSeq(l, i + 1, Len(l))) = Len(l) - i
  BY <1>1, SubSeqProperties
<1>4. /\ RemoveAt(l, i) \in Seq(S)
      /\ Len(RemoveAt(l, i))
            = Len(SubSeq(l, 1, i - 1)) + Len(SubSeq(l, i + 1, Len(l)))
  BY <1>2, <1>3, ConcatProperties DEF RemoveAt
<1>5. Len(RemoveAt(l, i)) = (i - 1) + (Len(l) - i)
  BY <1>2, <1>3, <1>4
<1>6. (i - 1) + (Len(l) - i) = Len(l) - 1
  BY <1>1
<1>7. l[i] \in S
  BY <1>1
<1>. QED
  BY <1>4, <1>5, <1>6, <1>7

\* list_remove_by_condition keeps the type, and the empty list empty.
LEMMA QuitarTipo ==
  ASSUME NEW S, NEW l \in Seq(S), NEW p
  PROVE  Quitar(l, p) \in Seq(S) /\ (l = <<>> => Quitar(l, p) = <<>>)
<1>1. CASE p \in ToSet(l)
  <2>1. \E i \in DOMAIN l : l[i] = p
    BY <1>1 DEF ToSet
  <2>2. (CHOOSE i \in DOMAIN l : l[i] = p) \in DOMAIN l
    BY <2>1
  <2>3. l # <<>>
    BY <2>1
  <2>. QED
    BY <1>1, <2>2, <2>3, RemoveAtTipo DEF Quitar
<1>2. CASE p \notin ToSet(l)
  BY <1>2 DEF Quitar
<1>. QED
  BY <1>1, <1>2

\* recursos_usados after one more unit is still a list of records.
LEMMA RegistrarTipo ==
  ASSUME NEW l \in Seq(Recursos), NEW s \in Semaforos
  PROVE  Registrar(l, s) \in Seq(Recursos)
<1>1. CASE \E i \in DOMAIN l : l[i].sem = s
  <2>. DEFINE e(i) == IF l[i].sem = s THEN [l[i] EXCEPT !.cant = @ + 1] ELSE l[i]
  <2>1. Len(l) \in Nat /\ DOMAIN l = 1 .. Len(l)
    BY LenProperties
  <2>2. ASSUME NEW i \in 1 .. Len(l)  PROVE e(i) \in Recursos
    <3>1. l[i] \in Recursos
      BY <2>2, ElementOfSeq
    <3>. QED
      BY <3>1 DEF Recursos
  <2>3. Registrar(l, s) = [i \in 1 .. Len(l) |-> e(i)]
    BY <1>1, <2>1 DEF Registrar
  <2>4. [i \in 1 .. Len(l) |-> e(i)] \in Seq(Recursos)
    <3>. HIDE DEF e
    <3>. QED BY <2>1, <2>2
  <2>. QED
    BY <2>3, <2>4
<1>2. CASE ~ \E i \in DOMAIN l : l[i].sem = s
  <2>1. [sem |-> s, cant |-> 1] \in Recursos
    BY DEF Recursos
  <2>. QED
    BY <1>2, <2>1, AppendProperties DEF Registrar
<1>. QED
  BY <1>1, <1>2

-----------------------------------------------------------------------------
\* The victim: Max is a CHOOSE, so its existence has to be shown.

Menor == {par \in Nat \X Nat : par[1] < par[2]}

\* The order of the naturals has no infinite descent.
LEMMA MenorBienFundado == IsWellFoundedOn(Menor, Nat)
<1>1. OpToRel(<, Nat) = Menor
  BY DEF OpToRel, Menor
<1>. QED
  BY <1>1, NatLessThanWellFounded

\* A non-empty set of PIDs has a greatest element.
LEMMA MaximoExiste ==
  ASSUME NEW S, S \subseteq PIDs, S # {}
  PROVE  Max(S) \in S
<1>. DEFINE N == NumCarpinchos
            D == {n \in Nat : N - 1 - n \in S}
<1>0. ASSUME NEW e \in S  PROVE  e \in 0 .. N - 1 /\ N - 1 - e \in D
  <2>1. e \in 0 .. N - 1
    BY <1>0 DEF PIDs
  <2>2. N - 1 - e \in Nat /\ N - 1 - (N - 1 - e) = e
    BY <2>1, CantidadesAssumption
  <2>. QED
    BY <2>1, <2>2
<1>1. D \subseteq Nat /\ D # {}
  BY <1>0
<1>2. PICK d \in D : \A e \in D : <<e, d>> \notin Menor
  <2>. HIDE DEF D
  <2>. QED
    BY <1>1, MenorBienFundado, WFMin
<1>3. ASSUME NEW e \in S  PROVE  N - 1 - d >= e
  <2>1. <<N - 1 - e, d>> \notin Menor
    BY <1>0, <1>2
  <2>. QED
    BY <2>1, <1>0, <1>1, <1>2, CantidadesAssumption DEF Menor
<1>. QED
  BY <1>2, <1>3 DEF Max

\* The victim of the detector is a carpincho.
LEMMA MayorPIDTipo ==
  ASSUME TiposSemaforos, EnDeadlock(cola, usados) # {}
  PROVE  MayorPID(EnDeadlock(cola, usados)) \in PIDs
<1>1. \A s \in Semaforos : ToSet(cola[s]) \subseteq PIDs
  BY RangeOfSeq DEF TiposSemaforos, ToSet, Range
<1>2. EnDeadlock(cola, usados) \subseteq PIDs
  BY <1>1 DEF EnDeadlock, Bloqueados, TiposSemaforos
<1>. QED
  BY <1>2, MaximoExiste DEF MayorPID

-----------------------------------------------------------------------------
\* The connections and the medium-term scheduler.

\* A connection's thread starts.
LEMMA ConectarPreserva ==
  ASSUME IndInv, NEW p \in PIDs, Conectar(p)
  PROVE  IndInv'
<1>1. TiposHilos'
  BY HilosDistintos, PasosTipo DEF IndInv, TypeOK, TiposHilos, Conectar, Ir, En
<1>2. FichasDeListas'
  BY HilosDistintos DEF IndInv, TypeOK, TiposHilos, TiposListas, FichasDeListas, Uno,
     Conectar, Ir, En, listas, contadores
<1>3. ManosOK' /\ LugaresOK' /\ VueltasOK' /\ PedidosOK'
  BY HilosDistintos DEF IndInv, ControlOK, TypeOK, TiposHilos, ManosOK, Conectar, Ir, En,
     TiposProcesadores, LugaresOK, procesadores, VueltasOK, EnLiberacion, Despierta,
     PedidosOK, Operaciones
<1>4. TiposListas' /\ TiposProcesadores' /\ TiposSemaforos' /\ TiposCarpinchos' /\
   NadieDuermeConUnidades'
  BY DEF IndInv, TypeOK, TiposListas, TiposProcesadores, TiposSemaforos, TiposCarpinchos,
     NadieDuermeConUnidades, Conectar, listas, contadores, procesadores, sems, carpinchos
<1>. QED
  BY <1>1, <1>2, <1>3, <1>4 DEF IndInv, TypeOK, ControlOK

\* One more in NEW, one more token for the long-term scheduler.
LEMMA PasarANewPreserva ==
  ASSUME IndInv, NEW p \in PIDs, PasarANew(p)
  PROVE  IndInv'
<1>1. /\ Append(nuevo, p) \in Seq(PIDs)
      /\ Len(Append(nuevo, p)) = Len(nuevo) + 1
  BY AppendProperties DEF IndInv, TypeOK, TiposListas
<1>2. TiposListas'
  BY <1>1 DEF IndInv, TypeOK, TiposListas, PasarANew, SenalLargoPlazo
<1>3. TiposHilos'
  BY <1>1, HilosDistintos, PasosTipo DEF IndInv, TypeOK, TiposHilos, PasarANew, Ir, En
<1>4. FichasDeListas'
  BY <1>1, HilosDistintos DEF IndInv, TypeOK, TiposHilos, TiposListas, FichasDeListas, Uno,
     PasarANew, Ir, SenalLargoPlazo, En
<1>5. ManosOK' /\ LugaresOK' /\ VueltasOK' /\ PedidosOK'
  BY <1>1, HilosDistintos DEF IndInv, ControlOK, TypeOK, TiposHilos, ManosOK, PasarANew,
     Ir, En, TiposProcesadores, LugaresOK, procesadores, VueltasOK, EnLiberacion,
     Despierta, PedidosOK, Operaciones
<1>6. TiposProcesadores' /\ TiposSemaforos' /\ TiposCarpinchos' /\ NadieDuermeConUnidades'
  BY DEF IndInv, TypeOK, TiposProcesadores, TiposSemaforos, TiposCarpinchos,
     NadieDuermeConUnidades, PasarANew, procesadores, sems, carpinchos
<1>. QED
  BY <1>2, <1>3, <1>4, <1>5, <1>6 DEF IndInv, TypeOK, ControlOK

\* The medium-term scheduler takes the last of BLOCKED, or has nothing to do.
LEMMA MedianoPreserva ==
  ASSUME IndInv, NEW t \in Atenciones \cup Cpus, Mediano(t)
  PROVE  IndInv'
<1>1. blocked # <<>> => Front(blocked) \in Seq(PIDs) /\ Last(blocked) \in PIDs
  BY FrenteTipo DEF IndInv, TypeOK, TiposListas
<1>2. HayQueSuspender => blocked # <<>>
  BY CantidadesAssumption, EmptySeq DEF HayQueSuspender
<1>3. TiposListas'
  BY <1>1, <1>2 DEF IndInv, TypeOK, TiposListas, Mediano, contadores
<1>4. TiposSemaforos'
  BY <1>1, <1>2, HilosDistintos DEF IndInv, TypeOK, TiposSemaforos, Mediano, TrasMediano
<1>5. TiposHilos'
  BY <1>1, <1>2, HilosDistintos, PasosTipo, PedidosTipo DEF IndInv, TypeOK, TiposHilos,
     Mediano, Ir, Tomar, TrasMediano, Volver, En
<1>6. FichasDeListas'
  BY <1>1, <1>2, HilosDistintos DEF IndInv, TypeOK, TiposHilos, TiposListas,
     FichasDeListas, Uno, Mediano, Ir, TrasMediano, Volver, En, contadores
<1>7. ManosOK' /\ LugaresOK' /\ VueltasOK' /\ PedidosOK'
  BY <1>1, <1>2, HilosDistintos, SMTT(40) DEF IndInv, ControlOK, TypeOK, TiposHilos, ManosOK,
     Mediano, Ir, Tomar, TrasMediano, Volver, En, TiposProcesadores, LugaresOK,
     procesadores, VueltasOK, EnLiberacion, Despierta, PedidosOK, Operaciones
<1>8. TiposProcesadores' /\ TiposCarpinchos' /\ NadieDuermeConUnidades'
  BY DEF IndInv, TypeOK, TiposProcesadores, TiposCarpinchos, NadieDuermeConUnidades,
     Mediano, contadores, procesadores, carpinchos
<1>. QED
  BY <1>3, <1>4, <1>5, <1>6, <1>7, <1>8 DEF IndInv, TypeOK, ControlOK

\* What it took goes to BLOCKED-SUSPENDED.
LEMMA SuspenderPreserva ==
  ASSUME IndInv, NEW t \in Atenciones \cup Cpus, Suspender(t)
  PROVE  IndInv'
<1>1. mano[t] \in PIDs
  BY HilosDistintos DEF IndInv, ControlOK, ManosOK, Suspender, En
<1>2. /\ Append(blockedSusp, mano[t]) \in Seq(PIDs)
      /\ Len(Append(blockedSusp, mano[t])) = Len(blockedSusp) + 1
  BY <1>1, AppendProperties DEF IndInv, TypeOK, TiposListas
<1>3. TiposListas'
  BY <1>1, <1>2 DEF IndInv, TypeOK, TiposListas, Suspender, contadores
<1>4. TiposHilos'
  BY <1>1, <1>2, HilosDistintos, PasosTipo DEF IndInv, TypeOK, TiposHilos, Suspender, Ir,
     Tomar, En
<1>5. FichasDeListas'
  BY <1>1, <1>2, HilosDistintos DEF IndInv, TypeOK, TiposHilos, TiposListas,
     FichasDeListas, Uno, Suspender, Ir, En, contadores
<1>6. ManosOK' /\ LugaresOK' /\ VueltasOK' /\ PedidosOK'
  BY <1>1, <1>2, HilosDistintos DEF IndInv, ControlOK, TypeOK, TiposHilos, ManosOK,
     Suspender, Ir, Tomar, En, TiposProcesadores, LugaresOK, procesadores, VueltasOK,
     EnLiberacion, Despierta, PedidosOK, Operaciones
<1>7. TiposProcesadores' /\ TiposSemaforos' /\ TiposCarpinchos' /\ NadieDuermeConUnidades'
  BY DEF IndInv, TypeOK, TiposProcesadores, TiposSemaforos, TiposCarpinchos,
     NadieDuermeConUnidades, Suspender, contadores, procesadores, sems, carpinchos
<1>. QED
  BY <1>3, <1>4, <1>5, <1>6, <1>7 DEF IndInv, TypeOK, ControlOK

\* Memoria has answered; the slot is given back.
LEMMA AvisarSuspensionPreserva ==
  ASSUME IndInv, NEW t \in Atenciones \cup Cpus, AvisarSuspension(t)
  PROVE  IndInv'
<1>1. TiposListas'
  BY DEF IndInv, TypeOK, TiposListas, AvisarSuspension, listas
<1>2. TiposSemaforos'
  BY HilosDistintos DEF IndInv, TypeOK, TiposSemaforos, AvisarSuspension, TrasMediano
<1>3. TiposHilos'
  BY HilosDistintos, PasosTipo, PedidosTipo DEF IndInv, TypeOK, TiposHilos,
     AvisarSuspension, TrasMediano, Ir, Volver, En
<1>4. FichasDeListas'
  BY HilosDistintos DEF IndInv, TypeOK, TiposHilos, TiposListas, FichasDeListas, Uno,
     AvisarSuspension, TrasMediano, Ir, Volver, En, listas
<1>5. ManosOK' /\ LugaresOK' /\ VueltasOK' /\ PedidosOK'
  BY HilosDistintos DEF IndInv, ControlOK, TypeOK, TiposHilos, ManosOK, AvisarSuspension,
     TrasMediano, Ir, Volver, En, TiposProcesadores, LugaresOK, procesadores, VueltasOK,
     EnLiberacion, Despierta, PedidosOK, Operaciones
<1>6. TiposProcesadores' /\ TiposCarpinchos' /\ NadieDuermeConUnidades'
  BY DEF IndInv, TypeOK, TiposProcesadores, TiposCarpinchos, NadieDuermeConUnidades,
     AvisarSuspension, listas, procesadores, carpinchos
<1>. QED
  BY <1>1, <1>2, <1>3, <1>4, <1>5, <1>6 DEF IndInv, TypeOK, ControlOK

-----------------------------------------------------------------------------
\* The long-term and the short-term scheduler.

\* The long-term scheduler takes a token.
LEMMA EsperarLargoPlazoPreserva ==
  ASSUME IndInv, EsperarLargoPlazo
  PROVE  IndInv'
<1>1. TiposListas'
  BY DEF IndInv, TypeOK, TiposListas, EsperarLargoPlazo, listas
<1>2. TiposHilos'
  BY HilosDistintos, PasosTipo DEF IndInv, TypeOK, TiposHilos, EsperarLargoPlazo, Ir, En
<1>3. FichasDeListas'
  BY HilosDistintos DEF IndInv, TypeOK, TiposHilos, TiposListas, FichasDeListas, Uno,
     EsperarLargoPlazo, Ir, En, listas
<1>4. ManosOK' /\ LugaresOK' /\ VueltasOK' /\ PedidosOK'
  BY HilosDistintos DEF IndInv, ControlOK, TypeOK, TiposHilos, ManosOK, EsperarLargoPlazo,
     Ir, En, TiposProcesadores, LugaresOK, procesadores, VueltasOK, EnLiberacion,
     Despierta, PedidosOK, Operaciones
<1>5. TiposProcesadores' /\ TiposSemaforos' /\ TiposCarpinchos' /\ NadieDuermeConUnidades'
  BY DEF IndInv, TypeOK, TiposProcesadores, TiposSemaforos, TiposCarpinchos,
     NadieDuermeConUnidades, EsperarLargoPlazo, listas, procesadores, sems, carpinchos
<1>. QED
  BY <1>1, <1>2, <1>3, <1>4, <1>5 DEF IndInv, TypeOK, ControlOK

\* From READY-SUSPENDED to READY; the processor token is still owed.
LEMMA AdmitirSuspendidoPreserva ==
  ASSUME IndInv, AdmitirSuspendido
  PROVE  IndInv'
<1>1. /\ Head(readySusp) \in PIDs
      /\ Tail(readySusp) \in Seq(PIDs)
      /\ Len(Tail(readySusp)) = Len(readySusp) - 1
  BY HeadTailProperties DEF IndInv, TypeOK, TiposListas, AdmitirSuspendido
<1>2. /\ Append(ready, Head(readySusp)) \in Seq(PIDs)
      /\ Len(Append(ready, Head(readySusp))) = Len(ready) + 1
  BY <1>1, AppendProperties DEF IndInv, TypeOK, TiposListas
<1>3. TiposListas'
  BY <1>1, <1>2 DEF IndInv, TypeOK, TiposListas, AdmitirSuspendido
<1>4. TiposHilos'
  BY <1>1, <1>2, HilosDistintos, PasosTipo DEF IndInv, TypeOK, TiposHilos,
     AdmitirSuspendido, Ir, En
<1>5. FichasDeListas'
  BY <1>1, <1>2, HilosDistintos DEF IndInv, TypeOK, TiposHilos, TiposListas,
     FichasDeListas, Uno, AdmitirSuspendido, Ir, En
<1>6. ManosOK' /\ LugaresOK' /\ VueltasOK' /\ PedidosOK'
  BY <1>1, <1>2, HilosDistintos DEF IndInv, ControlOK, TypeOK, TiposHilos, ManosOK,
     AdmitirSuspendido, Ir, En, TiposProcesadores, LugaresOK, procesadores, VueltasOK,
     EnLiberacion, Despierta, PedidosOK, Operaciones
<1>7. TiposProcesadores' /\ TiposSemaforos' /\ TiposCarpinchos' /\ NadieDuermeConUnidades'
  BY DEF IndInv, TypeOK, TiposProcesadores, TiposSemaforos, TiposCarpinchos,
     NadieDuermeConUnidades, AdmitirSuspendido, procesadores, sems, carpinchos
<1>. QED
  BY <1>3, <1>4, <1>5, <1>6, <1>7 DEF IndInv, TypeOK, ControlOK

\* The owed token.
LEMMA AvisarDessuspensionPreserva ==
  ASSUME IndInv, AvisarDessuspension
  PROVE  IndInv'
<1>1. TiposListas'
  BY DEF IndInv, TypeOK, TiposListas, AvisarDessuspension, SenalCortoPlazo, listas
<1>2. TiposHilos'
  BY HilosDistintos, PasosTipo DEF IndInv, TypeOK, TiposHilos, AvisarDessuspension, Ir, En
<1>3. FichasDeListas'
  BY HilosDistintos DEF IndInv, TypeOK, TiposHilos, TiposListas, FichasDeListas, Uno,
     AvisarDessuspension, Ir, SenalCortoPlazo, En, listas
<1>4. ManosOK' /\ LugaresOK' /\ VueltasOK' /\ PedidosOK'
  BY HilosDistintos DEF IndInv, ControlOK, TypeOK, TiposHilos, ManosOK,
     AvisarDessuspension, Ir, En, TiposProcesadores, LugaresOK, procesadores, VueltasOK,
     EnLiberacion, Despierta, PedidosOK, Operaciones
<1>5. TiposProcesadores' /\ TiposSemaforos' /\ TiposCarpinchos' /\ NadieDuermeConUnidades'
  BY DEF IndInv, TypeOK, TiposProcesadores, TiposSemaforos, TiposCarpinchos,
     NadieDuermeConUnidades, AvisarDessuspension, listas, procesadores, sems, carpinchos
<1>. QED
  BY <1>1, <1>2, <1>3, <1>4, <1>5 DEF IndInv, TypeOK, ControlOK

\* From NEW to READY.  NEW is not empty because READY-SUSPENDED is and a token was taken.
LEMMA AdmitirNuevoPreserva ==
  ASSUME IndInv, AdmitirNuevo
  PROVE  IndInv'
<1>1. nuevo # <<>>
  BY EmptySeq DEF IndInv, TypeOK, TiposListas, FichasDeListas, Uno, AdmitirNuevo, En
<1>2. /\ Head(nuevo) \in PIDs
      /\ Tail(nuevo) \in Seq(PIDs)
      /\ Len(Tail(nuevo)) = Len(nuevo) - 1
  BY <1>1, HeadTailProperties DEF IndInv, TypeOK, TiposListas
<1>3. /\ Append(ready, Head(nuevo)) \in Seq(PIDs)
      /\ Len(Append(ready, Head(nuevo))) = Len(ready) + 1
  BY <1>2, AppendProperties DEF IndInv, TypeOK, TiposListas
<1>4. TiposListas'
  BY <1>1, <1>2, <1>3 DEF IndInv, TypeOK, TiposListas, AdmitirNuevo, SenalCortoPlazo
<1>5. TiposHilos'
  BY <1>1, <1>2, <1>3, HilosDistintos, PasosTipo DEF IndInv, TypeOK, TiposHilos,
     AdmitirNuevo, Ir, En
<1>6. FichasDeListas'
  BY <1>1, <1>2, <1>3, HilosDistintos DEF IndInv, TypeOK, TiposHilos, TiposListas,
     FichasDeListas, Uno, AdmitirNuevo, Ir, SenalCortoPlazo, En
<1>7. ManosOK' /\ LugaresOK' /\ VueltasOK' /\ PedidosOK'
  BY <1>1, <1>2, <1>3, HilosDistintos DEF IndInv, ControlOK, TypeOK, TiposHilos, ManosOK,
     AdmitirNuevo, Ir, En, TiposProcesadores, LugaresOK, procesadores, VueltasOK,
     EnLiberacion, Despierta, PedidosOK, Operaciones
<1>8. TiposProcesadores' /\ TiposSemaforos' /\ TiposCarpinchos' /\ NadieDuermeConUnidades'
  BY DEF IndInv, TypeOK, TiposProcesadores, TiposSemaforos, TiposCarpinchos,
     NadieDuermeConUnidades, AdmitirNuevo, procesadores, sems, carpinchos
<1>. QED
  BY <1>4, <1>5, <1>6, <1>7, <1>8 DEF IndInv, TypeOK, ControlOK

\* The short-term scheduler takes a token.
LEMMA EsperarReadyPreserva ==
  ASSUME IndInv, EsperarReady
  PROVE  IndInv'
<1>1. TiposListas'
  BY DEF IndInv, TypeOK, TiposListas, EsperarReady, listas
<1>2. TiposHilos'
  BY HilosDistintos, PasosTipo DEF IndInv, TypeOK, TiposHilos, EsperarReady, Ir, En
<1>3. FichasDeListas'
  BY HilosDistintos DEF IndInv, TypeOK, TiposHilos, TiposListas, FichasDeListas, Uno,
     EsperarReady, Ir, En, listas
<1>4. ManosOK' /\ LugaresOK' /\ VueltasOK' /\ PedidosOK'
  BY HilosDistintos DEF IndInv, ControlOK, TypeOK, TiposHilos, ManosOK, EsperarReady, Ir,
     En, TiposProcesadores, LugaresOK, procesadores, VueltasOK, EnLiberacion, Despierta,
     PedidosOK, Operaciones
<1>5. TiposProcesadores' /\ TiposSemaforos' /\ TiposCarpinchos' /\ NadieDuermeConUnidades'
  BY DEF IndInv, TypeOK, TiposProcesadores, TiposSemaforos, TiposCarpinchos,
     NadieDuermeConUnidades, EsperarReady, listas, procesadores, sems, carpinchos
<1>. QED
  BY <1>1, <1>2, <1>3, <1>4, <1>5 DEF IndInv, TypeOK, ControlOK

\* One less in READY, for the token that was taken.
LEMMA ElegirPreserva ==
  ASSUME IndInv, Elegir
  PROVE  IndInv'
<1>1. PICK i \in DOMAIN ready : ready' = RemoveAt(ready, i) /\ Tomar(CP, ready[i])
  BY DEF Elegir
<1>2. /\ RemoveAt(ready, i) \in Seq(PIDs)
      /\ Len(RemoveAt(ready, i)) = Len(ready) - 1
      /\ ready[i] \in PIDs
  BY RemoveAtTipo DEF IndInv, TypeOK, TiposListas
<1>3. TiposListas'
  BY <1>1, <1>2 DEF IndInv, TypeOK, TiposListas, Elegir
<1>4. TiposHilos'
  BY <1>1, <1>2, HilosDistintos, PasosTipo DEF IndInv, TypeOK, TiposHilos, Elegir, Ir,
     Tomar, En
<1>5. FichasDeListas'
  BY <1>1, <1>2, HilosDistintos DEF IndInv, TypeOK, TiposHilos, TiposListas,
     FichasDeListas, Uno, Elegir, Ir, En
<1>6. ManosOK' /\ LugaresOK' /\ VueltasOK' /\ PedidosOK'
  BY <1>1, <1>2, HilosDistintos DEF IndInv, ControlOK, TypeOK, TiposHilos, ManosOK, Elegir,
     Ir, Tomar, En, TiposProcesadores, LugaresOK, procesadores, VueltasOK, EnLiberacion,
     Despierta, PedidosOK, Operaciones
<1>7. TiposProcesadores' /\ TiposSemaforos' /\ TiposCarpinchos' /\ NadieDuermeConUnidades'
  BY DEF IndInv, TypeOK, TiposProcesadores, TiposSemaforos, TiposCarpinchos,
     NadieDuermeConUnidades, Elegir, procesadores, sems, carpinchos
<1>. QED
  BY <1>3, <1>4, <1>5, <1>6, <1>7 DEF IndInv, TypeOK, ControlOK

\* A processor gets the PCB the dispatcher holds.
LEMMA DespacharPreserva ==
  ASSUME IndInv, Despachar
  PROVE  IndInv'
<1>1. mano[CP] \in PIDs
  BY HilosDistintos DEF IndInv, ControlOK, ManosOK, Despachar, En
<1>2. PICK t \in Cpus : lugar' = [lugar EXCEPT ![t] = mano[CP]] /\ ocupado' = [ocupado EXCEPT ![t] = TRUE]
  BY DEF Despachar
<1>3. TiposProcesadores'
  BY <1>1, <1>2, HilosDistintos DEF IndInv, TypeOK, TiposProcesadores, Despachar
<1>4. TiposCarpinchos'
  BY <1>1, <1>2 DEF IndInv, TypeOK, TiposCarpinchos, Despachar, Permiso
<1>5. TiposHilos'
  BY <1>1, <1>2, HilosDistintos, PasosTipo DEF IndInv, TypeOK, TiposHilos, Despachar, Ir,
     Tomar, En
<1>6. FichasDeListas'
  BY <1>1, <1>2, HilosDistintos DEF IndInv, TypeOK, TiposHilos, TiposListas,
     FichasDeListas, Uno, Despachar, Ir, En, listas, contadores
<1>7. ManosOK' /\ LugaresOK' /\ VueltasOK' /\ PedidosOK'
  BY <1>1, <1>2, HilosDistintos DEF IndInv, ControlOK, TypeOK, TiposHilos, ManosOK,
     Despachar, Ir, Tomar, En, TiposProcesadores, LugaresOK, VueltasOK, EnLiberacion,
     Despierta, PedidosOK, Operaciones
<1>8. TiposListas' /\ TiposSemaforos' /\ NadieDuermeConUnidades'
  BY DEF IndInv, TypeOK, TiposListas, TiposSemaforos, NadieDuermeConUnidades, Despachar,
     listas, contadores, sems
<1>. QED
  BY <1>3, <1>4, <1>5, <1>6, <1>7, <1>8 DEF IndInv, TypeOK, ControlOK

-----------------------------------------------------------------------------
\* Requests without semaphores.

\* A processor takes a well-formed request.
LEMMA RecibirPreserva ==
  ASSUME IndInv, NEW t \in Cpus, Recibir(t)
  PROVE  IndInv'
<1>1. PICK r \in Peticiones(lugar[t]) : pedido' = [pedido EXCEPT ![t] = r] /\ Ir(t, r.op)
  BY DEF Recibir
<1>2. r \in Pedidos /\ r.op \in Operaciones /\ (r.op = "INICIALIZAR_SEM" => r.obj \in Semaforos)
  BY PeticionesTipo DEF IndInv, TypeOK, TiposSemaforos
<1>3. r.op \in Pasos \ {"recibir", "liberar", "unidad", "detectar", "suspender", "aReady", "aReadySusp", "despachar", "rafaga"}
  BY <1>2 DEF Pasos, Operaciones
<1>4. TiposCarpinchos'
  BY <1>1, <1>2, <1>3 DEF IndInv, TypeOK, TiposCarpinchos, Recibir
<1>5. TiposHilos'
  BY <1>1, <1>2, <1>3, HilosDistintos, PasosTipo, PedidosTipo DEF IndInv, TypeOK,
     TiposHilos, Recibir, Ir, En
<1>6. FichasDeListas'
  BY <1>1, <1>2, <1>3, HilosDistintos DEF IndInv, TypeOK, TiposHilos, TiposListas,
     FichasDeListas, Uno, Recibir, Ir, En, listas, contadores
<1>7. ManosOK' /\ LugaresOK' /\ VueltasOK' /\ PedidosOK'
  BY <1>1, <1>2, <1>3, HilosDistintos DEF IndInv, ControlOK, TypeOK, TiposHilos, ManosOK,
     Recibir, Ir, En, TiposProcesadores, LugaresOK, procesadores, VueltasOK, EnLiberacion,
     Despierta, PedidosOK, Operaciones
<1>8. TiposListas' /\ TiposProcesadores' /\ TiposSemaforos' /\ NadieDuermeConUnidades'
  BY DEF IndInv, TypeOK, TiposListas, TiposProcesadores, TiposSemaforos,
     NadieDuermeConUnidades, Recibir, listas, contadores, procesadores, sems
<1>. QED
  BY <1>4, <1>5, <1>6, <1>7, <1>8 DEF IndInv, TypeOK, ControlOK

\* The round trip to memoria changes only the client and the processor's step.
LEMMA MemoriaPreserva ==
  ASSUME IndInv, NEW t \in Cpus, Memoria(t)
  PROVE  IndInv'
<1>1. TiposCarpinchos'
  BY DEF IndInv, TypeOK, TiposCarpinchos, Memoria, Permiso
<1>2. TiposHilos'
  BY HilosDistintos, PasosTipo, PedidosTipo DEF IndInv, TypeOK, TiposHilos, Memoria,
     Volver, Ir, En
<1>3. FichasDeListas'
  BY HilosDistintos DEF IndInv, TypeOK, TiposHilos, TiposListas, FichasDeListas, Uno,
     Memoria, Volver, Ir, En, listas, contadores
<1>4. ManosOK' /\ LugaresOK' /\ VueltasOK' /\ PedidosOK'
  BY HilosDistintos DEF IndInv, ControlOK, TypeOK, TiposHilos, ManosOK, Memoria, Volver,
     Ir, En, TiposProcesadores, LugaresOK, procesadores, VueltasOK, EnLiberacion,
     Despierta, PedidosOK, Operaciones
<1>5. TiposListas' /\ TiposProcesadores' /\ TiposSemaforos' /\ NadieDuermeConUnidades'
  BY DEF IndInv, TypeOK, TiposListas, TiposProcesadores, TiposSemaforos,
     NadieDuermeConUnidades, Memoria, listas, contadores, procesadores, sems
<1>. QED
  BY <1>1, <1>2, <1>3, <1>4, <1>5 DEF IndInv, TypeOK, ControlOK

\* The carpincho of the processor joins the queue of a device.
LEMMA PedirIOPreserva ==
  ASSUME IndInv, NEW t \in Cpus, PedirIO(t)
  PROVE  IndInv'
<1>1. lugar[t] \in PIDs
  BY HilosDistintos DEF IndInv, ControlOK, LugaresOK, PedirIO, En
<1>2. \A u \in Ios : Append(colaEspera[u], lugar[t]) \in Seq(PIDs)
  BY <1>1, AppendProperties DEF IndInv, TypeOK, TiposProcesadores
<1>3. TiposProcesadores'
  BY <1>1, <1>2, HilosDistintos DEF IndInv, TypeOK, TiposProcesadores, PedirIO,
     procesadores
<1>4. TiposHilos'
  BY <1>1, <1>2, HilosDistintos, PasosTipo DEF IndInv, TypeOK, TiposHilos, PedirIO, Ir, En
<1>5. FichasDeListas'
  BY <1>1, <1>2, HilosDistintos DEF IndInv, TypeOK, TiposHilos, TiposListas,
     FichasDeListas, Uno, PedirIO, Ir, En, listas, contadores
<1>6. ManosOK' /\ LugaresOK' /\ VueltasOK' /\ PedidosOK'
  BY <1>1, <1>2, HilosDistintos DEF IndInv, ControlOK, TypeOK, TiposHilos, ManosOK,
     PedirIO, Ir, En, TiposProcesadores, LugaresOK, procesadores, VueltasOK, EnLiberacion,
     Despierta, PedidosOK, Operaciones
<1>7. TiposListas' /\ TiposSemaforos' /\ TiposCarpinchos' /\ NadieDuermeConUnidades'
  BY DEF IndInv, TypeOK, TiposListas, TiposSemaforos, TiposCarpinchos,
     NadieDuermeConUnidades, PedirIO, listas, contadores, procesadores, sems, carpinchos
<1>. QED
  BY <1>3, <1>4, <1>5, <1>6, <1>7 DEF IndInv, TypeOK, ControlOK

\* The device takes the head of its queue.
LEMMA EmpezarRafagaPreserva ==
  ASSUME IndInv, NEW t \in Ios, EmpezarRafaga(t)
  PROVE  IndInv'
<1>1. /\ Head(colaEspera[t]) \in PIDs
      /\ Tail(colaEspera[t]) \in Seq(PIDs)
  BY HeadTailProperties DEF IndInv, TypeOK, TiposProcesadores, EmpezarRafaga
<1>2. TiposProcesadores'
  BY <1>1, HilosDistintos DEF IndInv, TypeOK, TiposProcesadores, EmpezarRafaga,
     procesadores
<1>3. TiposHilos'
  BY <1>1, HilosDistintos, PasosTipo DEF IndInv, TypeOK, TiposHilos, EmpezarRafaga, Ir,
     Tomar, En
<1>4. FichasDeListas'
  BY <1>1, HilosDistintos DEF IndInv, TypeOK, TiposHilos, TiposListas, FichasDeListas, Uno,
     EmpezarRafaga, Ir, En, listas, contadores
<1>5. ManosOK' /\ LugaresOK' /\ VueltasOK' /\ PedidosOK'
  BY <1>1, HilosDistintos DEF IndInv, ControlOK, TypeOK, TiposHilos, ManosOK,
     EmpezarRafaga, Ir, Tomar, En, TiposProcesadores, LugaresOK, procesadores, VueltasOK,
     EnLiberacion, Despierta, PedidosOK, Operaciones
<1>6. TiposListas' /\ TiposSemaforos' /\ TiposCarpinchos' /\ NadieDuermeConUnidades'
  BY DEF IndInv, TypeOK, TiposListas, TiposSemaforos, TiposCarpinchos,
     NadieDuermeConUnidades, EmpezarRafaga, listas, contadores, procesadores, sems,
     carpinchos
<1>. QED
  BY <1>2, <1>3, <1>4, <1>5, <1>6 DEF IndInv, TypeOK, ControlOK

\* The device goes on to wake what it holds.
LEMMA TerminarRafagaPreserva ==
  ASSUME IndInv, NEW t \in Ios, TerminarRafaga(t)
  PROVE  IndInv'
<1>1. TiposHilos'
  BY PasoSegunListaTipo, HilosDistintos, PasosTipo DEF IndInv, TypeOK, TiposHilos,
     TerminarRafaga, Ir, En
<1>2. FichasDeListas'
  BY HilosDistintos DEF IndInv, TypeOK, TiposHilos, TiposListas, FichasDeListas, Uno,
     TerminarRafaga, Ir, En, listas, contadores
<1>3. ManosOK' /\ LugaresOK' /\ VueltasOK' /\ PedidosOK'
  BY PasoSegunListaTipo, HilosDistintos DEF IndInv, ControlOK, TypeOK, TiposHilos, ManosOK,
     TerminarRafaga, Ir, En, TiposProcesadores, LugaresOK, procesadores, VueltasOK,
     EnLiberacion, Despierta, PedidosOK, Operaciones
<1>4. TiposListas' /\ TiposProcesadores' /\ TiposSemaforos' /\ TiposCarpinchos' /\
   NadieDuermeConUnidades'
  BY DEF IndInv, TypeOK, TiposListas, TiposProcesadores, TiposSemaforos, TiposCarpinchos,
     NadieDuermeConUnidades, TerminarRafaga, listas, contadores, procesadores, sems,
     carpinchos
<1>. QED
  BY <1>1, <1>2, <1>3, <1>4 DEF IndInv, TypeOK, ControlOK

-----------------------------------------------------------------------------
\* The mate semaphores.

\* A new semaphore has an empty queue, whatever its value.
LEMMA InitSemPreserva ==
  ASSUME IndInv, NEW t \in Cpus, InitSem(t)
  PROVE  IndInv'
<1>1. pedido[t].obj \in Semaforos
  BY DEF IndInv, ControlOK, PedidosOK, InitSem, En
<1>2. TiposSemaforos'
  BY <1>1, ValoresAssumption, HilosDistintos DEF IndInv, TypeOK, TiposSemaforos, InitSem
<1>3. TiposCarpinchos'
  BY <1>1 DEF IndInv, TypeOK, TiposCarpinchos, InitSem, Permiso
<1>4. TiposHilos'
  BY <1>1, HilosDistintos, PasosTipo, PedidosTipo DEF IndInv, TypeOK, TiposHilos, InitSem,
     Volver, Ir, En
<1>5. FichasDeListas'
  BY <1>1, HilosDistintos DEF IndInv, TypeOK, TiposHilos, TiposListas, FichasDeListas, Uno,
     InitSem, Volver, Ir, En, listas, contadores
<1>6. NadieDuermeConUnidades'
  BY <1>1 DEF IndInv, TypeOK, TiposSemaforos, NadieDuermeConUnidades, InitSem
<1>7. ManosOK' /\ LugaresOK' /\ VueltasOK' /\ PedidosOK'
  BY <1>1, HilosDistintos DEF IndInv, ControlOK, TypeOK, TiposHilos, ManosOK, InitSem,
     Volver, Ir, En, TiposProcesadores, LugaresOK, procesadores, VueltasOK, EnLiberacion,
     Despierta, PedidosOK, Operaciones
<1>8. TiposListas' /\ TiposProcesadores'
  BY DEF IndInv, TypeOK, TiposListas, TiposProcesadores, InitSem, listas, contadores,
     procesadores
<1>. QED
  BY <1>2, <1>3, <1>4, <1>5, <1>6, <1>7, <1>8 DEF IndInv, TypeOK, ControlOK

\* One unit less of a semaphore that has some.
LEMMA WaitTomarPreserva ==
  ASSUME IndInv, NEW t \in Cpus, WaitTomar(t)
  PROVE  IndInv'
<1>1. /\ pedido[t].obj \in existe
      /\ pedido[t].obj \in Semaforos
  BY DEF IndInv, TypeOK, TiposSemaforos, WaitTomar
<1>2. lugar[t] \in PIDs
  BY HilosDistintos DEF IndInv, ControlOK, LugaresOK, WaitTomar, En
<1>3. valor[pedido[t].obj] \in Nat \ {0}
  BY <1>1 DEF IndInv, TypeOK, TiposSemaforos, WaitTomar, HayUnidad
<1>4. Registrar(usados[lugar[t]], pedido[t].obj) \in Seq(Recursos)
  BY <1>1, <1>2, RegistrarTipo DEF IndInv, TypeOK, TiposCarpinchos
<1>5. TiposSemaforos'
  BY <1>1, <1>3, HilosDistintos DEF IndInv, TypeOK, TiposSemaforos, WaitTomar
<1>6. TiposCarpinchos'
  BY <1>2, <1>4 DEF IndInv, TypeOK, TiposCarpinchos, WaitTomar, Permiso
<1>7. TiposHilos'
  BY HilosDistintos, PasosTipo, PedidosTipo DEF IndInv, TypeOK, TiposHilos, WaitTomar,
     Volver, Ir, En
<1>8. FichasDeListas'
  BY <1>1, <1>2, <1>3, <1>4, HilosDistintos DEF IndInv, TypeOK, TiposHilos, TiposListas,
     FichasDeListas, Uno, WaitTomar, Volver, Ir, En, listas, contadores
<1>9. NadieDuermeConUnidades'
  BY <1>1, <1>3 DEF IndInv, TypeOK, TiposSemaforos, NadieDuermeConUnidades, WaitTomar
<1>10. ManosOK' /\ LugaresOK' /\ VueltasOK' /\ PedidosOK'
  BY HilosDistintos DEF IndInv, ControlOK, TypeOK, TiposHilos, ManosOK, WaitTomar, Volver,
     Ir, En, TiposProcesadores, LugaresOK, procesadores, VueltasOK, EnLiberacion,
     Despierta, PedidosOK, Operaciones
<1>11. TiposListas' /\ TiposProcesadores'
  BY DEF IndInv, TypeOK, TiposListas, TiposProcesadores, WaitTomar, listas, contadores,
     procesadores
<1>. QED
  BY <1>5, <1>6, <1>7, <1>8, <1>9, <1>10, <1>11 DEF IndInv, TypeOK, ControlOK

\* The queue grows only when there are no units.
LEMMA WaitEncolarPreserva ==
  ASSUME IndInv, NEW t \in Cpus, WaitEncolar(t)
  PROVE  IndInv'
<1>1. /\ pedido[t].obj \in existe
      /\ pedido[t].obj \in Semaforos
  BY DEF IndInv, TypeOK, TiposSemaforos, WaitEncolar
<1>2. lugar[t] \in PIDs
  BY HilosDistintos DEF IndInv, ControlOK, LugaresOK, WaitEncolar, En
<1>3. Append(cola[pedido[t].obj], lugar[t]) \in Seq(PIDs)
  BY <1>1, <1>2, AppendProperties DEF IndInv, TypeOK, TiposSemaforos
<1>4. TiposSemaforos'
  BY <1>1, <1>2, <1>3, HilosDistintos DEF IndInv, TypeOK, TiposSemaforos, WaitEncolar
<1>5. TiposHilos'
  BY <1>1, <1>2, <1>3, HilosDistintos, PasosTipo DEF IndInv, TypeOK, TiposHilos,
     WaitEncolar, Ir, En
<1>6. FichasDeListas'
  BY <1>1, <1>2, <1>3, HilosDistintos DEF IndInv, TypeOK, TiposHilos, TiposListas,
     FichasDeListas, Uno, WaitEncolar, Ir, En, listas, contadores
<1>7. NadieDuermeConUnidades'
  BY <1>1, <1>2, <1>3 DEF IndInv, TypeOK, TiposSemaforos, NadieDuermeConUnidades,
     WaitEncolar, HayUnidad
<1>8. ManosOK' /\ LugaresOK' /\ VueltasOK' /\ PedidosOK'
  BY <1>1, <1>2, <1>3, HilosDistintos DEF IndInv, ControlOK, TypeOK, TiposHilos, ManosOK,
     WaitEncolar, Ir, En, TiposProcesadores, LugaresOK, procesadores, VueltasOK,
     EnLiberacion, Despierta, PedidosOK, Operaciones
<1>9. TiposListas' /\ TiposProcesadores' /\ TiposCarpinchos'
  BY DEF IndInv, TypeOK, TiposListas, TiposProcesadores, TiposCarpinchos, WaitEncolar,
     listas, contadores, procesadores, carpinchos
<1>. QED
  BY <1>4, <1>5, <1>6, <1>7, <1>8, <1>9 DEF IndInv, TypeOK, ControlOK

\* The carpincho of the processor enters BLOCKED.
LEMMA BloquearPreserva ==
  ASSUME IndInv, NEW t \in Cpus, Bloquear(t)
  PROVE  IndInv'
<1>1. lugar[t] \in PIDs
  BY HilosDistintos DEF IndInv, ControlOK, LugaresOK, Bloquear, En
<1>2. /\ Append(blocked, lugar[t]) \in Seq(PIDs)
      /\ Len(Append(blocked, lugar[t])) = Len(blocked) + 1
  BY <1>1, AppendProperties DEF IndInv, TypeOK, TiposListas
<1>3. TiposListas'
  BY <1>1, <1>2 DEF IndInv, TypeOK, TiposListas, Bloquear, contadores
<1>4. TiposHilos'
  BY <1>1, <1>2, HilosDistintos, PasosTipo DEF IndInv, TypeOK, TiposHilos, Bloquear, Ir, En
<1>5. FichasDeListas'
  BY <1>1, <1>2, HilosDistintos DEF IndInv, TypeOK, TiposHilos, TiposListas,
     FichasDeListas, Uno, Bloquear, Ir, En, contadores
<1>6. ManosOK' /\ LugaresOK' /\ VueltasOK' /\ PedidosOK'
  BY <1>1, <1>2, HilosDistintos DEF IndInv, ControlOK, TypeOK, TiposHilos, ManosOK,
     Bloquear, Ir, En, TiposProcesadores, LugaresOK, procesadores, VueltasOK, EnLiberacion,
     Despierta, PedidosOK, Operaciones
<1>7. TiposProcesadores' /\ TiposSemaforos' /\ TiposCarpinchos' /\ NadieDuermeConUnidades'
  BY DEF IndInv, TypeOK, TiposProcesadores, TiposSemaforos, TiposCarpinchos,
     NadieDuermeConUnidades, Bloquear, contadores, procesadores, sems, carpinchos
<1>. QED
  BY <1>3, <1>4, <1>5, <1>6, <1>7 DEF IndInv, TypeOK, ControlOK

\* The processor is free again.
LEMMA SoltarPreserva ==
  ASSUME IndInv, NEW t \in Cpus, Soltar(t)
  PROVE  IndInv'
<1>1. TiposListas'
  BY DEF IndInv, TypeOK, TiposListas, Soltar, DevolverProcesador, listas
<1>2. TiposProcesadores'
  BY HilosDistintos DEF IndInv, TypeOK, TiposProcesadores, Soltar
<1>3. TiposHilos'
  BY HilosDistintos, PasosTipo DEF IndInv, TypeOK, TiposHilos, Soltar, Ir, En
<1>4. FichasDeListas'
  BY HilosDistintos DEF IndInv, TypeOK, TiposHilos, TiposListas, FichasDeListas, Uno,
     Soltar, Ir, En, listas
<1>5. ManosOK' /\ LugaresOK' /\ VueltasOK' /\ PedidosOK'
  BY HilosDistintos DEF IndInv, ControlOK, TypeOK, TiposHilos, ManosOK, Soltar, Ir, En,
     TiposProcesadores, LugaresOK, VueltasOK, EnLiberacion, Despierta, PedidosOK,
     Operaciones
<1>6. TiposSemaforos' /\ TiposCarpinchos' /\ NadieDuermeConUnidades'
  BY DEF IndInv, TypeOK, TiposSemaforos, TiposCarpinchos, NadieDuermeConUnidades, Soltar,
     listas, sems, carpinchos
<1>. QED
  BY <1>1, <1>2, <1>3, <1>4, <1>5, <1>6 DEF IndInv, TypeOK, ControlOK

\* One unit more of a semaphore with units or without queue.
LEMMA PostSumarPreserva ==
  ASSUME IndInv, NEW t \in Cpus, PostSumar(t)
  PROVE  IndInv'
<1>1. /\ pedido[t].obj \in existe
      /\ pedido[t].obj \in Semaforos
  BY DEF IndInv, TypeOK, TiposSemaforos, PostSumar
<1>2. TiposSemaforos'
  BY <1>1, HilosDistintos DEF IndInv, TypeOK, TiposSemaforos, PostSumar
<1>3. TiposCarpinchos'
  BY <1>1 DEF IndInv, TypeOK, TiposCarpinchos, PostSumar, Permiso
<1>4. TiposHilos'
  BY <1>1, HilosDistintos, PasosTipo, PedidosTipo DEF IndInv, TypeOK, TiposHilos,
     PostSumar, Volver, Ir, En
<1>5. FichasDeListas'
  BY <1>1, HilosDistintos DEF IndInv, TypeOK, TiposHilos, TiposListas, FichasDeListas, Uno,
     PostSumar, Volver, Ir, En, listas, contadores
<1>6. NadieDuermeConUnidades'
  BY <1>1 DEF IndInv, TypeOK, TiposSemaforos, NadieDuermeConUnidades, PostSumar,
     DebeDespertar
<1>7. ManosOK' /\ LugaresOK' /\ VueltasOK' /\ PedidosOK'
  BY <1>1, HilosDistintos DEF IndInv, ControlOK, TypeOK, TiposHilos, ManosOK, PostSumar,
     Volver, Ir, En, TiposProcesadores, LugaresOK, procesadores, VueltasOK, EnLiberacion,
     Despierta, PedidosOK, Operaciones
<1>8. TiposListas' /\ TiposProcesadores'
  BY DEF IndInv, TypeOK, TiposListas, TiposProcesadores, PostSumar, listas, contadores,
     procesadores
<1>. QED
  BY <1>2, <1>3, <1>4, <1>5, <1>6, <1>7, <1>8 DEF IndInv, TypeOK, ControlOK

\* The unit goes to the head of the queue.
LEMMA PostDespertarPreserva ==
  ASSUME IndInv, NEW t \in Cpus, PostDespertar(t)
  PROVE  IndInv'
<1>1. /\ pedido[t].obj \in existe
      /\ pedido[t].obj \in Semaforos
  BY DEF IndInv, TypeOK, TiposSemaforos, PostDespertar
<1>2. /\ Head(cola[pedido[t].obj]) \in PIDs
      /\ Tail(cola[pedido[t].obj]) \in Seq(PIDs)
  BY <1>1, HeadTailProperties DEF IndInv, TypeOK, TiposSemaforos, PostDespertar,
     DebeDespertar
<1>3. TiposSemaforos'
  BY <1>1, <1>2, HilosDistintos DEF IndInv, TypeOK, TiposSemaforos, PostDespertar,
     SacarDeCola
<1>4. TiposHilos'
  BY <1>1, <1>2, PasoSegunListaTipo, HilosDistintos, PasosTipo DEF IndInv, TypeOK,
     TiposHilos, PostDespertar, SacarDeCola, Ir, Tomar, En
<1>5. FichasDeListas'
  BY <1>1, <1>2, PasoSegunListaTipo, HilosDistintos DEF IndInv, TypeOK, TiposHilos,
     TiposListas, FichasDeListas, Uno, PostDespertar, SacarDeCola, Ir, En, listas,
     contadores
<1>6. NadieDuermeConUnidades'
  BY <1>1 DEF IndInv, TypeOK, TiposSemaforos, NadieDuermeConUnidades, PostDespertar,
     SacarDeCola
<1>7. ManosOK' /\ LugaresOK' /\ VueltasOK' /\ PedidosOK'
  BY <1>1, <1>2, PasoSegunListaTipo, HilosDistintos DEF IndInv, ControlOK, TypeOK,
     TiposHilos, ManosOK, PostDespertar, SacarDeCola, Ir, Tomar, En, TiposProcesadores,
     LugaresOK, procesadores, PedidosOK, Operaciones, EnLiberacion, Despierta, VueltasOK
<1>8. TiposListas' /\ TiposProcesadores' /\ TiposCarpinchos'
  BY DEF IndInv, TypeOK, TiposListas, TiposProcesadores, TiposCarpinchos, PostDespertar,
     listas, contadores, procesadores, carpinchos
<1>. QED
  BY <1>3, <1>4, <1>5, <1>6, <1>7, <1>8 DEF IndInv, TypeOK, ControlOK

\* destroy_sem takes the head of the queue.
LEMMA VaciarPreserva ==
  ASSUME IndInv, NEW t \in Cpus, Vaciar(t)
  PROVE  IndInv'
<1>1. /\ pedido[t].obj \in existe
      /\ pedido[t].obj \in Semaforos
  BY DEF IndInv, TypeOK, TiposSemaforos, Vaciar
<1>2. /\ Head(cola[pedido[t].obj]) \in PIDs
      /\ Tail(cola[pedido[t].obj]) \in Seq(PIDs)
  BY <1>1, HeadTailProperties DEF IndInv, TypeOK, TiposSemaforos, Vaciar
<1>3. TiposSemaforos'
  BY <1>1, <1>2, HilosDistintos DEF IndInv, TypeOK, TiposSemaforos, Vaciar, SacarDeCola
<1>4. TiposHilos'
  BY <1>1, <1>2, PasoSegunListaTipo, HilosDistintos, PasosTipo DEF IndInv, TypeOK,
     TiposHilos, Vaciar, SacarDeCola, Ir, Tomar, En
<1>5. FichasDeListas'
  BY <1>1, <1>2, PasoSegunListaTipo, HilosDistintos DEF IndInv, TypeOK, TiposHilos,
     TiposListas, FichasDeListas, Uno, Vaciar, SacarDeCola, Ir, En, listas, contadores
<1>6. NadieDuermeConUnidades'
  BY <1>1 DEF IndInv, TypeOK, TiposSemaforos, NadieDuermeConUnidades, Vaciar, SacarDeCola
<1>7. ManosOK' /\ LugaresOK' /\ VueltasOK' /\ PedidosOK'
  BY <1>1, <1>2, PasoSegunListaTipo, HilosDistintos DEF IndInv, ControlOK, TypeOK,
     TiposHilos, ManosOK, Vaciar, SacarDeCola, Ir, Tomar, En, TiposProcesadores, LugaresOK,
     procesadores, PedidosOK, Operaciones, EnLiberacion, Despierta, VueltasOK
<1>8. TiposListas' /\ TiposProcesadores' /\ TiposCarpinchos'
  BY DEF IndInv, TypeOK, TiposListas, TiposProcesadores, TiposCarpinchos, Vaciar, listas,
     contadores, procesadores, carpinchos
<1>. QED
  BY <1>3, <1>4, <1>5, <1>6, <1>7, <1>8 DEF IndInv, TypeOK, ControlOK

\* The semaphore is forgotten with its queue empty.
LEMMA DestruirPreserva ==
  ASSUME IndInv, NEW t \in Cpus, Destruir(t)
  PROVE  IndInv'
<1>1. TiposSemaforos'
  BY HilosDistintos DEF IndInv, TypeOK, TiposSemaforos, Destruir
<1>2. TiposCarpinchos'
  BY DEF IndInv, TypeOK, TiposCarpinchos, Destruir, Permiso
<1>3. TiposHilos'
  BY HilosDistintos, PasosTipo, PedidosTipo DEF IndInv, TypeOK, TiposHilos, Destruir,
     Volver, Ir, En
<1>4. FichasDeListas'
  BY HilosDistintos DEF IndInv, TypeOK, TiposHilos, TiposListas, FichasDeListas, Uno,
     Destruir, Volver, Ir, En, listas, contadores
<1>5. NadieDuermeConUnidades'
  BY DEF IndInv, TypeOK, TiposSemaforos, NadieDuermeConUnidades, Destruir
<1>6. ManosOK' /\ LugaresOK' /\ VueltasOK' /\ PedidosOK'
  BY HilosDistintos DEF IndInv, ControlOK, TypeOK, TiposHilos, ManosOK, Destruir, Volver,
     Ir, En, TiposProcesadores, LugaresOK, procesadores, VueltasOK, EnLiberacion,
     Despierta, PedidosOK, Operaciones
<1>7. TiposListas' /\ TiposProcesadores'
  BY DEF IndInv, TypeOK, TiposListas, TiposProcesadores, Destruir, listas, contadores,
     procesadores
<1>. QED
  BY <1>1, <1>2, <1>3, <1>4, <1>5, <1>6, <1>7 DEF IndInv, TypeOK, ControlOK

\* The process dies; nothing else changes.
LEMMA SemaforoNuloPreserva ==
  ASSUME IndInv, NEW t \in Cpus, SemaforoNulo(t)
  PROVE  IndInv'
<1>1. TiposHilos'
  BY HilosDistintos DEF IndInv, TypeOK, TiposHilos, SemaforoNulo, Caer, En, hilos
<1>2. TiposListas' /\ TiposProcesadores' /\ TiposSemaforos' /\ TiposCarpinchos' /\ ManosOK'
   /\ LugaresOK' /\ VueltasOK' /\ PedidosOK' /\ FichasDeListas' /\ NadieDuermeConUnidades'
  BY DEF IndInv, TypeOK, ControlOK, TiposListas, TiposProcesadores, TiposSemaforos,
     TiposCarpinchos, ManosOK, LugaresOK, VueltasOK, PedidosOK, FichasDeListas,
     NadieDuermeConUnidades, Uno, EnLiberacion, Despierta, SemaforoNulo, Caer, listas,
     contadores, procesadores, sems, carpinchos, hilos
<1>. QED
  BY <1>1, <1>2 DEF IndInv, TypeOK, ControlOK

\* A waker moves its carpincho to READY, with a token.
LEMMA MoverAReadyPreserva ==
  ASSUME IndInv, NEW t \in Ejecutores \cup Ios, MoverAReady(t)
  PROVE  IndInv'
<1>1. mano[t] \in PIDs
  BY HilosDistintos DEF IndInv, ControlOK, ManosOK, MoverAReady, En
<1>2. /\ Append(ready, mano[t]) \in Seq(PIDs)
      /\ Len(Append(ready, mano[t])) = Len(ready) + 1
  BY <1>1, AppendProperties DEF IndInv, TypeOK, TiposListas
<1>3. Quitar(blocked, mano[t]) \in Seq(PIDs)
  BY QuitarTipo DEF IndInv, TypeOK, TiposListas
<1>4. /\ pc'[LP] = pc[LP]
      /\ pc'[CP] = pc[CP]
  BY HilosDistintos DEF IndInv, TypeOK, TiposHilos, MoverAReady, TrasMover, Ir, Volver
<1>5. TiposListas'
  BY <1>2, <1>3 DEF IndInv, TypeOK, TiposListas, MoverAReady, SenalCortoPlazo
<1>6. TiposSemaforos'
  BY HilosDistintos DEF IndInv, TypeOK, TiposSemaforos, MoverAReady, TrasMover
<1>7. TiposCarpinchos'
  BY DEF IndInv, TypeOK, TiposCarpinchos, MoverAReady, TrasMover, Permiso
<1>8. TiposHilos'
  BY <1>1, HilosDistintos, PasosTipo, PedidosTipo DEF IndInv, TypeOK, TiposHilos,
     MoverAReady, Tomar, TrasMover, Ir, Volver, En
<1>9. FichasDeListas'
  BY <1>2, <1>4 DEF IndInv, TypeOK, TiposListas, FichasDeListas, Uno, MoverAReady,
     SenalCortoPlazo
<1>10. ManosOK' /\ LugaresOK' /\ VueltasOK' /\ PedidosOK'
  BY HilosDistintos DEF IndInv, ControlOK, TypeOK, TiposHilos, ManosOK, MoverAReady, Tomar,
     TrasMover, Ir, Volver, En, TiposProcesadores, LugaresOK, procesadores, VueltasOK,
     EnLiberacion, Despierta, Vueltas, PedidosOK, Operaciones
<1>11. TiposProcesadores' /\ NadieDuermeConUnidades'
  BY DEF IndInv, TypeOK, TiposProcesadores, NadieDuermeConUnidades, MoverAReady,
     procesadores
<1>. QED
  BY <1>5, <1>6, <1>7, <1>8, <1>9, <1>10, <1>11 DEF IndInv, TypeOK, ControlOK

\* A waker moves its carpincho to READY-SUSPENDED, with a token.
LEMMA MoverAReadySuspPreserva ==
  ASSUME IndInv, NEW t \in Ejecutores \cup Ios, MoverAReadySusp(t)
  PROVE  IndInv'
<1>1. mano[t] \in PIDs
  BY HilosDistintos DEF IndInv, ControlOK, ManosOK, MoverAReadySusp, En
<1>2. /\ Append(readySusp, mano[t]) \in Seq(PIDs)
      /\ Len(Append(readySusp, mano[t])) = Len(readySusp) + 1
  BY <1>1, AppendProperties DEF IndInv, TypeOK, TiposListas
<1>3. Quitar(blockedSusp, mano[t]) \in Seq(PIDs)
  BY QuitarTipo DEF IndInv, TypeOK, TiposListas
<1>4. /\ pc'[LP] = pc[LP]
      /\ pc'[CP] = pc[CP]
  BY HilosDistintos DEF IndInv, TypeOK, TiposHilos, MoverAReadySusp, TrasMover, Ir, Volver
<1>5. TiposListas'
  BY <1>2, <1>3 DEF IndInv, TypeOK, TiposListas, MoverAReadySusp, SenalLargoPlazo
<1>6. TiposSemaforos'
  BY HilosDistintos DEF IndInv, TypeOK, TiposSemaforos, MoverAReadySusp, TrasMover
<1>7. TiposCarpinchos'
  BY DEF IndInv, TypeOK, TiposCarpinchos, MoverAReadySusp, TrasMover, Permiso
<1>8. TiposHilos'
  BY <1>1, HilosDistintos, PasosTipo, PedidosTipo DEF IndInv, TypeOK, TiposHilos,
     MoverAReadySusp, Tomar, TrasMover, Ir, Volver, En
<1>9. FichasDeListas'
  BY <1>2, <1>4 DEF IndInv, TypeOK, TiposListas, FichasDeListas, Uno, MoverAReadySusp,
     SenalLargoPlazo
<1>10. ManosOK' /\ LugaresOK' /\ VueltasOK' /\ PedidosOK'
  BY HilosDistintos DEF IndInv, ControlOK, TypeOK, TiposHilos, ManosOK, MoverAReadySusp,
     Tomar, TrasMover, Ir, Volver, En, TiposProcesadores, LugaresOK, procesadores,
     VueltasOK, EnLiberacion, Despierta, Vueltas, PedidosOK, Operaciones
<1>11. TiposProcesadores' /\ NadieDuermeConUnidades'
  BY DEF IndInv, TypeOK, TiposProcesadores, NadieDuermeConUnidades, MoverAReadySusp,
     procesadores
<1>. QED
  BY <1>5, <1>6, <1>7, <1>8, <1>9, <1>10, <1>11 DEF IndInv, TypeOK, ControlOK

-----------------------------------------------------------------------------
\* Closing and killing.

\* mate_close frees the processor and starts its release loop.
LEMMA CloseSoltarPreserva ==
  ASSUME IndInv, NEW t \in Cpus, CloseSoltar(t)
  PROVE  IndInv'
<1>1. TiposProcesadores'
  BY HilosDistintos DEF IndInv, TypeOK, TiposProcesadores, CloseSoltar
<1>2. TiposCarpinchos'
  BY DEF IndInv, TypeOK, TiposCarpinchos, CloseSoltar
<1>3. TiposHilos'
  BY VueltasTipo, HilosDistintos, PasosTipo DEF IndInv, TypeOK, TiposHilos, CloseSoltar,
     Ir, En
<1>4. FichasDeListas'
  BY HilosDistintos DEF IndInv, TypeOK, TiposHilos, TiposListas, FichasDeListas, Uno,
     CloseSoltar, Ir, En, listas, contadores
<1>5. ManosOK' /\ LugaresOK' /\ VueltasOK' /\ PedidosOK'
  BY HilosDistintos DEF IndInv, ControlOK, TypeOK, TiposHilos, ManosOK, CloseSoltar, Ir,
     En, TiposProcesadores, LugaresOK, VueltasOK, EnLiberacion, Despierta, Vueltas,
     PedidosOK, Operaciones
<1>6. TiposListas' /\ TiposSemaforos' /\ NadieDuermeConUnidades'
  BY DEF IndInv, TypeOK, TiposListas, TiposSemaforos, NadieDuermeConUnidades, CloseSoltar,
     listas, contadores, sems
<1>. QED
  BY <1>1, <1>2, <1>3, <1>4, <1>5, <1>6 DEF IndInv, TypeOK, ControlOK

\* The release loop takes the next record.
LEMMA LiberarPreserva ==
  ASSUME IndInv, NEW t \in Ejecutores, Liberar(t)
  PROVE  IndInv'
<1>1. lugar[t] \in PIDs
  BY HilosDistintos DEF IndInv, ControlOK, LugaresOK, Liberar, En
<1>2. vuelta[t].k \in 1 .. Len(usados[lugar[t]])
  BY DEF IndInv, ControlOK, TypeOK, TiposHilos, VueltasOK, EnLiberacion, Vueltas, Liberar,
     En, QuedanRecursos, Usados
<1>3. usados[lugar[t]] \in Seq(Recursos)
  BY <1>1 DEF IndInv, TypeOK, TiposCarpinchos
<1>4. Usados(t)[vuelta[t].k] \in Recursos
  BY <1>2, <1>3, ElementOfSeq DEF Usados
<1>5. vuelta[t].k + 1 \in Nat \ {0}
  BY DEF IndInv, TypeOK, TiposHilos, Vueltas
<1>6. TiposSemaforos'
  BY HilosDistintos DEF IndInv, TypeOK, TiposSemaforos, Liberar
<1>7. TiposHilos'
  BY <1>4, <1>5, VueltasTipo, HilosDistintos, PasosTipo DEF IndInv, TypeOK, TiposHilos,
     Liberar, Ir, En, ProximoRecurso
<1>8. FichasDeListas'
  BY HilosDistintos DEF IndInv, TypeOK, TiposHilos, TiposListas, FichasDeListas, Uno,
     Liberar, Ir, En, listas, contadores
<1>9. ManosOK' /\ LugaresOK' /\ VueltasOK' /\ PedidosOK'
  BY HilosDistintos, <1>4, <1>5 DEF IndInv, ControlOK, TypeOK, TiposHilos, ManosOK,
     Liberar, Ir, En, TiposProcesadores, LugaresOK, procesadores, VueltasOK, EnLiberacion,
     Despierta, ProximoRecurso, Recursos, TiposSemaforos, PedidosOK, Operaciones
<1>10. TiposListas' /\ TiposProcesadores' /\ TiposCarpinchos' /\ NadieDuermeConUnidades'
  BY DEF IndInv, TypeOK, TiposListas, TiposProcesadores, TiposCarpinchos,
     NadieDuermeConUnidades, Liberar, listas, contadores, procesadores, carpinchos
<1>. QED
  BY <1>6, <1>7, <1>8, <1>9, <1>10 DEF IndInv, TypeOK, ControlOK

\* The process dies; nothing else changes.
LEMMA LiberarNuloPreserva ==
  ASSUME IndInv, NEW t \in Ejecutores, LiberarNulo(t)
  PROVE  IndInv'
<1>1. TiposHilos'
  BY HilosDistintos DEF IndInv, TypeOK, TiposHilos, LiberarNulo, Caer, En, hilos
<1>2. TiposListas' /\ TiposProcesadores' /\ TiposSemaforos' /\ TiposCarpinchos' /\ ManosOK'
   /\ LugaresOK' /\ VueltasOK' /\ PedidosOK' /\ FichasDeListas' /\ NadieDuermeConUnidades'
  BY DEF IndInv, TypeOK, ControlOK, TiposListas, TiposProcesadores, TiposSemaforos,
     TiposCarpinchos, ManosOK, LugaresOK, VueltasOK, PedidosOK, FichasDeListas,
     NadieDuermeConUnidades, Uno, EnLiberacion, Despierta, LiberarNulo, Caer, listas,
     contadores, procesadores, sems, carpinchos, hilos
<1>. QED
  BY <1>1, <1>2 DEF IndInv, TypeOK, ControlOK

\* The release loop adds a unit.
LEMMA UnidadSumarPreserva ==
  ASSUME IndInv, NEW t \in Ejecutores, UnidadSumar(t)
  PROVE  IndInv'
<1>1. /\ vuelta[t] \in Vueltas
      /\ vuelta[t].faltan > 0
      /\ vuelta[t].sem \in Semaforos
  BY DEF IndInv, ControlOK, TypeOK, TiposHilos, VueltasOK, UnidadSumar, En
<1>2. TiposSemaforos'
  BY <1>1, HilosDistintos DEF IndInv, TypeOK, TiposSemaforos, UnidadSumar
<1>3. TiposHilos'
  BY <1>1, VueltasTipo, HilosDistintos, PasosTipo DEF IndInv, TypeOK, TiposHilos,
     UnidadSumar, Ir, En
<1>4. FichasDeListas'
  BY <1>1, HilosDistintos DEF IndInv, TypeOK, TiposHilos, TiposListas, FichasDeListas, Uno,
     UnidadSumar, Ir, En, listas, contadores
<1>5. NadieDuermeConUnidades'
  BY <1>1 DEF IndInv, TypeOK, TiposSemaforos, NadieDuermeConUnidades, UnidadSumar,
     DebeDespertar, TiposHilos
<1>6. ManosOK' /\ LugaresOK' /\ VueltasOK' /\ PedidosOK'
  BY <1>1, HilosDistintos DEF IndInv, ControlOK, TypeOK, TiposHilos, ManosOK, UnidadSumar,
     Ir, En, TiposProcesadores, LugaresOK, procesadores, VueltasOK, EnLiberacion,
     Despierta, Vueltas, PedidosOK, Operaciones
<1>7. TiposListas' /\ TiposProcesadores' /\ TiposCarpinchos'
  BY DEF IndInv, TypeOK, TiposListas, TiposProcesadores, TiposCarpinchos, UnidadSumar,
     listas, contadores, procesadores, carpinchos
<1>. QED
  BY <1>2, <1>3, <1>4, <1>5, <1>6, <1>7 DEF IndInv, TypeOK, ControlOK

\* The release loop hands a unit to the head of the queue.
LEMMA UnidadDespertarPreserva ==
  ASSUME IndInv, NEW t \in Ejecutores, UnidadDespertar(t)
  PROVE  IndInv'
<1>1. /\ vuelta[t] \in Vueltas
      /\ vuelta[t].faltan > 0
      /\ vuelta[t].sem \in Semaforos
  BY DEF IndInv, ControlOK, TypeOK, TiposHilos, VueltasOK, UnidadDespertar, En
<1>2. vuelta[t].sem \in existe
  BY <1>1 DEF IndInv, NadieDuermeConUnidades, UnidadDespertar, DebeDespertar
<1>3. /\ Head(cola[vuelta[t].sem]) \in PIDs
      /\ Tail(cola[vuelta[t].sem]) \in Seq(PIDs)
  BY <1>1, HeadTailProperties DEF IndInv, TypeOK, TiposSemaforos, UnidadDespertar,
     DebeDespertar
<1>4. /\ vuelta'[t].k > 0
      /\ vuelta'[t].sem \in Semaforos
      /\ pc'[t] # "unidad"
  BY <1>1, PasoSegunListaTipo, HilosDistintos DEF IndInv, ControlOK, TypeOK, TiposHilos,
     Vueltas, VueltasOK, EnLiberacion, UnidadDespertar, SacarDeCola, Ir, En
<1>5. TiposSemaforos'
  BY <1>1, <1>2, <1>3, <1>4, HilosDistintos DEF IndInv, TypeOK, TiposSemaforos,
     UnidadDespertar, SacarDeCola
<1>6. TiposHilos'
  BY <1>1, <1>2, <1>3, <1>4, VueltasTipo, PasoSegunListaTipo, HilosDistintos, PasosTipo DEF
     IndInv, TypeOK, TiposHilos, UnidadDespertar, SacarDeCola, Ir, Tomar, En
<1>7. FichasDeListas'
  BY <1>1, <1>2, <1>3, <1>4, PasoSegunListaTipo, HilosDistintos DEF IndInv, TypeOK,
     TiposHilos, TiposListas, FichasDeListas, Uno, UnidadDespertar, SacarDeCola, Ir, En,
     listas, contadores
<1>8. NadieDuermeConUnidades'
  BY <1>1, <1>2, <1>3, <1>4 DEF IndInv, TypeOK, TiposSemaforos, NadieDuermeConUnidades,
     UnidadDespertar, SacarDeCola, DebeDespertar
<1>9. ManosOK' /\ LugaresOK' /\ VueltasOK' /\ PedidosOK'
  BY <1>1, <1>2, <1>3, <1>4, PasoSegunListaTipo, HilosDistintos DEF IndInv, ControlOK,
     TypeOK, TiposHilos, ManosOK, UnidadDespertar, SacarDeCola, Ir, Tomar, En,
     TiposProcesadores, LugaresOK, procesadores, VueltasOK, EnLiberacion, Despierta,
     Vueltas, PedidosOK, Operaciones
<1>10. TiposListas' /\ TiposProcesadores' /\ TiposCarpinchos'
  BY DEF IndInv, TypeOK, TiposListas, TiposProcesadores, TiposCarpinchos, UnidadDespertar,
     listas, contadores, procesadores, carpinchos
<1>. QED
  BY <1>5, <1>6, <1>7, <1>8, <1>9, <1>10 DEF IndInv, TypeOK, ControlOK

\* The PCB leaves every queue, which empties none that has to be non-empty.
LEMMA FinClosePreserva ==
  ASSUME IndInv, NEW t \in Cpus, FinClose(t)
  PROVE  IndInv'
<1>1. lugar[t] \in PIDs
  BY HilosDistintos DEF IndInv, ControlOK, LugaresOK, FinClose, En, Borrar
<1>2. \A s \in Semaforos : Quitar(cola[s], lugar[t]) \in Seq(PIDs) /\ (cola[s] = <<>> => Quitar(cola[s], lugar[t]) = <<>>)
  BY QuitarTipo DEF IndInv, TypeOK, TiposSemaforos
<1>3. <<>> \in Seq(Recursos)
  BY EmptySeq
<1>4. TiposListas'
  BY DEF IndInv, TypeOK, TiposListas, FinClose, DevolverProcesador, Borrar, listas
<1>5. TiposSemaforos'
  BY <1>2, HilosDistintos DEF IndInv, TypeOK, TiposSemaforos, FinClose, Borrar
<1>6. TiposCarpinchos'
  BY <1>1, <1>3 DEF IndInv, TypeOK, TiposCarpinchos, FinClose, Borrar
<1>7. TiposHilos'
  BY VueltasTipo, HilosDistintos, PasosTipo, PedidosTipo DEF IndInv, TypeOK, TiposHilos,
     FinClose, Volver, Borrar, Ir, En
<1>8. FichasDeListas'
  BY HilosDistintos DEF IndInv, TypeOK, TiposHilos, TiposListas, FichasDeListas, Uno,
     FinClose, Volver, Ir, En, listas
<1>9. NadieDuermeConUnidades'
  BY <1>2 DEF IndInv, TypeOK, TiposSemaforos, NadieDuermeConUnidades, FinClose, Borrar
<1>10. ManosOK' /\ LugaresOK' /\ VueltasOK' /\ PedidosOK'
  BY HilosDistintos DEF IndInv, ControlOK, TypeOK, TiposHilos, ManosOK, FinClose, Volver,
     Ir, En, TiposProcesadores, LugaresOK, procesadores, VueltasOK, EnLiberacion,
     Despierta, Borrar, Vueltas, SinVuelta, PedidosOK, Operaciones
<1>11. TiposProcesadores'
  BY DEF IndInv, TypeOK, TiposProcesadores, FinClose, listas, procesadores
<1>. QED
  BY <1>4, <1>5, <1>6, <1>7, <1>8, <1>9, <1>10, <1>11 DEF IndInv, TypeOK, ControlOK

\* The detector picks a victim among the blocked.
LEMMA DetectarPreserva ==
  ASSUME IndInv, Detectar
  PROVE  IndInv'
<1>1. MayorPID(EnDeadlock(cola, usados)) \in PIDs
  BY MayorPIDTipo DEF IndInv, TypeOK, Detectar
<1>2. TiposProcesadores'
  BY <1>1, HilosDistintos DEF IndInv, TypeOK, TiposProcesadores, Detectar
<1>3. TiposSemaforos'
  BY <1>1, HilosDistintos DEF IndInv, TypeOK, TiposSemaforos, Detectar
<1>4. TiposHilos'
  BY <1>1, HilosDistintos, PasosTipo DEF IndInv, TypeOK, TiposHilos, Detectar, Ir, En
<1>5. FichasDeListas'
  BY <1>1, HilosDistintos DEF IndInv, TypeOK, TiposHilos, TiposListas, FichasDeListas, Uno,
     Detectar, Ir, En, listas, contadores
<1>6. ManosOK' /\ LugaresOK' /\ VueltasOK' /\ PedidosOK'
  BY <1>1, HilosDistintos DEF IndInv, ControlOK, TypeOK, TiposHilos, ManosOK, Detectar, Ir,
     En, TiposProcesadores, LugaresOK, VueltasOK, EnLiberacion, Despierta, PedidosOK,
     Operaciones
<1>7. TiposListas' /\ TiposCarpinchos' /\ NadieDuermeConUnidades'
  BY DEF IndInv, TypeOK, TiposListas, TiposCarpinchos, NadieDuermeConUnidades, Detectar,
     listas, contadores, carpinchos
<1>. QED
  BY <1>2, <1>3, <1>4, <1>5, <1>6, <1>7 DEF IndInv, TypeOK, ControlOK

\* The process dies; nothing else changes.
LEMMA DetectarNuloPreserva ==
  ASSUME IndInv, DetectarNulo
  PROVE  IndInv'
<1>1. TiposHilos'
  BY HilosDistintos DEF IndInv, TypeOK, TiposHilos, DetectarNulo, Caer, En, hilos
<1>2. TiposListas' /\ TiposProcesadores' /\ TiposSemaforos' /\ TiposCarpinchos' /\ ManosOK'
   /\ LugaresOK' /\ VueltasOK' /\ PedidosOK' /\ FichasDeListas' /\ NadieDuermeConUnidades'
  BY DEF IndInv, TypeOK, ControlOK, TiposListas, TiposProcesadores, TiposSemaforos,
     TiposCarpinchos, ManosOK, LugaresOK, VueltasOK, PedidosOK, FichasDeListas,
     NadieDuermeConUnidades, Uno, EnLiberacion, Despierta, DetectarNulo, Caer, listas,
     contadores, procesadores, sems, carpinchos, hilos
<1>. QED
  BY <1>1, <1>2 DEF IndInv, TypeOK, ControlOK

\* The victim leaves its list, which no token counts.
LEMMA QuitarVictimaPreserva ==
  ASSUME IndInv, QuitarVictima
  PROVE  IndInv'
<1>1. /\ Quitar(blocked, lugar[DL]) \in Seq(PIDs)
      /\ Quitar(blockedSusp, lugar[DL]) \in Seq(PIDs)
  BY QuitarTipo DEF IndInv, TypeOK, TiposListas
<1>2. TiposListas'
  BY <1>1 DEF IndInv, TypeOK, TiposListas, QuitarVictima, contadores
<1>3. TiposHilos'
  BY VueltasTipo, HilosDistintos, PasosTipo DEF IndInv, TypeOK, TiposHilos, QuitarVictima,
     Ir, En
<1>4. FichasDeListas'
  BY HilosDistintos DEF IndInv, TypeOK, TiposHilos, TiposListas, FichasDeListas, Uno,
     QuitarVictima, Ir, En, contadores
<1>5. ManosOK' /\ LugaresOK' /\ VueltasOK' /\ PedidosOK'
  BY HilosDistintos DEF IndInv, ControlOK, TypeOK, TiposHilos, ManosOK, QuitarVictima, Ir,
     En, TiposProcesadores, LugaresOK, procesadores, VueltasOK, EnLiberacion, Despierta,
     Vueltas, PedidosOK, Operaciones
<1>6. TiposProcesadores' /\ TiposSemaforos' /\ TiposCarpinchos' /\ NadieDuermeConUnidades'
  BY DEF IndInv, TypeOK, TiposProcesadores, TiposSemaforos, TiposCarpinchos,
     NadieDuermeConUnidades, QuitarVictima, contadores, procesadores, sems, carpinchos
<1>. QED
  BY <1>2, <1>3, <1>4, <1>5, <1>6 DEF IndInv, TypeOK, ControlOK

\* The end of a kill, like that of a close.
LEMMA FinKillPreserva ==
  ASSUME IndInv, FinKill
  PROVE  IndInv'
<1>1. lugar[DL] \in PIDs
  BY DEF IndInv, ControlOK, LugaresOK, FinKill, Borrar, En
<1>2. \A s \in Semaforos : Quitar(cola[s], lugar[DL]) \in Seq(PIDs) /\ (cola[s] = <<>> => Quitar(cola[s], lugar[DL]) = <<>>)
  BY QuitarTipo DEF IndInv, TypeOK, TiposSemaforos
<1>3. <<>> \in Seq(Recursos)
  BY EmptySeq
<1>4. TiposListas'
  BY DEF IndInv, TypeOK, TiposListas, FinKill, Borrar, listas
<1>5. TiposProcesadores'
  BY HilosDistintos DEF IndInv, TypeOK, TiposProcesadores, FinKill
<1>6. TiposSemaforos'
  BY <1>2, HilosDistintos DEF IndInv, TypeOK, TiposSemaforos, FinKill, Borrar
<1>7. TiposCarpinchos'
  BY <1>1, <1>3 DEF IndInv, TypeOK, TiposCarpinchos, FinKill, Borrar
<1>8. TiposHilos'
  BY VueltasTipo, HilosDistintos, PasosTipo DEF IndInv, TypeOK, TiposHilos, FinKill, Ir,
     Borrar, En
<1>9. FichasDeListas'
  BY HilosDistintos DEF IndInv, TypeOK, TiposHilos, TiposListas, FichasDeListas, Uno,
     FinKill, Ir, En, listas
<1>10. NadieDuermeConUnidades'
  BY <1>2 DEF IndInv, TypeOK, TiposSemaforos, NadieDuermeConUnidades, FinKill, Borrar
<1>11. ManosOK' /\ LugaresOK' /\ VueltasOK' /\ PedidosOK'
  BY HilosDistintos DEF IndInv, ControlOK, TypeOK, TiposHilos, ManosOK, FinKill, Ir, En,
     TiposProcesadores, LugaresOK, VueltasOK, EnLiberacion, Despierta, Borrar, Vueltas,
     SinVuelta, PedidosOK, Operaciones
<1>. QED
  BY <1>4, <1>5, <1>6, <1>7, <1>8, <1>9, <1>10, <1>11 DEF IndInv, TypeOK, ControlOK

-----------------------------------------------------------------------------
\* The theorems.

\* The initial states satisfy the inductive invariant.
LEMMA IndInvInicial ==
  ASSUME Init
  PROVE  IndInv
<1>1. TiposListas /\ TiposSemaforos
  BY CantidadesAssumption, EmptySeq DEF Init, TiposListas, TiposSemaforos
<1>2. TiposProcesadores /\ TiposCarpinchos
  BY EmptySeq DEF Init, TiposProcesadores, TiposCarpinchos
<1>3. TiposHilos
  <2>1. pc \in [Hilos -> Pasos]
    BY HilosDistintos, PasosTipo DEF Init, Hilos
  <2>. QED
    BY <2>1, PedidosTipo, VueltasTipo DEF Init, TiposHilos
<1>4. ControlOK
  <2>1. /\ \A t \in Cpus : pc[t] = "recibir" /\ ~ocupado[t]
        /\ \A t \in Hilos : pc[t] \in {"fuera", "recibir", "esperar", "largo", "ready", "detectar"}
        /\ pc[DL] = "detectar"
    BY HilosDistintos DEF Init, Hilos
  <2>2. \A t \in Ejecutores : vuelta[t].faltan = 0
    BY DEF Init, SinVuelta
  <2>. QED
    BY <2>1, <2>2, HilosDistintos
       DEF ControlOK, ManosOK, LugaresOK, VueltasOK, EnLiberacion, Despierta, PedidosOK, Operaciones
<1>5. FichasDeListas
  <2>1. /\ Uno(pc[LP] = "grado") = 0 /\ Uno(pc[LP] = "dessuspender") = 0
        /\ Uno(pc[CP] = "procesador") = 0
    BY HilosDistintos DEF Init, Hilos, Uno
  <2>2. /\ Len(nuevo) = 0 /\ Len(readySusp) = 0 /\ Len(ready) = 0
        /\ semLargo = 0 /\ semReady = 0
    BY EmptySeq DEF Init
  <2>. QED
    BY <2>1, <2>2 DEF FichasDeListas
<1>6. NadieDuermeConUnidades
  BY DEF Init, NadieDuermeConUnidades
<1>. QED
  BY <1>1, <1>2, <1>3, <1>4, <1>5, <1>6 DEF IndInv, TypeOK

\* Every step preserves it.
LEMMA IndInvPreserva ==
  ASSUME IndInv, [Next]_vars
  PROVE  IndInv'
<1>1. CASE UNCHANGED vars
  BY <1>1
     DEF vars, listas, contadores, procesadores, sems, carpinchos, hilos, IndInv, TypeOK,
         TiposListas, TiposProcesadores, TiposSemaforos, TiposCarpinchos, TiposHilos, ControlOK,
         ManosOK, LugaresOK, VueltasOK, EnLiberacion, Despierta, PedidosOK, FichasDeListas, Uno,
         NadieDuermeConUnidades
<1>2. ASSUME NEW p \in PIDs, Conectar(p) \/ HiloAtencion(p)  PROVE IndInv'
  <2>1. Atencion(p) \in Atenciones \cup Cpus
    BY HilosDistintos
  <2>. QED
    BY <1>2, <2>1, ConectarPreserva, PasarANewPreserva, MedianoPreserva, SuspenderPreserva,
       AvisarSuspensionPreserva DEF HiloAtencion
<1>3. CASE HiloLargoPlazo
  BY <1>3, EsperarLargoPlazoPreserva, AdmitirSuspendidoPreserva, AvisarDessuspensionPreserva,
     AdmitirNuevoPreserva DEF HiloLargoPlazo
<1>4. CASE HiloCortoPlazo
  BY <1>4, EsperarReadyPreserva, ElegirPreserva, DespacharPreserva DEF HiloCortoPlazo
<1>5. ASSUME NEW t \in Cpus, Recibir(t) \/ HiloCpu(t)  PROVE IndInv'
  <2>1. t \in Ejecutores /\ t \in Ejecutores \cup Ios /\ t \in Atenciones \cup Cpus
    BY HilosDistintos
  <2>2. CASE \/ Recibir(t) \/ Memoria(t) \/ PedirIO(t)
             \/ Bloquear(t) \/ Soltar(t)
             \/ Mediano(t) \/ Suspender(t) \/ AvisarSuspension(t)
    BY <2>1, <2>2, RecibirPreserva, MemoriaPreserva, PedirIOPreserva, BloquearPreserva,
       SoltarPreserva, MedianoPreserva, SuspenderPreserva, AvisarSuspensionPreserva
  <2>3. CASE \/ InitSem(t) \/ WaitTomar(t) \/ WaitEncolar(t)
             \/ PostSumar(t) \/ PostDespertar(t)
             \/ Vaciar(t) \/ Destruir(t) \/ SemaforoNulo(t)
    BY <2>3, InitSemPreserva, WaitTomarPreserva, WaitEncolarPreserva, PostSumarPreserva,
       PostDespertarPreserva, VaciarPreserva, DestruirPreserva, SemaforoNuloPreserva
  <2>4. CASE \/ CloseSoltar(t) \/ FinClose(t)
             \/ Liberar(t) \/ LiberarNulo(t) \/ UnidadSumar(t) \/ UnidadDespertar(t)
             \/ MoverAReady(t) \/ MoverAReadySusp(t)
    BY <2>1, <2>4, CloseSoltarPreserva, FinClosePreserva, LiberarPreserva, LiberarNuloPreserva,
       UnidadSumarPreserva, UnidadDespertarPreserva, MoverAReadyPreserva, MoverAReadySuspPreserva
  <2>. QED
    BY <1>5, <2>2, <2>3, <2>4 DEF HiloCpu
<1>6. ASSUME NEW t \in Ios, HiloIO(t)  PROVE IndInv'
  BY <1>6, EmpezarRafagaPreserva, TerminarRafagaPreserva, MoverAReadyPreserva,
     MoverAReadySuspPreserva DEF HiloIO
<1>7. CASE HiloDeadlock
  <2>1. DL \in Ejecutores /\ DL \in Ejecutores \cup Ios
    BY HilosDistintos
  <2>. QED
    BY <1>7, <2>1, DetectarPreserva, DetectarNuloPreserva, QuitarVictimaPreserva,
       LiberarPreserva, LiberarNuloPreserva, UnidadSumarPreserva, UnidadDespertarPreserva,
       MoverAReadyPreserva, MoverAReadySuspPreserva, FinKillPreserva DEF HiloDeadlock
<1>. QED
  BY <1>1, <1>2, <1>3, <1>4, <1>5, <1>6, <1>7 DEF Next

\* The inductive invariant holds in every reachable state.
THEOREM Invariante == Spec => []IndInv
<1>1. Init => IndInv
  BY IndInvInicial
<1>2. IndInv /\ [Next]_vars => IndInv'
  BY IndInvPreserva
<1>. QED
  BY <1>1, <1>2, PTL DEF Spec

\* Types: no counter is taken below zero, no executor works without a PCB and
\* no index of recursos_usados leaves the list.
THEOREM TiposCorrectos == Spec => []TypeOK
<1>1. IndInv => TypeOK
  BY DEF IndInv
<1>. QED
  BY <1>1, Invariante, PTL

\* sem_algoritmo_planificador_largo_plazo and sem_cola_ready match the lists
\* they stand for, however connections, processors, devices, kills and the
\* schedulers interleave.
THEOREM FichasCorrectas == Spec => []FichasDeListas
<1>1. IndInv => FichasDeListas
  BY DEF IndInv
<1>. QED
  BY <1>1, Invariante, PTL

\* No wake-up is lost: post_sem, destroy_sem, mate_close and the detector
\* never leave somebody asleep on a semaphore with units.
THEOREM NadieDuerme == Spec => []NadieDuermeConUnidades
<1>1. IndInv => NadieDuermeConUnidades
  BY DEF IndInv
<1>. QED
  BY <1>1, Invariante, PTL

-----------------------------------------------------------------------------
\* The detector's criterion is complete, whatever the queues and the records: when
\* the kernel looks at a circle it finds somebody to kill.

\* Every member of a circular wait is in lista_procesos_en_deadlock: it is
\* blocked, somebody waits for what it uses, and what it waits for is used by
\* somebody who is blocked too (algoritmo_deteccion_deadlock, its double loop).
THEOREM CirculoDetectado ==
  ASSUME NEW colas, NEW registros, NEW C, EsperaCircular(colas, registros, C)
  PROVE  C # {} /\ C \subseteq EnDeadlock(colas, registros)
<1>1. ASSUME NEW p \in C  PROVE p \in Bloqueados(colas)
  BY DEF EsperaCircular, EsperaA, Bloqueados
<1>2. ASSUME NEW p \in C  PROVE RetieneAlgoPedido(colas, registros, p)
  <2>1. PICK q \in C \ {p} : EsperaA(colas, registros, q, p)
    BY DEF EsperaCircular
  <2>. QED
    BY <2>1 DEF EsperaA, RetieneAlgoPedido
<1>3. ASSUME NEW p \in C  PROVE PideAlgoRetenido(colas, registros, p)
  <2>1. PICK q \in C \ {p} : EsperaA(colas, registros, p, q)
    BY DEF EsperaCircular
  <2>2. q \in Bloqueados(colas) \ {p}
    BY <1>1
  <2>. QED
    BY <2>1, <2>2 DEF EsperaA, PideAlgoRetenido
<1>. QED
  BY <1>1, <1>2, <1>3 DEF EnDeadlock, EsperaCircular
=============================================================================
