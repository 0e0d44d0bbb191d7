----------------------------- MODULE Grado_proofs -----------------------------
(***************************************************************************)
(* The tokens, the slots and the places of the carpinchos, for any number  *)
(* of carpinchos, processors and semaphores and any degree.                *)
(*                                                                         *)
(* Whatever the clients call and the devices do:                           *)
(*                                                                         *)
(*   FichasDeProcesadores   sem_grado_multiprocesamiento never promises a  *)
(*                          processor that is not there                    *)
(*                                                                         *)
(* In the regime SinCarreras (no devices, no kills, and one processor or   *)
(* no close), outside which the code breaks them:                          *)
(*                                                                         *)
(*   GradoConservado        the slots add up to grado_multiprogramacion    *)
(*   CadaUnoEnUnLugar       every carpincho is in exactly one place        *)
(*   DetenidosEncolados     the stopped carpinchos are the queued ones     *)
(*   SuspensionPendiente    a full BLOCKED is never forgotten              *)
(*                                                                         *)
(* The four sums count threads.  Each action moves one thread t, so the    *)
(* cardinalities change by what t contributes (CambiaUno of Conteo): the   *)
(* proofs compare t's own share before and after the step, PesoGrado(t)    *)
(* and PesoLugar(t, p), and the lemmas ..DeUno bring that back to the      *)
(* sums.  None of the four is inductive alone: that a suspension leaves    *)
(* no slot to a waker needs the sum of the slots, that a waker finds its   *)
(* carpincho needs who owns mutex_lista_semaforos_mate, and that a woken   *)
(* carpincho is in no queue needs that nobody is queued twice.             *)
(***************************************************************************)
EXTENDS Planificacion_proofs, Conteo

-----------------------------------------------------------------------------
\* One thread moves.

\* Nothing a thread other than t has of its own changes.
SoloCambia(t) ==
    \A u \in Hilos : u # t =>
        /\ pc'[u] = pc[u] /\ mano'[u] = mano[u]
        /\ u \in Cpus => /\ pedido'[u] = pedido[u]
                         /\ ocupado'[u] = ocupado[u] /\ lugar'[u] = lugar[u]

\* What t contributes to each count: a slot because its carpincho runs, a
\* slot because it closes one, a free processor.
Corre(t) == t \in Cpus /\ ocupado[t] /\ pc[t] # "soltar"
Cierra(t) == t \in Cpus /\ Cerrando(t)
Libre(t) == t \in Cpus /\ ~ocupado[t]

NCorren == Cardinality({t \in Cpus : ocupado[t] /\ pc[t] # "soltar"})
NCierran == Cardinality({t \in Cpus : Cerrando(t)})
NLibres == Cardinality({t \in Cpus : ~ocupado[t]})

\* There are as many processors as grado_multiprocesamiento.
LEMMA CpusFinitas == IsFiniteSet(Cpus) /\ Cardinality(Cpus) = NumProcesadores
<1>. DEFINE f == [c \in 1 .. NumProcesadores |-> <<"ejecutar", c>>]
<1>1. NumProcesadores \in Nat
  BY CantidadesAssumption
<1>2. IsFiniteSet(1 .. NumProcesadores) /\ Cardinality(1 .. NumProcesadores) = NumProcesadores
  BY <1>1, FS_Interval
<1>3. f \in Bijection(1 .. NumProcesadores, Cpus)
  BY DEF Cpus, Bijection, Injection, Surjection, IsInjective
<1>4. ExistsBijection(1 .. NumProcesadores, Cpus)
  BY <1>3 DEF ExistsBijection
<1>. QED
  BY <1>2, <1>4, FS_Bijection

\* The counts of processors move with the thread that moves.
LEMMA CuentasDeCpus ==
  ASSUME NEW t \in Hilos, SoloCambia(t)
  PROVE  /\ NCorren \in Nat /\ NCorren' \in Nat
         /\ NCierran \in Nat /\ NCierran' \in Nat
         /\ NLibres \in Nat /\ NLibres' \in Nat
         /\ NCorren' = NCorren + Uno(Corre(t)') - Uno(Corre(t))
         /\ NCierran' = NCierran + Uno(Cierra(t)') - Uno(Cierra(t))
         /\ NLibres' = NLibres + Uno(Libre(t)') - Uno(Libre(t))
<1>. DEFINE A1 == {u \in Cpus : ocupado[u] /\ pc[u] # "soltar"}
            B1 == {u \in Cpus : ocupado'[u] /\ pc'[u] # "soltar"}
            A2 == {u \in Cpus : Cerrando(u)}
            B2 == {u \in Cpus : Cerrando(u)'}
            A3 == {u \in Cpus : ~ocupado[u]}
            B3 == {u \in Cpus : ~ocupado'[u]}
<1>1. /\ DifierenEn(Cpus, A1, B1, t)
      /\ DifierenEn(Cpus, A2, B2, t)
      /\ DifierenEn(Cpus, A3, B3, t)
  BY HilosDistintos DEF SoloCambia, Cerrando, DifierenEn
<1>3. /\ t \in A1 <=> Corre(t)
      /\ t \in A2 <=> Cierra(t)
      /\ t \in A3 <=> Libre(t)
      /\ t \in B1 <=> Corre(t)'
      /\ t \in B2 <=> Cierra(t)'
      /\ t \in B3 <=> Libre(t)'
  BY DEF Corre, Cierra, Libre
<1>4. /\ NCorren = Cardinality(A1) /\ NCorren' = Cardinality(B1)
      /\ NCierran = Cardinality(A2) /\ NCierran' = Cardinality(B2)
      /\ NLibres = Cardinality(A3) /\ NLibres' = Cardinality(B3)
  BY DEF NCorren, NCierran, NLibres
<1>. HIDE DEF A1, B1, A2, B2, A3, B3
<1>5. /\ Cardinality(A1) \in Nat /\ Cardinality(B1) \in Nat
      /\ Cardinality(B1) = Cardinality(A1) + (IF t \in B1 THEN 1 ELSE 0) - (IF t \in A1 THEN 1 ELSE 0)
  BY <1>1, CpusFinitas, CambiaUno
<1>6. /\ Cardinality(A2) \in Nat /\ Cardinality(B2) \in Nat
      /\ Cardinality(B2) = Cardinality(A2) + (IF t \in B2 THEN 1 ELSE 0) - (IF t \in A2 THEN 1 ELSE 0)
  BY <1>1, CpusFinitas, CambiaUno
<1>7. /\ Cardinality(A3) \in Nat /\ Cardinality(B3) \in Nat
      /\ Cardinality(B3) = Cardinality(A3) + (IF t \in B3 THEN 1 ELSE 0) - (IF t \in A3 THEN 1 ELSE 0)
  BY <1>1, CpusFinitas, CambiaUno
<1>. QED
  BY <1>3, <1>4, <1>5, <1>6, <1>7 DEF Uno

-----------------------------------------------------------------------------
\* Phases of a processor.

\* Between a blocking request and the next one.
Durmiendo(t) == pc[t] \in {"bloquear", "soltar", "mediano", "suspender", "avisar"}

\* It serves its own carpincho, whose bit is still set.
EnCurso(t) == pc[t] \in Operaciones \cup {"bloquear", "soltar", "vaciar"}

\* What a processor does, what it was asked and its bit go together.
FaseOK(t) ==
    /\ pc[t] \in Operaciones \cup
          {"recibir", "bloquear", "soltar", "mediano", "suspender", "avisar", "vaciar",
           "liberar", "unidad", "aReady", "aReadySusp"}
    /\ pc[t] = "recibir" => pedido[t] = SinPedido
    /\ pc[t] # "recibir" => pedido[t].op \in Llamadas
    /\ Durmiendo(t) => pedido[t].op \in {"ESPERAR_SEM", "CALL_IO"}
    /\ pc[t] \in {"liberar", "unidad"} => pedido[t].op = "CLOSE"
    /\ Despierta(t) => pedido[t].op \in {"POST_SEM", "DESTROY_SEM", "CLOSE"}
    /\ EnCurso(t) \/ (Despierta(t) /\ pedido[t].op # "CLOSE") => ocupado[t]
    /\ pedido[t].op = "CALL_IO" => pedido[t].obj \in Dispositivos

FasesOK == \A t \in Cpus : FaseOK(t)

\* The invariant of the processors.
IndProc == IndInv /\ FasesOK /\ FichasDeProcesadores

\* Only the phase of the thread that moves has to be looked at.
LEMMA FasesDeUno ==
  ASSUME FasesOK, NEW t \in Hilos, SoloCambia(t), t \in Cpus => FaseOK(t)'
  PROVE  FasesOK'
<1>1. ASSUME NEW u \in Cpus, u # t  PROVE FaseOK(u)'
  <2>1. FaseOK(u) /\ pc'[u] = pc[u] /\ pedido'[u] = pedido[u] /\ ocupado'[u] = ocupado[u]
    BY <1>1, HilosDistintos DEF FasesOK, SoloCambia
  <2>. QED
    BY <2>1 DEF FaseOK, Durmiendo, EnCurso, Despierta
<1>. QED
  BY <1>1 DEF FasesOK

\* The tokens balance if they balance for the thread that moves.
LEMMA FichasDeUno ==
  ASSUME IndInv, IndInv', FichasDeProcesadores, NEW t \in Hilos, SoloCambia(t),
         semProc' + Uno(pc'[CP] = "despachar") + Uno(Cierra(t)') - Uno(Libre(t)')
           = semProc + Uno(pc[CP] = "despachar") + Uno(Cierra(t)) - Uno(Libre(t))
  PROVE  FichasDeProcesadores'
<1>1. /\ FichasDeProcesadores <=> semProc + Uno(pc[CP] = "despachar") + NCierran = NLibres
      /\ FichasDeProcesadores' <=> semProc' + Uno(pc'[CP] = "despachar") + NCierran' = NLibres'
  BY DEF FichasDeProcesadores, NCierran, NLibres
<1>2. semProc \in Nat /\ semProc' \in Nat
  BY DEF IndInv, TypeOK, TiposListas
<1>3. \A b : Uno(b) \in 0 .. 1
  BY DEF Uno
<1>. QED
  BY <1>1, <1>2, <1>3, CuentasDeCpus

\* A step that keeps a processor in the same state of its life, its bit and
\* the dispatcher's token.
LEMMA FichasIguales ==
  ASSUME IndInv, IndInv', FichasDeProcesadores, NEW t \in Hilos, SoloCambia(t),
         semProc' = semProc, pc'[CP] = "despachar" <=> pc[CP] = "despachar",
         t \in Cpus => ocupado'[t] = ocupado[t] /\ (Cerrando(t)' <=> Cerrando(t))
  PROVE  FichasDeProcesadores'
<1>1. /\ Uno(pc'[CP] = "despachar") = Uno(pc[CP] = "despachar")
      /\ Uno(Cierra(t)') = Uno(Cierra(t))
      /\ Uno(Libre(t)') = Uno(Libre(t))
  BY DEF Uno, Cierra, Libre
<1>. QED
  BY <1>1, FichasDeUno

-----------------------------------------------------------------------------
\* Each thread keeps to what is its own.

\* The process dies where it is.
LEMMA CaerNoCambia ==
  ASSUME NEW t \in Hilos, Caer
  PROVE  SoloCambia(t) /\ UNCHANGED <<pc, mano, pedido, ocupado, lugar, semProc>>
BY DEF Caer, SoloCambia, contadores, procesadores, hilos

\* A connection.
LEMMA SoloAtencion ==
  ASSUME TypeOK, NEW p \in PIDs, Conectar(p) \/ HiloAtencion(p)
  PROVE  SoloCambia(Atencion(p)) /\ semProc' = semProc
<1>. DEFINE t == Atencion(p)
<1>0. t \in Hilos /\ t \in Atenciones /\ t \notin Cpus
  BY HilosDistintos
<1>1. CASE Conectar(p)
  BY <1>0, <1>1 DEF TypeOK, TiposHilos, SoloCambia, Conectar, Ir, contadores, procesadores
<1>2. CASE PasarANew(p)
  BY <1>0, <1>2 DEF TypeOK, TiposHilos, SoloCambia, PasarANew, Ir, contadores, procesadores
<1>3. CASE Mediano(t)
  BY <1>0, <1>3, HilosDistintos
     DEF TypeOK, TiposHilos, SoloCambia, Mediano, TrasMediano, Ir, Tomar, contadores, procesadores
<1>4. CASE Suspender(t)
  BY <1>0, <1>4 DEF TypeOK, TiposHilos, SoloCambia, Suspender, Ir, Tomar, contadores, procesadores
<1>5. CASE AvisarSuspension(t)
  BY <1>0, <1>5, HilosDistintos
     DEF TypeOK, TiposHilos, SoloCambia, AvisarSuspension, TrasMediano, Ir, contadores, procesadores
<1>. QED
  BY <1>1, <1>2, <1>3, <1>4, <1>5 DEF HiloAtencion

\* The long-term scheduler.
LEMMA SoloLargoPlazo ==
  ASSUME TypeOK, HiloLargoPlazo
  PROVE  SoloCambia(LP) /\ semProc' = semProc
<1>1. CASE EsperarLargoPlazo
  BY <1>1, HilosDistintos DEF TypeOK, TiposHilos, SoloCambia, EsperarLargoPlazo, Ir, procesadores
<1>2. CASE AdmitirSuspendido
  BY <1>2, HilosDistintos DEF TypeOK, TiposHilos, SoloCambia, AdmitirSuspendido, Ir, procesadores
<1>3. CASE AvisarDessuspension
  BY <1>3, HilosDistintos DEF TypeOK, TiposHilos, SoloCambia, AvisarDessuspension, Ir, procesadores
<1>4. CASE AdmitirNuevo
  BY <1>4, HilosDistintos DEF TypeOK, TiposHilos, SoloCambia, AdmitirNuevo, Ir, procesadores
<1>. QED
  BY <1>1, <1>2, <1>3, <1>4 DEF HiloLargoPlazo

\* A device.
LEMMA SoloIO ==
  ASSUME TypeOK, NEW t \in Ios, HiloIO(t)
  PROVE  SoloCambia(t) /\ semProc' = semProc
<1>0. t \in Hilos /\ t \notin Ejecutores /\ t \notin Cpus /\ t # DL
  BY HilosDistintos
<1>1. CASE EmpezarRafaga(t)
  BY <1>0, <1>1
     DEF TypeOK, TiposHilos, SoloCambia, EmpezarRafaga, Ir, Tomar, contadores, procesadores
<1>2. CASE TerminarRafaga(t)
  BY <1>0, <1>2 DEF TypeOK, TiposHilos, SoloCambia, TerminarRafaga, Ir, contadores, procesadores
<1>3. CASE MoverAReady(t)
  BY <1>0, <1>3
     DEF TypeOK, TiposHilos, SoloCambia, MoverAReady, TrasMover, Ir, Tomar, procesadores
<1>4. CASE MoverAReadySusp(t)
  BY <1>0, <1>4
     DEF TypeOK, TiposHilos, SoloCambia, MoverAReadySusp, TrasMover, Ir, Tomar, procesadores
<1>. QED
  BY <1>1, <1>2, <1>3, <1>4 DEF HiloIO

\* The detector.
LEMMA SoloDeadlock ==
  ASSUME TypeOK, HiloDeadlock
  PROVE  SoloCambia(DL) /\ semProc' = semProc
<1>0. DL \in Hilos /\ DL \notin Cpus /\ DL \notin Ios /\ DL \in Ejecutores
  BY HilosDistintos
<1>1. CASE Detectar
  BY <1>0, <1>1, HilosDistintos
     DEF TypeOK, TiposHilos, TiposProcesadores, SoloCambia, Detectar, Ir, contadores
<1>2. CASE DetectarNulo
  BY <1>0, <1>2, CaerNoCambia DEF DetectarNulo
<1>3. CASE QuitarVictima
  BY <1>0, <1>3 DEF TypeOK, TiposHilos, SoloCambia, QuitarVictima, Ir, contadores, procesadores
<1>4. CASE Liberar(DL)
  BY <1>0, <1>4 DEF TypeOK, TiposHilos, SoloCambia, Liberar, Ir, contadores, procesadores
<1>5. CASE LiberarNulo(DL)
  BY <1>0, <1>5, CaerNoCambia DEF LiberarNulo
<1>6. CASE UnidadSumar(DL)
  BY <1>0, <1>6 DEF TypeOK, TiposHilos, SoloCambia, UnidadSumar, Ir, contadores, procesadores
<1>7. CASE UnidadDespertar(DL)
  BY <1>0, <1>7 DEF TypeOK, TiposHilos, SoloCambia, UnidadDespertar, SacarDeCola, Ir, Tomar,
                    contadores, procesadores
<1>8. CASE MoverAReady(DL)
  BY <1>0, <1>8
     DEF TypeOK, TiposHilos, SoloCambia, MoverAReady, TrasMover, Ir, Tomar, procesadores
<1>9. CASE MoverAReadySusp(DL)
  BY <1>0, <1>9
     DEF TypeOK, TiposHilos, SoloCambia, MoverAReadySusp, TrasMover, Ir, Tomar, procesadores
<1>10. CASE FinKill
  BY <1>0, <1>10, HilosDistintos
     DEF TypeOK, TiposHilos, TiposProcesadores, SoloCambia, FinKill, Borrar, Ir
<1>. QED
  BY <1>1, <1>2, <1>3, <1>4, <1>5, <1>6, <1>7, <1>8, <1>9, <1>10 DEF HiloDeadlock

\* A processor, one request or one part of a request at a time.
LEMMA SoloCpu ==
  ASSUME TypeOK, NEW t \in Cpus, Recibir(t) \/ HiloCpu(t)
  PROVE  SoloCambia(t)
<1>0. t \in Hilos /\ t \in Ejecutores /\ t \notin Ios /\ t \notin Atenciones /\ t # DL
  BY HilosDistintos
<1>. USE DEF TypeOK, TiposHilos, SoloCambia, Ir, Tomar, Volver, contadores, procesadores
<1>1. CASE Recibir(t)
  BY <1>0, <1>1, HilosDistintos DEF Recibir
<1>2. CASE Memoria(t) \/ InitSem(t) \/ WaitTomar(t) \/ WaitEncolar(t)
  BY <1>0, <1>2, HilosDistintos DEF Memoria, InitSem, WaitTomar, WaitEncolar
<1>3. CASE Bloquear(t)
  BY <1>0, <1>3, HilosDistintos DEF Bloquear
<1>4. CASE Soltar(t) \/ CloseSoltar(t)
  BY <1>0, <1>4, HilosDistintos DEF Soltar, CloseSoltar, TiposProcesadores
<1>5. CASE Mediano(t) \/ Suspender(t) \/ AvisarSuspension(t)
  BY <1>0, <1>5, HilosDistintos DEF Mediano, Suspender, AvisarSuspension, TrasMediano
<1>6. CASE PostSumar(t) \/ PostDespertar(t) \/ Vaciar(t) \/ Destruir(t)
  BY <1>0, <1>6, HilosDistintos DEF PostSumar, PostDespertar, Vaciar, Destruir, SacarDeCola
<1>7. CASE SemaforoNulo(t) \/ LiberarNulo(t)
  BY <1>0, <1>7, CaerNoCambia DEF SemaforoNulo, LiberarNulo
<1>8. CASE PedirIO(t)
  BY <1>0, <1>8, HilosDistintos DEF PedirIO
<1>9. CASE FinClose(t)
  BY <1>0, <1>9, HilosDistintos DEF FinClose
<1>10. CASE Liberar(t) \/ UnidadSumar(t) \/ UnidadDespertar(t)
  BY <1>0, <1>10, HilosDistintos DEF Liberar, UnidadSumar, UnidadDespertar, SacarDeCola
<1>11. CASE MoverAReady(t) \/ MoverAReadySusp(t)
  BY <1>0, <1>11, HilosDistintos DEF MoverAReady, MoverAReadySusp, TrasMover
<1>. QED
  BY <1>1, <1>2, <1>3, <1>4, <1>5, <1>6, <1>7, <1>8, <1>9, <1>10, <1>11 DEF HiloCpu

-----------------------------------------------------------------------------
\* The processors' invariant.

\* A request the client may make is one of Llamadas, and names a device if it
\* is for one.
LEMMA PeticionesPermitidas ==
  ASSUME NEW p, NEW r \in Peticiones(p)
  PROVE  /\ r.op \in Llamadas
         /\ r.op \in Operaciones
         /\ r.op = "CALL_IO" => r.obj \in Dispositivos
BY DEF Peticiones, Operaciones

\* Every phase of a processor leads to one where what it does, what it was
\* asked and its bit still go together.
LEMMA FaseSigue ==
  ASSUME IndInv, FasesOK, NEW t \in Cpus, Recibir(t) \/ HiloCpu(t)
  PROVE  FaseOK(t)'
<1>0. /\ t \in Hilos /\ t \in Ejecutores /\ t \notin Ios /\ t \notin Atenciones /\ t # DL
      /\ FaseOK(t) /\ PedidosOK /\ TypeOK
  BY HilosDistintos DEF FasesOK, IndInv, ControlOK
<1>. USE <1>0 DEF TypeOK, TiposHilos, TiposProcesadores, En, Ir, Volver, SinPedido, procesadores,
               FaseOK, Durmiendo, EnCurso, Despierta, Operaciones
<1>1. CASE Recibir(t)
  <2>1. PICK r \in Peticiones(lugar[t]) : pedido' = [pedido EXCEPT ![t] = r] /\ Ir(t, r.op)
    BY <1>1 DEF Recibir
  <2>2. r.op \in Llamadas /\ r.op \in Operaciones /\ (r.op = "CALL_IO" => r.obj \in Dispositivos)
    BY PeticionesPermitidas
  <2>3. ocupado'[t] /\ pc'[t] = r.op /\ pedido'[t] = r
    BY <1>1, <2>1 DEF Recibir
  <2>. QED
    BY <2>2, <2>3
<1>2. CASE Memoria(t) \/ InitSem(t) \/ WaitTomar(t) \/ PostSumar(t) \/ Destruir(t) \/ FinClose(t)
  <2>1. pc'[t] = "recibir" /\ pedido'[t] = SinPedido
    BY <1>2 DEF Memoria, InitSem, WaitTomar, PostSumar, Destruir, FinClose
  <2>. QED
    BY <2>1
<1>3. CASE WaitEncolar(t) \/ PedirIO(t)
  <2>1. /\ pc[t] \in {"ESPERAR_SEM", "CALL_IO"} /\ pc'[t] = "bloquear"
        /\ pedido'[t] = pedido[t] /\ ocupado'[t] = ocupado[t]
    BY <1>3 DEF WaitEncolar, PedirIO
  <2>2. pedido[t].op = pc[t]
    BY <2>1 DEF PedidosOK
  <2>. QED
    BY <2>1, <2>2
<1>4. CASE Bloquear(t) \/ Soltar(t)
  <2>1. /\ \/ pc[t] = "bloquear" /\ pc'[t] = "soltar" /\ ocupado'[t] = ocupado[t]
           \/ pc[t] = "soltar" /\ pc'[t] = "mediano"
        /\ pedido'[t] = pedido[t]
    BY <1>4 DEF Bloquear, Soltar
  <2>. QED
    BY <2>1
<1>5. CASE Mediano(t) \/ Suspender(t) \/ AvisarSuspension(t)
  <2>1. \/ /\ pc[t] \in {"mediano", "suspender"} /\ pc'[t] \in {"suspender", "avisar"}
           /\ pedido'[t] = pedido[t]
        \/ pc'[t] = "recibir" /\ pedido'[t] = SinPedido
    BY <1>5 DEF Mediano, Suspender, AvisarSuspension, TrasMediano
  <2>. QED
    BY <2>1
<1>6. CASE PostDespertar(t) \/ Vaciar(t) \/ UnidadDespertar(t)
  <2>1. /\ pc[t] \in {"POST_SEM", "DESTROY_SEM", "vaciar", "unidad"}
        /\ pc'[t] \in {"aReady", "aReadySusp"}
        /\ pedido'[t] = pedido[t] /\ ocupado'[t] = ocupado[t]
    BY <1>6, PasoSegunListaTipo DEF PostDespertar, Vaciar, UnidadDespertar, SacarDeCola
  <2>2. /\ pc[t] \in {"POST_SEM", "DESTROY_SEM"} => pedido[t].op = pc[t]
        /\ pc[t] = "vaciar" => pedido[t].op = "DESTROY_SEM"
        /\ pc[t] = "unidad" => pedido[t].op = "CLOSE"
    BY DEF PedidosOK
  <2>. QED
    BY <2>1, <2>2
<1>7. CASE SemaforoNulo(t) \/ LiberarNulo(t)
  <2>1. UNCHANGED <<pc, pedido, ocupado>>
    BY <1>7, CaerNoCambia DEF SemaforoNulo, LiberarNulo
  <2>. QED
    BY <2>1
<1>8. CASE CloseSoltar(t) \/ Liberar(t) \/ UnidadSumar(t)
  <2>1. /\ pc[t] \in {"CLOSE", "liberar", "unidad"} /\ pc'[t] \in {"liberar", "unidad"}
        /\ pedido'[t] = pedido[t]
    BY <1>8 DEF CloseSoltar, Liberar, UnidadSumar
  <2>2. pedido[t].op = "CLOSE"
    BY <2>1 DEF PedidosOK
  <2>. QED
    BY <2>1, <2>2
<1>9. CASE MoverAReady(t) \/ MoverAReadySusp(t)
  <2>1. /\ pc[t] \in {"aReady", "aReadySusp"} /\ ocupado'[t] = ocupado[t]
        /\ \/ pc'[t] = "recibir" /\ pedido'[t] = SinPedido
           \/ pc'[t] = "vaciar" /\ pedido[t].op = "DESTROY_SEM" /\ pedido'[t] = pedido[t]
           \/ pc'[t] \in {"liberar", "unidad"} /\ pedido[t].op = "CLOSE" /\ pedido'[t] = pedido[t]
    BY <1>9 DEF MoverAReady, MoverAReadySusp, TrasMover
  <2>. QED
    BY <2>1
<1>. QED
  BY <1>1, <1>2, <1>3, <1>4, <1>5, <1>6, <1>7, <1>8, <1>9 DEF HiloCpu

\* A thread that is neither a processor nor the dispatcher disturbs nothing.
LEMMA AjenoPreserva ==
  ASSUME IndProc, IndInv', NEW t \in Hilos, t \notin Cpus, t # CP, SoloCambia(t),
         semProc' = semProc
  PROVE  IndProc'
<1>1. pc'[CP] = pc[CP]
  BY HilosDistintos DEF SoloCambia
<1>. QED
  BY <1>1, FichasIguales, FasesDeUno DEF IndProc

\* The dispatcher's token: taken by Elegir, used up by Despachar together with
\* a processor.
LEMMA CortoPlazoPreserva ==
  ASSUME IndProc, IndInv', HiloCortoPlazo
  PROVE  IndProc'
<1>. USE DEF IndProc, IndInv, TypeOK, TiposHilos
<1>1. CASE EsperarReady
  <2>1. SoloCambia(CP)
    BY <1>1, HilosDistintos DEF EsperarReady, SoloCambia, Ir, procesadores
  <2>2. semProc' = semProc /\ pc[CP] = "ready" /\ pc'[CP] = "procesador"
    BY <1>1, HilosDistintos DEF EsperarReady, En, Ir
  <2>. QED
    BY <2>1, <2>2, HilosDistintos, FichasIguales, FasesDeUno
<1>2. CASE Elegir
  <2>1. SoloCambia(CP)
    BY <1>2, HilosDistintos DEF Elegir, SoloCambia, Ir, Tomar, procesadores
  <2>2. semProc' = semProc - 1 /\ pc[CP] = "procesador" /\ pc'[CP] = "despachar"
    BY <1>2, HilosDistintos DEF Elegir, En, Ir
  <2>3. Uno(pc[CP] = "despachar") = 0 /\ Uno(pc'[CP] = "despachar") = 1
    BY <2>2 DEF Uno
  <2>4. Uno(Cierra(CP)) = 0 /\ Uno(Cierra(CP)') = 0 /\ Uno(Libre(CP)) = 0 /\ Uno(Libre(CP)') = 0
    BY HilosDistintos DEF Uno, Cierra, Libre
  <2>5. semProc' + 1 + 0 - 0 = semProc + 0 + 0 - 0
    BY <2>2 DEF TiposListas
  <2>. QED
    BY <2>1, <2>3, <2>4, <2>5, HilosDistintos, FichasDeUno, FasesDeUno
<1>3. CASE Despachar
  <2>1. PICK t \in Cpus : /\ ProcesadorLibre(t)
                          /\ lugar' = [lugar EXCEPT ![t] = mano[CP]]
                          /\ ocupado' = [ocupado EXCEPT ![t] = TRUE]
    BY <1>3 DEF Despachar
  <2>2. /\ semProc' = semProc /\ pc[CP] = "despachar" /\ pc'[CP] = "ready"
        /\ \A u \in Cpus : pc'[u] = pc[u] /\ pedido'[u] = pedido[u]
        /\ \A u \in Cpus : u # t => ocupado'[u] = ocupado[u]
        /\ ~ocupado[t] /\ ocupado'[t]
    BY <1>3, <2>1, HilosDistintos, ZenonT(60)
       DEF Despachar, ProcesadorLibre, contadores, En, Ir, TiposProcesadores
  <2>3. FasesOK'
    BY <2>2 DEF FasesOK, FaseOK, Durmiendo, EnCurso, Despierta
  <2>. DEFINE A == {u \in Cpus : ~ocupado[u]}
              B == {u \in Cpus : ~ocupado'[u]}
  <2>4. NCierran' = NCierran
    BY <2>2 DEF NCierran, Cerrando
  <2>5. NLibres = Cardinality(A) /\ NLibres' = Cardinality(B)
    BY DEF NLibres
  <2>6. DifierenEn(Cpus, A, B, t) /\ t \in A /\ t \notin B
    BY <2>2 DEF DifierenEn
  <2>. HIDE DEF A, B
  <2>7. /\ Cardinality(A) \in Nat /\ Cardinality(B) \in Nat
        /\ Cardinality(B) = Cardinality(A) + (IF t \in B THEN 1 ELSE 0) - (IF t \in A THEN 1 ELSE 0)
    BY <2>6, CpusFinitas, CambiaUno
  <2>8. NCierran \in Nat /\ semProc \in Nat /\ NLibres \in Nat /\ NLibres' = NLibres - 1
    <3>1. IsFiniteSet({t_1 \in Cpus : Cerrando(t_1)})
      BY CpusFinitas, FS_Subset
    <3>. QED
      BY <2>5, <2>6, <2>7, <3>1, FS_CardinalityType DEF NCierran, TiposListas
  <2>9. /\ FichasDeProcesadores <=> semProc + Uno(pc[CP] = "despachar") + NCierran = NLibres
        /\ FichasDeProcesadores' <=> semProc' + Uno(pc'[CP] = "despachar") + NCierran' = NLibres'
    BY DEF FichasDeProcesadores, NCierran, NLibres
  <2>10. Uno(pc[CP] = "despachar") = 1 /\ Uno(pc'[CP] = "despachar") = 0
    BY <2>2 DEF Uno
  <2>11. FichasDeProcesadores'
    BY <2>2, <2>4, <2>8, <2>9, <2>10
  <2>. QED
    BY <2>3, <2>11
<1>. QED
  BY <1>1, <1>2, <1>3 DEF HiloCortoPlazo

\* A processor gives its token back when its bit is clear and it has nothing
\* left to do: at once in wait_sem and call_IO, at the end in mate_close.
LEMMA CpuPreserva ==
  ASSUME IndProc, IndInv', NEW t \in Cpus, Recibir(t) \/ HiloCpu(t)
  PROVE  IndProc'
<1>0. /\ t \in Hilos /\ t \in Ejecutores /\ t \notin Ios /\ t \notin Atenciones /\ t # DL
      /\ TypeOK /\ IndInv /\ FasesOK /\ FaseOK(t) /\ PedidosOK
  BY HilosDistintos DEF IndProc, FasesOK, IndInv, ControlOK
<1>1. SoloCambia(t)
  BY <1>0, SoloCpu
<1>2. FasesOK'
  BY <1>0, <1>1, FaseSigue, FasesDeUno
<1>3. pc'[CP] = pc[CP]
  BY <1>1, HilosDistintos DEF SoloCambia
<1>. DEFINE Igual == /\ semProc' = semProc /\ ocupado'[t] = ocupado[t]
                     /\ Cerrando(t)' <=> Cerrando(t)
<1>4. CASE Igual
  BY <1>0, <1>1, <1>2, <1>3, <1>4, FichasIguales DEF IndProc
<1>. USE <1>0 DEF TypeOK, TiposHilos, TiposProcesadores, En, Ir, Volver, SinPedido, procesadores,
               contadores, Cerrando, PedidosOK
<1>5. CASE Recibir(t)
  <2>1. PICK r \in Peticiones(lugar[t]) : pedido' = [pedido EXCEPT ![t] = r] /\ Ir(t, r.op)
    BY <1>5 DEF Recibir
  <2>2. /\ semProc' = semProc /\ ocupado'[t] = ocupado[t]
        /\ pc'[t] = r.op /\ pedido'[t] = r /\ pedido[t] = SinPedido
    BY <1>5, <2>1 DEF Recibir, FaseOK
  <2>. QED
    BY <1>4, <2>2
<1>6. CASE \/ Memoria(t) \/ InitSem(t) \/ WaitTomar(t) \/ WaitEncolar(t) \/ PostSumar(t)
           \/ PostDespertar(t) \/ Vaciar(t) \/ Destruir(t) \/ PedirIO(t) \/ Bloquear(t)
  <2>1. /\ semProc' = semProc /\ ocupado'[t] = ocupado[t]
        /\ pc[t] \in (Operaciones \cup {"vaciar", "bloquear"}) \ {"CLOSE"}
        /\ pedido'[t] \in {pedido[t], SinPedido}
    BY <1>6 DEF Memoria, InitSem, WaitTomar, WaitEncolar, PostSumar, PostDespertar, Vaciar,
                Destruir, PedirIO, Bloquear, SacarDeCola, Operaciones
  <2>2. pedido[t].op # "CLOSE"
    BY <2>1 DEF FaseOK, Durmiendo
  <2>. QED
    BY <1>4, <2>1, <2>2
<1>7. CASE Soltar(t)
  <2>1. /\ semProc' = semProc + 1 /\ pc[t] = "soltar" /\ ~ocupado'[t] /\ pedido'[t] = pedido[t]
    BY <1>7 DEF Soltar, DevolverProcesador
  <2>2. ocupado[t] /\ pedido[t].op # "CLOSE"
    BY <2>1 DEF FaseOK, Durmiendo, EnCurso
  <2>3. Uno(Cierra(t)) = 0 /\ Uno(Cierra(t)') = 0 /\ Uno(Libre(t)) = 0 /\ Uno(Libre(t)') = 1
    BY <2>1, <2>2 DEF Uno, Cierra, Libre
  <2>4. semProc \in Nat /\ Uno(pc[CP] = "despachar") \in Nat
    BY DEF TiposListas, Uno
  <2>5. semProc' + Uno(pc'[CP] = "despachar") + Uno(Cierra(t)') - Uno(Libre(t)')
           = semProc + Uno(pc[CP] = "despachar") + Uno(Cierra(t)) - Uno(Libre(t))
    BY <1>3, <2>1, <2>3, <2>4
  <2>. QED
    BY <1>1, <1>2, <2>5, FichasDeUno DEF IndProc
<1>8. CASE Mediano(t) \/ Suspender(t) \/ AvisarSuspension(t)
  <2>1. /\ semProc' = semProc /\ ocupado'[t] = ocupado[t]
        /\ pc[t] \in {"mediano", "suspender", "avisar"}
        /\ pedido'[t] \in {pedido[t], SinPedido}
    BY <1>8 DEF Mediano, Suspender, AvisarSuspension, TrasMediano
  <2>2. pedido[t].op # "CLOSE"
    BY <2>1 DEF FaseOK, Durmiendo
  <2>. QED
    BY <1>4, <2>1, <2>2
<1>9. CASE SemaforoNulo(t) \/ LiberarNulo(t)
  <2>1. UNCHANGED <<pc, pedido, ocupado, semProc>>
    BY <1>9, CaerNoCambia DEF SemaforoNulo, LiberarNulo
  <2>. QED
    BY <1>4, <2>1
<1>10. CASE CloseSoltar(t)
  <2>1. /\ semProc' = semProc /\ pc[t] = "CLOSE" /\ pc'[t] = "liberar" /\ ~ocupado'[t]
        /\ pedido'[t] = pedido[t]
    BY <1>10 DEF CloseSoltar
  <2>2. ocupado[t] /\ pedido[t].op = "CLOSE"
    BY <2>1 DEF FaseOK, EnCurso, Operaciones
  <2>3. Uno(Cierra(t)) = 0 /\ Uno(Cierra(t)') = 1 /\ Uno(Libre(t)) = 0 /\ Uno(Libre(t)') = 1
    BY <2>1, <2>2 DEF Uno, Cierra, Libre
  <2>4. semProc \in Nat /\ Uno(pc[CP] = "despachar") \in Nat
    BY DEF TiposListas, Uno
  <2>5. semProc' + Uno(pc'[CP] = "despachar") + Uno(Cierra(t)') - Uno(Libre(t)')
           = semProc + Uno(pc[CP] = "despachar") + Uno(Cierra(t)) - Uno(Libre(t))
    BY <1>3, <2>1, <2>3, <2>4
  <2>. QED
    BY <1>1, <1>2, <2>5, FichasDeUno DEF IndProc
<1>11. CASE FinClose(t)
  <2>1. /\ semProc' = semProc + 1 /\ pc[t] = "liberar" /\ ocupado'[t] = ocupado[t]
        /\ pedido'[t] = SinPedido
    BY <1>11 DEF FinClose, Borrar, DevolverProcesador
  <2>2. pedido[t].op = "CLOSE"
    BY <2>1 DEF FaseOK
  <2>3. Uno(Cierra(t)) = 1 /\ Uno(Cierra(t)') = 0 /\ Uno(Libre(t)') = Uno(Libre(t))
    BY <2>1, <2>2 DEF Uno, Cierra, Libre
  <2>4. semProc \in Nat /\ Uno(pc[CP] = "despachar") \in Nat /\ Uno(Libre(t)) \in Nat
    BY DEF TiposListas, Uno
  <2>5. semProc' + Uno(pc'[CP] = "despachar") + Uno(Cierra(t)') - Uno(Libre(t)')
           = semProc + Uno(pc[CP] = "despachar") + Uno(Cierra(t)) - Uno(Libre(t))
    BY <1>3, <2>1, <2>3, <2>4
  <2>. QED
    BY <1>1, <1>2, <2>5, FichasDeUno DEF IndProc
<1>12. CASE Liberar(t) \/ UnidadSumar(t) \/ UnidadDespertar(t)
  <2>1. /\ semProc' = semProc /\ ocupado'[t] = ocupado[t]
        /\ pc[t] \in {"liberar", "unidad"}
        /\ pc'[t] \in {"liberar", "unidad", "aReady", "aReadySusp"}
        /\ pedido'[t] = pedido[t]
    BY <1>12, PasoSegunListaTipo DEF Liberar, UnidadSumar, UnidadDespertar, SacarDeCola
  <2>. QED
    BY <1>4, <2>1
<1>13. CASE MoverAReady(t) \/ MoverAReadySusp(t)
  <2>1. /\ semProc' = semProc /\ ocupado'[t] = ocupado[t]
        /\ pc[t] \in {"aReady", "aReadySusp"}
        /\ \/ pedido[t].op \in {"POST_SEM", "DESTROY_SEM"}
              /\ pedido'[t] \in {pedido[t], SinPedido}
           \/ pc'[t] \in {"liberar", "unidad"} /\ pedido'[t] = pedido[t]
    BY <1>13 DEF MoverAReady, MoverAReadySusp, TrasMover
  <2>. QED
    BY <1>4, <2>1
<1>. QED
  BY <1>5, <1>6, <1>7, <1>8, <1>9, <1>10, <1>11, <1>12, <1>13 DEF HiloCpu

\* In the initial state every processor is free and every token is there.
LEMMA IndProcInicial == Init => IndProc
<1>. SUFFICES ASSUME Init  PROVE IndProc
  OBVIOUS
<1>1. \A t \in Cpus : pc[t] = "recibir" /\ pedido[t] = SinPedido /\ ~ocupado[t]
  BY HilosDistintos DEF Init
<1>2. FasesOK
  BY <1>1 DEF FasesOK, FaseOK, Durmiendo, EnCurso, Despierta, Operaciones, SinPedido
<1>3. {t \in Cpus : Cerrando(t)} = {} /\ {t \in Cpus : ~ocupado[t]} = Cpus
  BY <1>1 DEF Cerrando, SinPedido
<1>4. Uno(pc[CP] = "despachar") = 0
  BY HilosDistintos DEF Init, Uno
<1>5. FichasDeProcesadores
  <2>1. Cardinality({t \in Cpus : Cerrando(t)}) = 0
    BY <1>3, FS_EmptySet
  <2>2. Cardinality({t \in Cpus : ~ocupado[t]}) = NumProcesadores
    BY <1>3, CpusFinitas
  <2>3. semProc = NumProcesadores /\ NumProcesadores \in Nat
    BY CantidadesAssumption DEF Init
  <2>. QED
    BY <1>4, <2>1, <2>2, <2>3 DEF FichasDeProcesadores
<1>. QED
  BY <1>2, <1>5, IndInvInicial DEF IndProc

\* Every step preserves it.
LEMMA IndProcPreserva ==
  ASSUME IndProc, [Next]_vars
  PROVE  IndProc'
<1>0. IndInv' /\ TypeOK
  BY IndInvPreserva DEF IndProc, IndInv
<1>1. CASE UNCHANGED vars
  BY <1>0, <1>1
     DEF vars, contadores, procesadores, hilos, IndProc, FasesOK, FaseOK, Durmiendo, EnCurso,
         Despierta, FichasDeProcesadores, Cerrando, Uno
<1>2. ASSUME NEW p \in PIDs, Conectar(p) \/ HiloAtencion(p)  PROVE IndProc'
  BY <1>0, <1>2, HilosDistintos, SoloAtencion, AjenoPreserva
<1>3. CASE HiloLargoPlazo
  BY <1>0, <1>3, HilosDistintos, SoloLargoPlazo, AjenoPreserva
<1>4. ASSUME NEW t \in Ios, HiloIO(t)  PROVE IndProc'
  BY <1>0, <1>4, HilosDistintos, SoloIO, AjenoPreserva
<1>5. CASE HiloDeadlock
  BY <1>0, <1>5, HilosDistintos, SoloDeadlock, AjenoPreserva
<1>. QED
  BY <1>0, <1>1, <1>2, <1>3, <1>4, <1>5, CortoPlazoPreserva, CpuPreserva DEF Next

\* The processors' invariant holds in every reachable state.
THEOREM InvarianteDeProcesadores == Spec => []IndProc
<1>1. IndProc /\ [Next]_vars => IndProc'
  BY IndProcPreserva
<1>. QED
  BY <1>1, IndProcInicial, PTL DEF Spec

\* sem_grado_multiprocesamiento never promises a processor that is not there,
\* whatever the number of processors, carpinchos, devices and semaphores, and
\* however closes, waits and kills interleave.
THEOREM FichasDeProcesadoresCorrectas == Spec => []FichasDeProcesadores
<1>1. IndProc => FichasDeProcesadores
  BY DEF IndProc
<1>. QED
  BY <1>1, InvarianteDeProcesadores, PTL

\* So correr_dispatcher never dereferences a NULL processor: the dispatcher that
\* has taken a token finds one whose bit is clear.
THEOREM DespachadorEncuentra ==
  Spec => [](pc[CP] = "despachar" => \E t \in Cpus : ~ocupado[t])
<1>1. ASSUME FichasDeProcesadores, IndInv, pc[CP] = "despachar"
      PROVE  \E t \in Cpus : ~ocupado[t]
  <2>1. IsFiniteSet({t \in Cpus : Cerrando(t)})
    BY CpusFinitas, FS_Subset
  <2>2. NCierran \in Nat /\ semProc \in Nat
    BY <1>1, <2>1, FS_CardinalityType DEF IndInv, TypeOK, TiposListas, NCierran
  <2>3. semProc + 1 + NCierran = NLibres
    <3>1. Uno(pc[CP] = "despachar") = 1
      BY <1>1 DEF Uno
    <3>. QED
      BY <1>1, <3>1 DEF FichasDeProcesadores, NCierran, NLibres
  <2>4. NLibres # 0
    BY <2>2, <2>3
  <2>5. {t \in Cpus : ~ocupado[t]} # {}
    BY <2>4, FS_EmptySet DEF NLibres
  <2>. QED
    BY <2>5
<1>2. IndProc => (pc[CP] = "despachar" => \E t \in Cpus : ~ocupado[t])
  BY <1>1 DEF IndProc
<1>. QED
  BY <1>2, InvarianteDeProcesadores, PTL

-----------------------------------------------------------------------------
\* How many times in a list, and what the four ways to change a list do to it.

\* A carpincho is in a list if it is counted there at least once.
LEMMA VecesTipo ==
  ASSUME NEW l \in Seq(PIDs), NEW p
  PROVE  Veces(l, p) \in Nat /\ (Veces(l, p) = 0 <=> p \notin ToSet(l))
BY AparicionesTipo DEF Veces, Apariciones

\* list_add.
LEMMA VecesAlFinal ==
  ASSUME NEW l \in Seq(PIDs), NEW e \in PIDs
  PROVE  /\ Append(l, e) \in Seq(PIDs) /\ Len(Append(l, e)) = Len(l) + 1
         /\ ToSet(Append(l, e)) = ToSet(l) \cup {e}
         /\ \A p : Veces(Append(l, e), p) = Veces(l, p) + Uno(e = p)
<1>1. ASSUME NEW p
      PROVE  Veces(Append(l, e), p) = Veces(l, p) + Uno(e = p)
  <2>1. Cardinality(Apariciones(Append(l, e), p))
             = Cardinality(Apariciones(l, p)) + (IF e = p THEN 1 ELSE 0)
    BY ContarAppend
  <2>. QED
    BY <2>1 DEF Veces, Apariciones, Uno
<1>2. Append(l, e) \in Seq(PIDs) /\ Len(Append(l, e)) = Len(l) + 1
  BY AppendProperties
<1>3. ToSet(Append(l, e)) = ToSet(l) \cup {e}
  BY MiembrosAppend
<1>. QED
  BY <1>1, <1>2, <1>3

\* list_remove at 0, queue_pop.
LEMMA VecesDelFrente ==
  ASSUME NEW l \in Seq(PIDs), l # <<>>
  PROVE  /\ Tail(l) \in Seq(PIDs) /\ Len(Tail(l)) = Len(l) - 1 /\ Head(l) \in PIDs
         /\ ToSet(l) = ToSet(Tail(l)) \cup {Head(l)}
         /\ \A p : Veces(l, p) = Veces(Tail(l), p) + Uno(Head(l) = p)
<1>1. ASSUME NEW p
      PROVE  Veces(l, p) = Veces(Tail(l), p) + Uno(Head(l) = p)
  <2>1. Cardinality(Apariciones(l, p))
             = Cardinality(Apariciones(Tail(l), p)) + (IF Head(l) = p THEN 1 ELSE 0)
    BY ContarTail
  <2>. QED
    BY <2>1 DEF Veces, Apariciones, Uno
<1>2. /\ Tail(l) \in Seq(PIDs) /\ Len(Tail(l)) = Len(l) - 1 /\ Head(l) \in PIDs
      /\ \A j \in 1 .. Len(Tail(l)) : Tail(l)[j] = l[j + 1]
  BY HeadTailProperties
<1>3. Len(l) \in Nat /\ Len(l) # 0 /\ Head(l) = l[1]
  BY EmptySeq, LenProperties
<1>4. ToSet(l) = ToSet(Tail(l)) \cup {l[1]}
  <2>1. 1 \in 1 .. Len(l) /\ SinEl(1, l, Tail(l))
    BY <1>2, <1>3 DEF SinEl
  <2>. DEFINE r == Tail(l)
  <2>2. r \in Seq(PIDs) /\ SinEl(1, l, r)
    BY <1>2, <2>1
  <2>. HIDE DEF r
  <2>3. ToSet(l) = ToSet(r) \cup {l[1]}
    BY <2>1, <2>2, MiembrosSinEl
  <2>. QED
    BY <2>3 DEF r
<1>. QED
  BY <1>1, <1>2, <1>3, <1>4

\* list_remove at the last index.
LEMMA VecesDelFondo ==
  ASSUME NEW l \in Seq(PIDs), l # <<>>
  PROVE  /\ Front(l) \in Seq(PIDs) /\ Len(Front(l)) = Len(l) - 1 /\ Last(l) \in PIDs
         /\ ToSet(l) = ToSet(Front(l)) \cup {Last(l)}
         /\ \A p : Veces(l, p) = Veces(Front(l), p) + Uno(Last(l) = p)
<1>1. ASSUME NEW p
      PROVE  Veces(l, p) = Veces(Front(l), p) + Uno(Last(l) = p)
  <2>1. Cardinality(Apariciones(l, p))
             = Cardinality(Apariciones(Front(l), p)) + (IF Last(l) = p THEN 1 ELSE 0)
    BY ContarFront
  <2>. QED
    BY <2>1 DEF Veces, Apariciones, Uno
<1>2. /\ Front(l) \in Seq(PIDs) /\ Len(Front(l)) = Len(l) - 1 /\ Last(l) \in PIDs
  BY ContarFront
<1>3. ToSet(l) = ToSet(Front(l)) \cup {Last(l)}
  <2>1. ASSUME NEW p \in PIDs  PROVE p \in ToSet(l) <=> p \in ToSet(Front(l)) \/ p = Last(l)
    BY <1>1, <1>2, VecesTipo DEF Uno
  <2>2. ToSet(l) \subseteq PIDs /\ ToSet(Front(l)) \subseteq PIDs
    BY <1>2, RangeOfSeq DEF ToSet, Range
  <2>. QED
    BY <1>2, <2>1, <2>2
<1>. QED
  BY <1>1, <1>2, <1>3

\* list_remove at any index.
LEMMA VecesRemoveAt ==
  ASSUME NEW l \in Seq(PIDs), NEW i \in DOMAIN l
  PROVE  /\ RemoveAt(l, i) \in Seq(PIDs) /\ Len(RemoveAt(l, i)) = Len(l) - 1 /\ l[i] \in PIDs
         /\ ToSet(l) = ToSet(RemoveAt(l, i)) \cup {l[i]}
         /\ \A p : Veces(l, p) = Veces(RemoveAt(l, i), p) + Uno(l[i] = p)
<1>0. i \in 1 .. Len(l)
  BY LenProperties
<1>1. ASSUME NEW p
      PROVE  Veces(l, p) = Veces(RemoveAt(l, i), p) + Uno(l[i] = p)
  <2>1. Cardinality(Apariciones(l, p))
             = Cardinality(Apariciones(RemoveAt(l, i), p)) + (IF l[i] = p THEN 1 ELSE 0)
    BY <1>0, ContarRemoveAt
  <2>. QED
    BY <2>1 DEF Veces, Apariciones, Uno
<1>2. /\ RemoveAt(l, i) \in Seq(PIDs) /\ Len(RemoveAt(l, i)) = Len(l) - 1 /\ l[i] \in PIDs
  BY RemoveAtTipo
<1>3. ToSet(l) = ToSet(RemoveAt(l, i)) \cup {l[i]}
  <2>1. ASSUME NEW p \in PIDs  PROVE p \in ToSet(l) <=> p \in ToSet(RemoveAt(l, i)) \/ p = l[i]
    BY <1>1, <1>2, VecesTipo DEF Uno
  <2>2. ToSet(l) \subseteq PIDs /\ ToSet(RemoveAt(l, i)) \subseteq PIDs
    BY <1>2, RangeOfSeq DEF ToSet, Range
  <2>. QED
    BY <1>2, <2>1, <2>2
<1>. QED
  BY <1>1, <1>2, <1>3

\* list_remove_by_condition on the PID.
LEMMA VecesQuitar ==
  ASSUME NEW l \in Seq(PIDs), NEW e
  PROVE  /\ Quitar(l, e) \in Seq(PIDs)
         /\ e \notin ToSet(l) => Quitar(l, e) = l
         /\ e \in ToSet(l) =>
               /\ Len(Quitar(l, e)) = Len(l) - 1
               /\ ToSet(l) = ToSet(Quitar(l, e)) \cup {e}
               /\ \A p : Veces(l, p) = Veces(Quitar(l, e), p) + Uno(e = p)
<1>1. CASE e \notin ToSet(l)
  BY <1>1 DEF Quitar
<1>2. CASE e \in ToSet(l)
  <2>1. PICK i \in DOMAIN l : l[i] = e /\ Quitar(l, e) = RemoveAt(l, i)
    BY <1>2 DEF Quitar, ToSet
  <2>. QED
    BY <1>2, <2>1, VecesRemoveAt
<1>. QED
  BY <1>1, <1>2

-----------------------------------------------------------------------------
\* Without devices, without kills and with no close that another processor can
\* meet half-way: what the runs plan_semaforos and plan_dos_procesadores check.
SinCarreras ==
    /\ Dispositivos = {}
    /\ ~ConDetector
    /\ NumProcesadores = 1 \/ "CLOSE" \notin Llamadas

\* The threads that suspend somebody, and where they keep it.
Suspende(t) == pc[t] \in {"suspender", "avisar"}
Lleva(t, p) == pc[t] = "suspender" /\ mano[t] = p
CorreA(t, p) == t \in Cpus /\ Ejecuta(t, p)
CierraA(t, p) == t \in Cpus /\ Cerrando(t) /\ lugar[t] = p

NSuspenden == Cardinality({t \in Hilos : pc[t] \in {"suspender", "avisar"}})
NLlevan(p) == Cardinality({t \in Hilos : pc[t] = "suspender" /\ mano[t] = p})
NCorrenA(p) == Cardinality({t \in Cpus : Ejecuta(t, p)})
NCierranA(p) == Cardinality({t \in Cpus : Cerrando(t) /\ lugar[t] = p})

\* Without devices there are finitely many threads.
LEMMA HilosFinitos == SinCarreras => IsFiniteSet(Hilos)
<1>. SUFFICES ASSUME SinCarreras  PROVE IsFiniteSet(Hilos)
  OBVIOUS
<1>1. IsFiniteSet(PIDs)
  <2>1. 0 \in Int /\ NumCarpinchos - 1 \in Int
    BY CantidadesAssumption
  <2>. QED
    BY <2>1, FS_Interval DEF PIDs
<1>2. IsFiniteSet(Atenciones)
  <2>. DEFINE f == [p \in PIDs |-> Atencion(p)]
  <2>1. f \in Surjection(PIDs, Atenciones)
    BY DEF Surjection, Atenciones
  <2>. QED
    BY <1>1, <2>1, FS_Surjection
<1>3. IsFiniteSet({LP, CP, DL})
  <2>1. IsFiniteSet({LP}) /\ IsFiniteSet({CP}) /\ IsFiniteSet({DL})
    BY FS_Singleton
  <2>2. IsFiniteSet(({LP} \cup {CP}) \cup {DL})
    BY <2>1, FS_Union
  <2>3. {LP, CP, DL} = ({LP} \cup {CP}) \cup {DL}
    OBVIOUS
  <2>. QED
    BY <2>2, <2>3
<1>4. Ios = {}
  BY DEF SinCarreras, Ios
<1>5. Hilos = (Atenciones \cup Cpus) \cup {LP, CP, DL}
  BY <1>4 DEF Hilos
<1>6. IsFiniteSet(Atenciones \cup Cpus)
  BY <1>2, CpusFinitas, FS_Union
<1>. QED
  BY <1>3, <1>5, <1>6, FS_Union

\* The counts of suspensions move with the thread that moves.
LEMMA CuentaDeSuspensiones ==
  ASSUME SinCarreras, NEW t \in Hilos, SoloCambia(t)
  PROVE  /\ NSuspenden \in Nat /\ NSuspenden' \in Nat
         /\ NSuspenden' = NSuspenden + Uno(Suspende(t)') - Uno(Suspende(t))
<1>. DEFINE A == {u \in Hilos : pc[u] \in {"suspender", "avisar"}}
            B == {u \in Hilos : pc'[u] \in {"suspender", "avisar"}}
<1>1. DifierenEn(Hilos, A, B, t) /\ (t \in A <=> Suspende(t)) /\ (t \in B <=> Suspende(t)')
  BY DEF SoloCambia, DifierenEn, Suspende
<1>2. NSuspenden = Cardinality(A) /\ NSuspenden' = Cardinality(B)
  BY DEF NSuspenden
<1>. HIDE DEF A, B
<1>3. /\ Cardinality(A) \in Nat /\ Cardinality(B) \in Nat
      /\ Cardinality(B) = Cardinality(A) + (IF t \in B THEN 1 ELSE 0) - (IF t \in A THEN 1 ELSE 0)
  BY <1>1, HilosFinitos, CambiaUno
<1>. QED
  BY <1>1, <1>2, <1>3 DEF Uno

\* The counts of carpinchos in a hand move with the thread that moves.
LEMMA CuentaDeLlevados ==
  ASSUME SinCarreras, NEW t \in Hilos, SoloCambia(t), NEW p
  PROVE  /\ NLlevan(p) \in Nat /\ NLlevan(p)' \in Nat
         /\ NLlevan(p)' = NLlevan(p) + Uno(Lleva(t, p)') - Uno(Lleva(t, p))
<1>. DEFINE A == {u \in Hilos : pc[u] = "suspender" /\ mano[u] = p}
            B == {u \in Hilos : pc'[u] = "suspender" /\ mano'[u] = p}
<1>1. DifierenEn(Hilos, A, B, t) /\ (t \in A <=> Lleva(t, p)) /\ (t \in B <=> Lleva(t, p)')
  BY DEF SoloCambia, DifierenEn, Lleva
<1>2. NLlevan(p) = Cardinality(A) /\ NLlevan(p)' = Cardinality(B)
  BY DEF NLlevan
<1>. HIDE DEF A, B
<1>3. /\ Cardinality(A) \in Nat /\ Cardinality(B) \in Nat
      /\ Cardinality(B) = Cardinality(A) + (IF t \in B THEN 1 ELSE 0) - (IF t \in A THEN 1 ELSE 0)
  BY <1>1, HilosFinitos, CambiaUno
<1>. QED
  BY <1>1, <1>2, <1>3 DEF Uno

\* So do those of the processors that run or close p.
LEMMA CuentaDeEjecutados ==
  ASSUME NEW t \in Hilos, SoloCambia(t), NEW p
  PROVE  /\ NCorrenA(p) \in Nat /\ NCorrenA(p)' \in Nat
         /\ NCierranA(p) \in Nat /\ NCierranA(p)' \in Nat
         /\ NCorrenA(p)' = NCorrenA(p) + Uno(CorreA(t, p)') - Uno(CorreA(t, p))
         /\ NCierranA(p)' = NCierranA(p) + Uno(CierraA(t, p)') - Uno(CierraA(t, p))
<1>. DEFINE A == {u \in Cpus : Ejecuta(u, p)}
            B == {u \in Cpus : Ejecuta(u, p)'}
            C == {u \in Cpus : Cerrando(u) /\ lugar[u] = p}
            D == {u \in Cpus : Cerrando(u)' /\ lugar'[u] = p}
<1>1. /\ DifierenEn(Cpus, A, B, t) /\ (t \in A <=> CorreA(t, p)) /\ (t \in B <=> CorreA(t, p)')
      /\ DifierenEn(Cpus, C, D, t) /\ (t \in C <=> CierraA(t, p)) /\ (t \in D <=> CierraA(t, p)')
  BY HilosDistintos DEF SoloCambia, DifierenEn, CorreA, CierraA, Ejecuta, Cerrando
<1>2. /\ NCorrenA(p) = Cardinality(A) /\ NCorrenA(p)' = Cardinality(B)
      /\ NCierranA(p) = Cardinality(C) /\ NCierranA(p)' = Cardinality(D)
  BY DEF NCorrenA, NCierranA
<1>. HIDE DEF A, B, C, D
<1>3. /\ Cardinality(A) \in Nat /\ Cardinality(B) \in Nat
      /\ Cardinality(B) = Cardinality(A) + (IF t \in B THEN 1 ELSE 0) - (IF t \in A THEN 1 ELSE 0)
  BY <1>1, CpusFinitas, CambiaUno
<1>4. /\ Cardinality(C) \in Nat /\ Cardinality(D) \in Nat
      /\ Cardinality(D) = Cardinality(C) + (IF t \in D THEN 1 ELSE 0) - (IF t \in C THEN 1 ELSE 0)
  BY <1>1, CpusFinitas, CambiaUno
<1>. QED
  BY <1>1, <1>2, <1>3, <1>4 DEF Uno

\* The sums of GradoConservado and CadaUnoEnUnLugar, with t's own share in
\* place of each count.
PesoGrado(t) ==
    semGrado + Len(ready) + Len(blocked) + Uno(pc[CP] = "despachar")
    + Uno(Corre(t)) + Uno(Cierra(t)) + Uno(Suspende(t))

EnAlta(p) == Uno(pc[Atencion(p)] \in {"fuera", "pasarANew"}) + Veces(nuevo, p)
EnMemoria(p) == Veces(ready, p) + Veces(blocked, p)
Suspendido(p) == Veces(blockedSusp, p) + Veces(readySusp, p)
EnMano(t, p) == Uno(mano[CP] = p) + Uno(Lleva(t, p))
EnCpu(t, p) == Uno(CorreA(t, p)) + Uno(CierraA(t, p)) + Uno(p \in liberados)

PesoLugar(t, p) == EnAlta(p) + EnMemoria(p) + Suspendido(p) + EnMano(t, p) + EnCpu(t, p)

\* The slots are conserved if they are for the thread that moves.
LEMMA GradoDeUno ==
  ASSUME SinCarreras, IndInv, IndInv', GradoConservado, NEW t \in Hilos, SoloCambia(t),
         PesoGrado(t)' = PesoGrado(t)
  PROVE  GradoConservado'
<1>. DEFINE R == semGrado + Len(ready) + Len(blocked) + Uno(pc[CP] = "despachar")
            Q == semGrado' + Len(ready') + Len(blocked') + Uno(pc'[CP] = "despachar")
<1>1. R + NCorren + NCierran + NSuspenden = Grado
  BY DEF GradoConservado, NCorren, NCierran, NSuspenden
<1>2. R + Uno(Corre(t)) + Uno(Cierra(t)) + Uno(Suspende(t))
        = Q + Uno(Corre(t)') + Uno(Cierra(t)') + Uno(Suspende(t)')
  <2>1. /\ PesoGrado(t) = R + Uno(Corre(t)) + Uno(Cierra(t)) + Uno(Suspende(t))
        /\ PesoGrado(t)' = Q + Uno(Corre(t)') + Uno(Cierra(t)') + Uno(Suspende(t)')
    BY DEF PesoGrado
  <2>2. PesoGrado(t)' = PesoGrado(t)
    OBVIOUS
  <2>. HIDE DEF R, Q
  <2>. QED
    BY <2>1, <2>2
<1>3. \A b : Uno(b) \in 0 .. 1
  BY DEF Uno
<1>4. R \in Nat /\ Q \in Nat
  <2>1. /\ semGrado \in Nat /\ ready \in Seq(PIDs) /\ blocked \in Seq(PIDs)
        /\ semGrado' \in Nat /\ ready' \in Seq(PIDs) /\ blocked' \in Seq(PIDs)
    BY DEF IndInv, TypeOK, TiposListas
  <2>2. /\ Len(ready) \in Nat /\ Len(blocked) \in Nat
        /\ Len(ready') \in Nat /\ Len(blocked') \in Nat
    BY <2>1, LenProperties
  <2>3. Uno(pc[CP] = "despachar") \in Nat /\ Uno(pc'[CP] = "despachar") \in Nat
    BY DEF Uno
  <2>4. semGrado \in Nat /\ semGrado' \in Nat
    BY <2>1
  <2>. QED
    BY <2>2, <2>3, <2>4
<1>5. /\ NCorren \in Nat /\ NCierran \in Nat /\ NSuspenden \in Nat
      /\ NCorren' = NCorren + Uno(Corre(t)') - Uno(Corre(t))
      /\ NCierran' = NCierran + Uno(Cierra(t)') - Uno(Cierra(t))
      /\ NSuspenden' = NSuspenden + Uno(Suspende(t)') - Uno(Suspende(t))
  BY CuentasDeCpus, CuentaDeSuspensiones
<1>6. /\ Uno(Corre(t)) \in Nat /\ Uno(Cierra(t)) \in Nat /\ Uno(Suspende(t)) \in Nat
      /\ Uno(Corre(t)') \in Nat /\ Uno(Cierra(t)') \in Nat /\ Uno(Suspende(t)') \in Nat
  BY <1>3
<1>7. Q + NCorren' + NCierran' + NSuspenden' = Grado
  <2>. HIDE DEF R, Q
  <2>. QED
    BY <1>1, <1>2, <1>4, <1>5, <1>6, Balance
<1>. QED
  BY <1>7 DEF GradoConservado, NCorren, NCierran, NSuspenden

\* The same sum without brackets.
LEMMA SumaOnce ==
  ASSUME NEW a \in Nat, NEW b \in Nat, NEW c \in Nat, NEW d \in Nat, NEW e \in Nat,
         NEW f \in Nat, NEW g \in Nat, NEW h \in Nat, NEW i \in Nat, NEW j \in Nat,
         NEW k \in Nat, NEW s, s = (a + b) + (c + d) + (e + f) + (g + h) + (i + j + k),
         NEW r, r = a + b + c + d + e + f + g
  PROVE  s = r + h + i + j + k
OBVIOUS

\* Everybody stays in one place if the thread that moves moves nobody, or one
\* from a place to another.
LEMMA LugarDeUno ==
  ASSUME SinCarreras, IndInv, IndInv', CadaUnoEnUnLugar, NEW t \in Hilos, SoloCambia(t),
         \A p \in PIDs : PesoLugar(t, p)' = PesoLugar(t, p)
  PROVE  CadaUnoEnUnLugar'
<1>. SUFFICES ASSUME NEW p \in PIDs
              PROVE  Uno(pc'[Atencion(p)] \in {"fuera", "pasarANew"})
                     + Veces(nuevo, p)' + Veces(ready, p)' + Veces(blocked, p)'
                     + Veces(blockedSusp, p)' + Veces(readySusp, p)'
                     + Uno(mano'[CP] = p)
                     + NLlevan(p)' + NCorrenA(p)' + NCierranA(p)'
                     + Uno(p \in liberados') = 1
  BY DEF CadaUnoEnUnLugar, NLlevan, NCorrenA, NCierranA
<1>. DEFINE R == Uno(pc[Atencion(p)] \in {"fuera", "pasarANew"})
                 + Veces(nuevo, p) + Veces(ready, p) + Veces(blocked, p)
                 + Veces(blockedSusp, p) + Veces(readySusp, p)
                 + Uno(mano[CP] = p)
            Q == Uno(pc'[Atencion(p)] \in {"fuera", "pasarANew"})
                 + Veces(nuevo, p)' + Veces(ready, p)' + Veces(blocked, p)'
                 + Veces(blockedSusp, p)' + Veces(readySusp, p)'
                 + Uno(mano'[CP] = p)
<1>3. \A b : Uno(b) \in 0 .. 1 /\ Uno(b) \in Nat
  BY DEF Uno
<1>4. /\ Veces(nuevo, p) \in Nat /\ Veces(ready, p) \in Nat /\ Veces(blocked, p) \in Nat
      /\ Veces(blockedSusp, p) \in Nat /\ Veces(readySusp, p) \in Nat
      /\ Veces(nuevo, p)' \in Nat /\ Veces(ready, p)' \in Nat /\ Veces(blocked, p)' \in Nat
      /\ Veces(blockedSusp, p)' \in Nat /\ Veces(readySusp, p)' \in Nat
  BY VecesTipo DEF IndInv, TypeOK, TiposListas
<1>8. R \in Nat /\ Q \in Nat
  BY <1>3, <1>4
<1>1. R + NLlevan(p) + NCorrenA(p) + NCierranA(p) + Uno(p \in liberados) = 1
  BY DEF CadaUnoEnUnLugar, NLlevan, NCorrenA, NCierranA
<1>2. R + Uno(Lleva(t, p)) + Uno(CorreA(t, p)) + Uno(CierraA(t, p)) + Uno(p \in liberados)
        = Q + Uno(Lleva(t, p)') + Uno(CorreA(t, p)') + Uno(CierraA(t, p)') + Uno(p \in liberados')
  <2>1. PesoLugar(t, p)' = PesoLugar(t, p)
    OBVIOUS
  <2>2. PesoLugar(t, p)
          = R + Uno(Lleva(t, p)) + Uno(CorreA(t, p)) + Uno(CierraA(t, p)) + Uno(p \in liberados)
    <3>. DEFINE a == Uno(pc[Atencion(p)] \in {"fuera", "pasarANew"})
                b == Veces(nuevo, p)
                c == Veces(ready, p)
                d == Veces(blocked, p)
                e == Veces(blockedSusp, p)
                f == Veces(readySusp, p)
                g == Uno(mano[CP] = p)
                h == Uno(Lleva(t, p))
                i == Uno(CorreA(t, p))
                j == Uno(CierraA(t, p))
                k == Uno(p \in liberados)
    <3>1. PesoLugar(t, p) = (a + b) + (c + d) + (e + f) + (g + h) + (i + j + k)
      BY DEF PesoLugar, EnAlta, EnMemoria, Suspendido, EnMano, EnCpu
    <3>2. R = a + b + c + d + e + f + g
      OBVIOUS
    <3>3. /\ a \in Nat /\ b \in Nat /\ c \in Nat /\ d \in Nat /\ e \in Nat /\ f \in Nat
          /\ g \in Nat /\ h \in Nat /\ i \in Nat /\ j \in Nat /\ k \in Nat
      BY <1>3, <1>4
    <3>. HIDE DEF a, b, c, d, e, f, g, h, i, j, k, R
    <3>4. PesoLugar(t, p) = R + h + i + j + k
      BY <3>1, <3>2, <3>3, SumaOnce
    <3>. QED
      BY <3>4 DEF h, i, j, k
  <2>3. PesoLugar(t, p)'
          = Q + Uno(Lleva(t, p)') + Uno(CorreA(t, p)') + Uno(CierraA(t, p)') + Uno(p \in liberados')
    <3>. DEFINE a == Uno(pc'[Atencion(p)] \in {"fuera", "pasarANew"})
                b == Veces(nuevo, p)'
                c == Veces(ready, p)'
                d == Veces(blocked, p)'
                e == Veces(blockedSusp, p)'
                f == Veces(readySusp, p)'
                g == Uno(mano'[CP] = p)
                h == Uno(Lleva(t, p)')
                i == Uno(CorreA(t, p)')
                j == Uno(CierraA(t, p)')
                k == Uno(p \in liberados')
    <3>1. PesoLugar(t, p)' = (a + b) + (c + d) + (e + f) + (g + h) + (i + j + k)
      BY DEF PesoLugar, EnAlta, EnMemoria, Suspendido, EnMano, EnCpu
    <3>2. Q = a + b + c + d + e + f + g
      OBVIOUS
    <3>3. /\ a \in Nat /\ b \in Nat /\ c \in Nat /\ d \in Nat /\ e \in Nat /\ f \in Nat
          /\ g \in Nat /\ h \in Nat /\ i \in Nat /\ j \in Nat /\ k \in Nat
      BY <1>3, <1>4
    <3>. HIDE DEF a, b, c, d, e, f, g, h, i, j, k, Q
    <3>4. PesoLugar(t, p)' = Q + h + i + j + k
      BY <3>1, <3>2, <3>3, SumaOnce
    <3>. QED
      BY <3>4 DEF h, i, j, k
  <2>. HIDE DEF R, Q
  <2>. QED
    BY <2>1, <2>2, <2>3
<1>5. /\ NLlevan(p) \in Nat /\ NCorrenA(p) \in Nat /\ NCierranA(p) \in Nat
      /\ NLlevan(p)' = NLlevan(p) + Uno(Lleva(t, p)') - Uno(Lleva(t, p))
      /\ NCorrenA(p)' = NCorrenA(p) + Uno(CorreA(t, p)') - Uno(CorreA(t, p))
      /\ NCierranA(p)' = NCierranA(p) + Uno(CierraA(t, p)') - Uno(CierraA(t, p))
  BY CuentaDeLlevados, CuentaDeEjecutados
<1>6. /\ Uno(Lleva(t, p)) \in Nat /\ Uno(CorreA(t, p)) \in Nat /\ Uno(CierraA(t, p)) \in Nat
      /\ Uno(Lleva(t, p)') \in Nat /\ Uno(CorreA(t, p)') \in Nat /\ Uno(CierraA(t, p)') \in Nat
      /\ Uno(p \in liberados) \in Nat /\ Uno(p \in liberados') \in Nat
  BY <1>3
<1>7. Q + NLlevan(p)' + NCorrenA(p)' + NCierranA(p)' + Uno(p \in liberados') = 1
  <2>. HIDE DEF R, Q
  <2>. QED
    BY <1>1, <1>2, <1>8, <1>5, <1>6
<1>. QED
  BY <1>7

-----------------------------------------------------------------------------
\* What the threads are doing, and what they hold meanwhile.

\* Each kind of thread keeps to its own steps; the dispatcher has a PCB in its
\* hand only between taking it from READY and giving it to a processor.
PasoUno(t) ==
    /\ t \in Atenciones =>
          pc[t] \in {"fuera", "pasarANew", "mediano", "suspender", "avisar", "fin"}
    /\ t = LP => pc[t] \in {"largo", "grado", "dessuspender"}
    /\ t = CP => /\ pc[t] \in {"ready", "procesador", "despachar"}
                 /\ pc[t] # "despachar" => mano[t] = Nadie
    /\ t = DL => pc[t] = "detectar"

\* A processor asleep in wait_sem or waking somebody owns the mutex of the
\* semaphores, unless it closes.
MutexUno(t) ==
    (Durmiendo(t) \/ pc[t] = "vaciar" \/ Despierta(t)) /\ pedido[t].op # "CLOSE"
        => mtxSem = t

\* Who is about to be woken is still where the waker saw it, and in no queue.
DespertadoUno(t) ==
    /\ pc[t] = "aReady" => mano[t] \in ToSet(blocked)
    /\ pc[t] = "aReadySusp" => mano[t] \in ToSet(blockedSusp)
    /\ Despierta(t) => mano[t] \notin Bloqueados(cola)

PasosOK == \A t \in Hilos : PasoUno(t)
MutexOK == \A t \in Cpus : MutexUno(t)
DespertadosOK == \A t \in Cpus : DespertadoUno(t)

\* While somebody is being suspended BLOCKED keeps the length it was left with.
SuspensionLlena == \A t \in Hilos : Suspende(t) => Len(blocked) + 1 = Grado

\* Nobody is twice in the queues of the mate semaphores.
ColasUnicas ==
    \A s, r \in Semaforos : \A i \in DOMAIN cola[s], j \in DOMAIN cola[r] :
        cola[s][i] = cola[r][j] => s = r /\ i = j

\* The invariant of the slots and the places, without and with the invariants
\* that hold in every regime.
Nucleo ==
    /\ MutexOK /\ DespertadosOK /\ SuspensionLlena /\ ColasUnicas
    /\ GradoConservado /\ CadaUnoEnUnLugar /\ DetenidosEncolados /\ SuspensionPendiente

Base == IndProc /\ PasosOK

IndGrado == Base /\ Nucleo

\* Only the step of the thread that moves has to be looked at.
LEMMA PasosDeUno ==
  ASSUME PasosOK, NEW t \in Hilos, SoloCambia(t), PasoUno(t)'
  PROVE  PasosOK'
BY DEF PasosOK, PasoUno, SoloCambia

\* The mutex: t may take it or leave it if no other processor can own it.
LEMMA MutexDeUno ==
  ASSUME MutexOK, NEW t \in Hilos, SoloCambia(t), t \in Cpus => MutexUno(t)',
         \A u \in Cpus : u # t => mtxSem' = mtxSem \/ mtxSem \in {Nadie, t}
  PROVE  MutexOK'
<1>1. ASSUME NEW u \in Cpus, u # t  PROVE MutexUno(u)'
  <2>1. /\ MutexUno(u) /\ pc'[u] = pc[u] /\ pedido'[u] = pedido[u]
        /\ mtxSem' = mtxSem \/ mtxSem \in {Nadie, t}
    BY <1>1, HilosDistintos DEF MutexOK, SoloCambia
  <2>2. u # Nadie
    BY NadieAssumption, HilosDistintos
  <2>. QED
    BY <1>1, <2>1, <2>2 DEF MutexUno, Durmiendo, Despierta
<1>. QED
  BY <1>1 DEF MutexOK

\* Who another thread is about to wake stays where it is, and in no queue.
LEMMA DespertadosDeUno ==
  ASSUME DespertadosOK, NEW t \in Hilos, SoloCambia(t), t \in Cpus => DespertadoUno(t)',
         \A u \in Cpus : u # t /\ Despierta(u) =>
            /\ ToSet(blocked) \subseteq ToSet(blocked')
            /\ ToSet(blockedSusp) \subseteq ToSet(blockedSusp')
            /\ Bloqueados(cola') \subseteq Bloqueados(cola)
  PROVE  DespertadosOK'
<1>1. ASSUME NEW u \in Cpus, u # t  PROVE DespertadoUno(u)'
  <2>1. DespertadoUno(u) /\ pc'[u] = pc[u] /\ mano'[u] = mano[u]
    BY <1>1, HilosDistintos DEF DespertadosOK, SoloCambia
  <2>. QED
    BY <1>1, <2>1 DEF DespertadoUno, Despierta
<1>. QED
  BY <1>1 DEF DespertadosOK

\* BLOCKED changes its length only under mutex_lista_blocked, which a
\* suspension holds.
LEMMA SuspensionDeUno ==
  ASSUME SuspensionLlena, NEW t \in Hilos, SoloCambia(t),
         Suspende(t)' => Len(blocked') + 1 = Grado,
         Len(blocked') = Len(blocked) \/ BlockedLibre
  PROVE  SuspensionLlena'
<1>1. ASSUME NEW u \in Hilos, u # t, Suspende(u)'  PROVE Len(blocked') + 1 = Grado
  <2>1. Suspende(u)
    BY <1>1 DEF SoloCambia, Suspende
  <2>2. ~BlockedLibre
    BY <2>1 DEF BlockedLibre, Suspende
  <2>. QED
    BY <2>1, <2>2 DEF SuspensionLlena
<1>. QED
  BY <1>1 DEF SuspensionLlena

\* Who is stopped, and who is in a queue or in the hands of a waker: t's share
\* and everybody else's.
DetieneUno(t, p) ==
    \/ p \in ToSet(blocked) \/ p \in ToSet(blockedSusp)
    \/ Lleva(t, p)
    \/ t \in Cpus /\ pc[t] = "bloquear" /\ lugar[t] = p
EncolaUno(t, p) == p \in Bloqueados(cola) \/ (Despierta(t) /\ mano[t] = p)
DetieneOtro(t, p) ==
    \/ \E u \in Hilos : u # t /\ Lleva(u, p)
    \/ \E u \in Cpus : u # t /\ pc[u] = "bloquear" /\ lugar[u] = p
DespiertaOtro(t, p) == \E u \in Hilos : u # t /\ Despierta(u) /\ mano[u] = p

\* DetenidosEncolados, with t's share apart from everybody else's.
LEMMA DetenidosPorHilo ==
  ASSUME NEW t \in Hilos
  PROVE  DetenidosEncolados <=>
            \A p : DetieneUno(t, p) \/ DetieneOtro(t, p) <=> EncolaUno(t, p) \/ DespiertaOtro(t, p)
<1>. DEFINE I == ToSet(blocked) \cup ToSet(blockedSusp)
                 \cup {mano[u] : u \in {v \in Hilos : pc[v] = "suspender"}}
                 \cup {lugar[u] : u \in {v \in Cpus : pc[v] = "bloquear"}}
            D == Bloqueados(cola)
                 \cup {mano[u] : u \in {v \in Hilos : pc[v] \in {"aReady", "aReadySusp"}}}
<1>1. ASSUME NEW p  PROVE p \in I <=> DetieneUno(t, p) \/ DetieneOtro(t, p)
  BY HilosDistintos DEF DetieneUno, DetieneOtro, Lleva
<1>2. ASSUME NEW p  PROVE p \in D <=> EncolaUno(t, p) \/ DespiertaOtro(t, p)
  BY DEF EncolaUno, DespiertaOtro, Despierta
<1>3. DetenidosEncolados <=> I = D
  BY DEF DetenidosEncolados
<1>. HIDE DEF I, D
<1>. QED
  BY <1>1, <1>2, <1>3

\* Stopped and queued stay the same people if both gain or both lose the same.
LEMMA DetenidosDeUno ==
  ASSUME NEW t \in Hilos, SoloCambia(t),
         \A p : DetieneUno(t, p)' \/ DetieneOtro(t, p)
                  <=> EncolaUno(t, p)' \/ DespiertaOtro(t, p)
  PROVE  DetenidosEncolados'
<1>. DEFINE I == ToSet(blocked') \cup ToSet(blockedSusp')
                 \cup {mano'[u] : u \in {v \in Hilos : pc'[v] = "suspender"}}
                 \cup {lugar'[u] : u \in {v \in Cpus : pc'[v] = "bloquear"}}
            D == Bloqueados(cola')
                 \cup {mano'[u] : u \in {v \in Hilos : pc'[v] \in {"aReady", "aReadySusp"}}}
<1>0. ASSUME NEW p
      PROVE  (DetieneOtro(t, p)' <=> DetieneOtro(t, p)) /\ (DespiertaOtro(t, p)' <=> DespiertaOtro(t, p))
  BY HilosDistintos DEF SoloCambia, DetieneOtro, DespiertaOtro, Lleva, Despierta
<1>1. ASSUME NEW p  PROVE p \in I <=> DetieneUno(t, p)' \/ DetieneOtro(t, p)'
  BY HilosDistintos DEF DetieneUno, DetieneOtro, Lleva
<1>2. ASSUME NEW p  PROVE p \in D <=> EncolaUno(t, p)' \/ DespiertaOtro(t, p)'
  BY DEF EncolaUno, DespiertaOtro, Despierta
<1>3. DetenidosEncolados' <=> I = D
  BY DEF DetenidosEncolados
<1>. HIDE DEF I, D
<1>. QED
  BY <1>0, <1>1, <1>2, <1>3

-----------------------------------------------------------------------------
\* The steps of each kind of thread.

\* Without the detector's period nobody is killed.
LEMMA SinKills ==
  ASSUME SinCarreras, PasosOK
  PROVE  ~HiloDeadlock
<1>1. pc[DL] = "detectar"
  BY HilosDistintos DEF PasosOK, PasoUno
<1>. QED
  BY <1>1 DEF SinCarreras, HiloDeadlock, Detectar, DetectarNulo, QuitarVictima, Liberar, LiberarNulo,
              UnidadSumar, UnidadDespertar, MoverAReady, MoverAReadySusp, FinKill, Borrar, En

\* Every step keeps each kind of thread in its own steps.
LEMMA PasosSiguen ==
  ASSUME SinCarreras, TypeOK, PasosOK, [Next]_vars
  PROVE  PasosOK'
<1>. USE DEF TypeOK, TiposHilos, PasoUno, En, Ir, Tomar
<1>1. CASE UNCHANGED vars
  BY <1>1 DEF PasosOK, vars, hilos
<1>2. ASSUME NEW p \in PIDs, Conectar(p) \/ HiloAtencion(p)  PROVE PasosOK'
  <2>1. Atencion(p) \in Hilos /\ Atencion(p) \in Atenciones /\ Atencion(p) \notin Cpus
        /\ Atencion(p) # LP /\ Atencion(p) # CP /\ Atencion(p) # DL
    BY HilosDistintos
  <2>2. pc'[Atencion(p)] \in {"fuera", "pasarANew", "mediano", "suspender", "avisar", "fin"}
    BY <1>2, <2>1 DEF HiloAtencion, Conectar, PasarANew, Mediano, Suspender, AvisarSuspension,
                      TrasMediano
  <2>3. PasoUno(Atencion(p))'
    BY <2>1, <2>2
  <2>. QED
    BY <1>2, <2>1, <2>3, SoloAtencion, PasosDeUno
<1>3. CASE HiloLargoPlazo
  <2>1. pc'[LP] \in {"largo", "grado", "dessuspender"}
    BY <1>3, HilosDistintos
       DEF HiloLargoPlazo, EsperarLargoPlazo, AdmitirSuspendido, AvisarDessuspension, AdmitirNuevo
  <2>2. PasoUno(LP)'
    BY <2>1, HilosDistintos
  <2>. QED
    BY <1>3, <2>2, HilosDistintos, SoloLargoPlazo, PasosDeUno
<1>4. CASE HiloCortoPlazo
  <2>1. /\ pc'[CP] \in {"ready", "procesador", "despachar"}
        /\ pc'[CP] # "despachar" => mano'[CP] = Nadie
    <3>1. CASE EsperarReady
      BY <3>1, HilosDistintos DEF EsperarReady, PasosOK
    <3>2. CASE Elegir
      BY <3>2, HilosDistintos DEF Elegir
    <3>3. CASE Despachar
      BY <3>3, HilosDistintos DEF Despachar
    <3>. QED
      BY <1>4, <3>1, <3>2, <3>3 DEF HiloCortoPlazo
  <2>2. \A t \in Hilos : t # CP => pc'[t] = pc[t] /\ mano'[t] = mano[t]
    BY <1>4, HilosDistintos DEF HiloCortoPlazo, EsperarReady, Elegir, Despachar
  <2>. QED
    BY <2>1, <2>2, HilosDistintos DEF PasosOK
<1>5. ASSUME NEW t \in Cpus, Recibir(t) \/ HiloCpu(t)  PROVE PasosOK'
  <2>1. t \in Hilos /\ t \notin Atenciones /\ t # LP /\ t # CP /\ t # DL
    BY HilosDistintos
  <2>. QED
    BY <1>5, <2>1, SoloCpu, PasosDeUno
<1>6. ASSUME NEW t \in Ios, HiloIO(t)  PROVE PasosOK'
  BY <1>6 DEF SinCarreras, Ios
<1>. QED
  BY <1>1, <1>2, <1>3, <1>4, <1>5, <1>6, SinKills DEF Next

\* The base is an invariant.
LEMMA BasePreserva ==
  ASSUME SinCarreras, Base, [Next]_vars
  PROVE  Base'
BY IndProcPreserva, PasosSiguen DEF Base, IndProc, IndInv

-----------------------------------------------------------------------------
\* What the invariant says of one carpincho and of one slot.

\* At least one slot is missing for every thread that runs, closes or suspends.
LEMMA Plazas ==
  ASSUME SinCarreras, IndInv, GradoConservado
  PROVE  /\ Len(blocked) \in Nat /\ Len(blocked) <= Grado
         /\ \A t \in Hilos : Corre(t) \/ Cierra(t) \/ Suspende(t) => Len(blocked) + 1 <= Grado
         /\ \A t, u \in Hilos : (Corre(t) \/ Cierra(t)) /\ Suspende(u) => Len(blocked) + 2 <= Grado
<1>1. /\ IsFiniteSet({t \in Cpus : ocupado[t] /\ pc[t] # "soltar"})
      /\ IsFiniteSet({t \in Cpus : Cerrando(t)})
      /\ IsFiniteSet({t \in Hilos : pc[t] \in {"suspender", "avisar"}})
  BY CpusFinitas, HilosFinitos, FS_Subset
<1>2. /\ NCorren \in Nat /\ NCierran \in Nat /\ NSuspenden \in Nat
      /\ \A t \in Hilos : Corre(t) => NCorren >= 1
      /\ \A t \in Hilos : Cierra(t) => NCierran >= 1
      /\ \A t \in Hilos : Suspende(t) => NSuspenden >= 1
  BY <1>1, AlMenosUno DEF NCorren, NCierran, NSuspenden, Corre, Cierra, Suspende
<1>3. semGrado + Len(ready) + Len(blocked) + Uno(pc[CP] = "despachar")
        + NCorren + NCierran + NSuspenden = Grado
  BY DEF GradoConservado, NCorren, NCierran, NSuspenden
<1>4. /\ semGrado \in Nat /\ Len(ready) \in Nat /\ Len(blocked) \in Nat
      /\ Uno(pc[CP] = "despachar") \in Nat
  BY LenProperties DEF IndInv, TypeOK, TiposListas, Uno
<1>5. Len(blocked) + NCorren + NCierran + NSuspenden <= Grado
  BY <1>2, <1>3, <1>4, CantidadesAssumption
<1>. QED
  BY <1>2, <1>4, <1>5, CantidadesAssumption

\* A carpincho that is in one place is in no other.
LEMMA UnSoloLugar ==
  ASSUME SinCarreras, IndInv, CadaUnoEnUnLugar, NEW p \in PIDs
  PROVE  /\ \A t \in Cpus : CorreA(t, p) \/ CierraA(t, p) =>
               /\ p \notin ToSet(blocked) /\ p \notin ToSet(blockedSusp) /\ p \notin liberados
               /\ \A u \in Hilos : ~Lleva(u, p)
               /\ \A u \in Cpus : u # t => ~CorreA(u, p) /\ ~CierraA(u, p)
         /\ p \in ToSet(blocked) =>
               /\ p \notin ToSet(blockedSusp) /\ Veces(blocked, p) = 1
               /\ \A u \in Hilos : ~Lleva(u, p)
               /\ \A u \in Cpus : ~CorreA(u, p)
         /\ p \in ToSet(blockedSusp) =>
               /\ p \notin ToSet(blocked) /\ Veces(blockedSusp, p) = 1
               /\ \A u \in Hilos : ~Lleva(u, p)
               /\ \A u \in Cpus : ~CorreA(u, p)
<1>. DEFINE A == {t \in Hilos : pc[t] = "suspender" /\ mano[t] = p}
            B == {t \in Cpus : Ejecuta(t, p)}
            C == {t \in Cpus : Cerrando(t) /\ lugar[t] = p}
            vf == Uno(pc[Atencion(p)] \in {"fuera", "pasarANew"})
            vm == Uno(mano[CP] = p)
            vl == Uno(p \in liberados)
<1>1. vf + Veces(nuevo, p) + Veces(ready, p) + Veces(blocked, p)
      + Veces(blockedSusp, p) + Veces(readySusp, p) + vm
      + Cardinality(A) + Cardinality(B) + Cardinality(C) + vl = 1
  BY DEF CadaUnoEnUnLugar
<1>2. IsFiniteSet(A) /\ IsFiniteSet(B) /\ IsFiniteSet(C)
  BY CpusFinitas, HilosFinitos, FS_Subset
<1>3. /\ \A t \in Hilos : Lleva(t, p) => t \in A
      /\ \A t \in Cpus : CorreA(t, p) => t \in B
      /\ \A t \in Cpus : CierraA(t, p) => t \in C
  BY DEF Lleva, CorreA, CierraA
<1>4. /\ vf \in Nat /\ vm \in Nat /\ vl \in Nat /\ (p \in liberados => vl = 1)
  BY DEF Uno
<1>5. /\ Veces(nuevo, p) \in Nat /\ Veces(ready, p) \in Nat /\ Veces(blocked, p) \in Nat
      /\ Veces(blockedSusp, p) \in Nat /\ Veces(readySusp, p) \in Nat
      /\ p \in ToSet(nuevo) => Veces(nuevo, p) # 0
      /\ p \in ToSet(ready) => Veces(ready, p) # 0
      /\ p \in ToSet(blocked) => Veces(blocked, p) # 0
      /\ p \in ToSet(blockedSusp) => Veces(blockedSusp, p) # 0
      /\ p \in ToSet(readySusp) => Veces(readySusp, p) # 0
  BY VecesTipo DEF IndInv, TypeOK, TiposListas
<1>. HIDE DEF A, B, C, vf, vm, vl
<1>6. /\ Cardinality(A) \in Nat /\ Cardinality(B) \in Nat /\ Cardinality(C) \in Nat
      /\ A # {} => Cardinality(A) >= 1
      /\ B # {} => Cardinality(B) >= 1
      /\ C # {} => Cardinality(C) >= 1
      /\ \A x, y \in B : x # y => Cardinality(B) >= 2
      /\ \A x, y \in C : x # y => Cardinality(C) >= 2
  BY <1>2, AlMenosUno
<1>7. Veces(blocked, p) + Veces(blockedSusp, p)
        + Cardinality(A) + Cardinality(B) + Cardinality(C) + vl <= 1
  <2>. DEFINE S == vf + Veces(nuevo, p) + Veces(ready, p)
  <2>1. S \in Nat /\ S + Veces(blocked, p) + Veces(blockedSusp, p) + Veces(readySusp, p) + vm
                       + Cardinality(A) + Cardinality(B) + Cardinality(C) + vl = 1
    BY <1>1, <1>4, <1>5
  <2>. HIDE DEF S
  <2>. QED
    BY <1>4, <1>5, <1>6, <2>1
<1>8. ASSUME B # {} \/ C # {}
      PROVE  /\ Veces(blocked, p) = 0 /\ Veces(blockedSusp, p) = 0 /\ vl = 0
             /\ A = {} /\ (B = {} \/ C = {})
             /\ \A x, y \in B : x = y
             /\ \A x, y \in C : x = y
  <2>1. Cardinality(B) >= 1 \/ Cardinality(C) >= 1
    BY <1>6, <1>8
  <2>2. /\ Veces(blocked, p) = 0 /\ Veces(blockedSusp, p) = 0 /\ vl = 0
        /\ Cardinality(A) = 0
    BY <1>4, <1>5, <1>6, <1>7, <2>1
  <2>3. Cardinality(B) + Cardinality(C) <= 1
    BY <1>4, <1>5, <1>6, <1>7
  <2>. QED
    BY <1>6, <2>1, <2>2, <2>3
<1>9. ASSUME Veces(blocked, p) # 0 \/ Veces(blockedSusp, p) # 0
      PROVE  /\ Cardinality(A) = 0 /\ Cardinality(B) = 0
             /\ Veces(blocked, p) + Veces(blockedSusp, p) = 1
  BY <1>4, <1>5, <1>6, <1>7, <1>9
<1>10. ASSUME Veces(blocked, p) # 0 \/ Veces(blockedSusp, p) # 0
       PROVE  /\ A = {} /\ B = {}
              /\ Veces(blocked, p) # 0 => Veces(blockedSusp, p) = 0 /\ Veces(blocked, p) = 1
              /\ Veces(blockedSusp, p) # 0 => Veces(blocked, p) = 0 /\ Veces(blockedSusp, p) = 1
  BY <1>5, <1>6, <1>9, <1>10
<1>. QED
  BY <1>3, <1>4, <1>5, <1>8, <1>10

-----------------------------------------------------------------------------
\* Steps that move nobody.

\* A step of t that leaves lists, queues, slots and places alone.
Interno(t) ==
    /\ UNCHANGED <<nuevo, ready, blocked, blockedSusp, readySusp, semGrado, cola, liberados>>
    /\ mano'[t] = mano[t]
    /\ \A paso \in {pc[t], pc'[t]} :
          paso \notin {"bloquear", "soltar", "mediano", "suspender", "avisar",
                       "aReady", "aReadySusp", "despachar"}
    /\ t \in Atenciones =>
          (pc'[t] \in {"fuera", "pasarANew"} <=> pc[t] \in {"fuera", "pasarANew"})
    /\ t \in Cpus => /\ lugar'[t] = lugar[t] /\ ocupado'[t] = ocupado[t]
                     /\ Cerrando(t)' <=> Cerrando(t)
                     /\ MutexUno(t)'
    /\ \A u \in Cpus : u # t => mtxSem' = mtxSem \/ mtxSem \in {Nadie, t}

\* Such a step preserves all of it.
LEMMA InternoConserva ==
  ASSUME SinCarreras, IndGrado, Base', NEW t \in Hilos, SoloCambia(t), Interno(t)
  PROVE  Nucleo'
<1>. USE DEF IndGrado, Base, Nucleo, IndProc
<1>1. MutexOK'
  BY MutexDeUno DEF Interno
<1>2. DespertadosOK'
  <2>1. t \in Cpus => DespertadoUno(t)'
    BY DEF Interno, DespertadoUno, Despierta
  <2>. QED
    BY <2>1, DespertadosDeUno DEF Interno
<1>3. SuspensionLlena'
  BY SuspensionDeUno DEF Interno, Suspende
<1>4. ColasUnicas'
  BY DEF Interno, ColasUnicas
<1>5. pc'[CP] = "despachar" <=> pc[CP] = "despachar"
  BY HilosDistintos DEF SoloCambia, Interno
<1>6. mano'[CP] = mano[CP]
  BY HilosDistintos DEF SoloCambia, Interno
<1>7. GradoConservado'
  <2>1. PesoGrado(t)' = PesoGrado(t)
    BY <1>5 DEF PesoGrado, Interno, Corre, Cierra, Suspende, Uno
  <2>. QED
    BY <2>1, GradoDeUno
<1>8. CadaUnoEnUnLugar'
  <2>1. ASSUME NEW p \in PIDs  PROVE PesoLugar(t, p)' = PesoLugar(t, p)
    <3>1. pc'[Atencion(p)] \in {"fuera", "pasarANew"} <=> pc[Atencion(p)] \in {"fuera", "pasarANew"}
      BY HilosDistintos DEF SoloCambia, Interno
    <3>2. /\ Lleva(t, p)' <=> Lleva(t, p)
          /\ CorreA(t, p)' <=> CorreA(t, p)
          /\ CierraA(t, p)' <=> CierraA(t, p)
      BY DEF Interno, Lleva, CorreA, CierraA, Ejecuta
    <3>3. /\ Uno(pc'[Atencion(p)] \in {"fuera", "pasarANew"})
               = Uno(pc[Atencion(p)] \in {"fuera", "pasarANew"})
          /\ Uno(Lleva(t, p)') = Uno(Lleva(t, p))
          /\ Uno(CorreA(t, p)') = Uno(CorreA(t, p))
          /\ Uno(CierraA(t, p)') = Uno(CierraA(t, p))
      BY <3>1, <3>2 DEF Uno
    <3>. QED
      BY <1>6, <3>3 DEF PesoLugar, EnAlta, EnMemoria, Suspendido, EnMano, EnCpu, Interno
  <2>. QED
    BY <2>1, LugarDeUno
<1>9. DetenidosEncolados'
  <2>1. ASSUME NEW p
        PROVE  (DetieneUno(t, p)' <=> DetieneUno(t, p)) /\ (EncolaUno(t, p)' <=> EncolaUno(t, p))
    BY DEF Interno, DetieneUno, EncolaUno, Lleva, Despierta
  <2>. QED
    BY <2>1, DetenidosPorHilo, DetenidosDeUno
<1>10. SuspensionPendiente'
  BY DEF SuspensionPendiente, SoloCambia, Interno
<1>. QED
  BY <1>1, <1>2, <1>3, <1>4, <1>7, <1>8, <1>9, <1>10

-----------------------------------------------------------------------------
\* Steps that move somebody.

\* The lists and the counter of slots, as the sums need them.
LEMMA TiposDeSumas ==
  ASSUME IndInv
  PROVE  /\ nuevo \in Seq(PIDs) /\ ready \in Seq(PIDs) /\ blocked \in Seq(PIDs)
         /\ blockedSusp \in Seq(PIDs) /\ readySusp \in Seq(PIDs)
         /\ semGrado \in Nat /\ Grado \in Nat
         /\ Len(ready) \in Nat /\ Len(blocked) \in Nat /\ Len(nuevo) \in Nat
         /\ \A p : /\ Veces(nuevo, p) \in Nat /\ Veces(ready, p) \in Nat
                   /\ Veces(blocked, p) \in Nat /\ Veces(blockedSusp, p) \in Nat
                   /\ Veces(readySusp, p) \in Nat
<1>1. /\ nuevo \in Seq(PIDs) /\ ready \in Seq(PIDs) /\ blocked \in Seq(PIDs)
      /\ blockedSusp \in Seq(PIDs) /\ readySusp \in Seq(PIDs) /\ semGrado \in Nat
  BY DEF IndInv, TypeOK, TiposListas
<1>. QED
  BY <1>1, VecesTipo, LenProperties, CantidadesAssumption

\* A truth value counts 0 or 1.
LEMMA UnoTipo == \A b : Uno(b) \in Nat
BY DEF Uno

\* The five parts of the sum of a place are numbers, before and after a step.
LEMMA TiposDePesos ==
  ASSUME IndInv, IndInv'
  PROVE  \A t, q : /\ EnAlta(q) \in Nat /\ EnMemoria(q) \in Nat /\ Suspendido(q) \in Nat
                   /\ EnMano(t, q) \in Nat /\ EnCpu(t, q) \in Nat
                   /\ EnAlta(q)' \in Nat /\ EnMemoria(q)' \in Nat /\ Suspendido(q)' \in Nat
                   /\ EnMano(t, q)' \in Nat /\ EnCpu(t, q)' \in Nat
<1>1. \A q : /\ Veces(nuevo, q) \in Nat /\ Veces(ready, q) \in Nat /\ Veces(blocked, q) \in Nat
            /\ Veces(blockedSusp, q) \in Nat /\ Veces(readySusp, q) \in Nat
            /\ Veces(nuevo, q)' \in Nat /\ Veces(ready, q)' \in Nat
            /\ Veces(blocked, q)' \in Nat
            /\ Veces(blockedSusp, q)' \in Nat /\ Veces(readySusp, q)' \in Nat
  BY VecesTipo DEF IndInv, TypeOK, TiposListas
<1>. QED
  BY <1>1, UnoTipo DEF EnAlta, EnMemoria, Suspendido, EnMano, EnCpu

\* What leaves one part of the sum comes to another.
LEMMA Mudanza ==
  ASSUME IndInv, IndInv', NEW t, NEW q,
         (EnAlta(q)' - EnAlta(q)) + (EnMemoria(q)' - EnMemoria(q))
           + (Suspendido(q)' - Suspendido(q)) + (EnMano(t, q)' - EnMano(t, q))
           + (EnCpu(t, q)' - EnCpu(t, q)) = 0
  PROVE  PesoLugar(t, q)' = PesoLugar(t, q)
<1>1. /\ PesoLugar(t, q) = EnAlta(q) + EnMemoria(q) + Suspendido(q) + EnMano(t, q) + EnCpu(t, q)
      /\ PesoLugar(t, q)' = EnAlta(q)' + EnMemoria(q)' + Suspendido(q)' + EnMano(t, q)'
                              + EnCpu(t, q)'
  BY DEF PesoLugar
<1>. QED
  BY <1>1, TiposDePesos

\* So are the parts of the sum of the slots that are not truth values.
LEMMA TiposDePlazas ==
  ASSUME IndInv, IndInv'
  PROVE  /\ semGrado \in Nat /\ Len(ready) \in Nat /\ Len(blocked) \in Nat
         /\ semGrado' \in Nat /\ Len(ready') \in Nat /\ Len(blocked') \in Nat
BY LenProperties DEF IndInv, TypeOK, TiposListas

\* So for the slots.
LEMMA MudanzaDePlazas ==
  ASSUME IndInv, IndInv', NEW t,
         (semGrado' - semGrado) + (Len(ready') - Len(ready)) + (Len(blocked') - Len(blocked))
           + (Uno(pc'[CP] = "despachar") - Uno(pc[CP] = "despachar"))
           + (Uno(Corre(t)') - Uno(Corre(t))) + (Uno(Cierra(t)') - Uno(Cierra(t)))
           + (Uno(Suspende(t)') - Uno(Suspende(t))) = 0
  PROVE  PesoGrado(t)' = PesoGrado(t)
<1>. DEFINE a == semGrado + Len(ready) + Len(blocked)
            b == semGrado' + Len(ready') + Len(blocked')
            c == Uno(pc[CP] = "despachar")
            d == Uno(pc'[CP] = "despachar")
            e == Uno(Corre(t))
            f == Uno(Corre(t)')
            g == Uno(Cierra(t))
            h == Uno(Cierra(t)')
            i == Uno(Suspende(t))
            j == Uno(Suspende(t)')
<1>1. PesoGrado(t) = a + c + e + g + i /\ PesoGrado(t)' = b + d + f + h + j
  BY DEF PesoGrado
<1>2. /\ a \in Nat /\ b \in Nat
      /\ (semGrado' - semGrado) + (Len(ready') - Len(ready)) + (Len(blocked') - Len(blocked))
           = b - a
  BY TiposDePlazas, SMTT(40)
<1>3. /\ c \in Nat /\ d \in Nat /\ e \in Nat /\ f \in Nat /\ g \in Nat /\ h \in Nat
      /\ i \in Nat /\ j \in Nat
  BY UnoTipo
<1>4. (semGrado' - semGrado) + (Len(ready') - Len(ready)) + (Len(blocked') - Len(blocked))
        + (d - c) + (f - e) + (h - g) + (j - i) = 0
  OBVIOUS
<1>. HIDE DEF a, b, c, d, e, f, g, h, i, j
<1>5. (b - a) + (d - c) + (f - e) + (h - g) + (j - i) = 0
  BY <1>2, <1>4
<1>6. a + c + e + g + i = b + d + f + h + j
  BY <1>2, <1>3, <1>5
<1>. QED
  BY <1>1, <1>6

\* pasar_a_new: from the connection to NEW; the medium-term scheduler is next.
LEMMA PasarANewConserva ==
  ASSUME SinCarreras, IndGrado, Base', NEW p \in PIDs, PasarANew(p)
  PROVE  Nucleo'
<1>. DEFINE t == Atencion(p)
<1>. USE DEF IndGrado, Base, Nucleo, IndProc
<1>0. /\ t \in Hilos /\ t \notin Cpus /\ t # LP /\ t # CP /\ t # DL
      /\ TypeOK /\ SoloCambia(t)
  BY HilosDistintos, SoloAtencion DEF IndInv, HiloAtencion
<1>1. /\ pc[t] = "pasarANew" /\ pc'[t] = "mediano" /\ mano'[t] = mano[t]
      /\ nuevo' = Append(nuevo, p)
      /\ UNCHANGED <<ready, blocked, blockedSusp, readySusp, semGrado, mtxSem, cola, liberados>>
  BY <1>0 DEF PasarANew, En, Ir, TypeOK, TiposHilos, sems, carpinchos
<1>. HIDE DEF t
<1>2. MutexOK' /\ DespertadosOK' /\ SuspensionLlena' /\ ColasUnicas'
  BY <1>0, <1>1, MutexDeUno, DespertadosDeUno, SuspensionDeUno DEF Suspende, ColasUnicas
<1>3. GradoConservado'
  <2>1. PesoGrado(t)' = PesoGrado(t)
    BY <1>0, <1>1, HilosDistintos DEF PesoGrado, SoloCambia, Corre, Cierra, Suspende, Uno
  <2>. QED
    BY <1>0, <2>1, GradoDeUno
<1>4. ASSUME NEW q \in PIDs  PROVE PesoLugar(t, q)' = PesoLugar(t, q)
  <2>1. Veces(nuevo, q)' = Veces(nuevo, q) + Uno(p = q)
    BY <1>1, TiposDeSumas, VecesAlFinal
  <2>2. Uno(pc[Atencion(q)] \in {"fuera", "pasarANew"}) 
          = Uno(pc'[Atencion(q)] \in {"fuera", "pasarANew"}) + Uno(p = q)
    <3>1. CASE q = p
      BY <1>1, <3>1 DEF Uno, t
    <3>2. CASE q # p
      <4>1. Atencion(q) \in Hilos /\ Atencion(q) # t
        BY <3>2, HilosDistintos DEF t, Atencion
      <4>2. pc'[Atencion(q)] = pc[Atencion(q)]
        BY <1>0, <4>1 DEF SoloCambia
      <4>. QED
        BY <3>2, <4>2 DEF Uno
    <3>. QED
      BY <3>1, <3>2
  <2>3. /\ mano'[CP] = mano[CP]
        /\ Uno(Lleva(t, q)') = Uno(Lleva(t, q))
        /\ Uno(CorreA(t, q)') = Uno(CorreA(t, q))
        /\ Uno(CierraA(t, q)') = Uno(CierraA(t, q))
    BY <1>0, <1>1, HilosDistintos DEF SoloCambia, Lleva, CorreA, CierraA, Uno
  <2>. QED
    <3>1. EnAlta(q)' = EnAlta(q)
      BY <2>1, <2>2, TiposDeSumas, UnoTipo DEF EnAlta
    <3>. QED
      BY <1>1, <2>3, <3>1 DEF PesoLugar, EnMemoria, Suspendido, EnMano, EnCpu
<1>5. CadaUnoEnUnLugar'
  BY <1>0, <1>4, LugarDeUno
<1>6. DetenidosEncolados'
  <2>1. ASSUME NEW q
        PROVE  (DetieneUno(t, q)' <=> DetieneUno(t, q)) /\ (EncolaUno(t, q)' <=> EncolaUno(t, q))
    BY <1>0, <1>1 DEF DetieneUno, EncolaUno, Lleva, Despierta
  <2>. QED
    BY <1>0, <2>1, DetenidosPorHilo, DetenidosDeUno
<1>7. SuspensionPendiente'
  BY <1>0, <1>1 DEF SuspensionPendiente
<1>. QED
  BY <1>2, <1>3, <1>5, <1>6, <1>7

\* Who is being connected, and what the dispatcher holds, do not change when
\* another thread moves.
LEMMA OtrosQuietos ==
  ASSUME NEW t \in Hilos, SoloCambia(t), t # CP,
         t \in Atenciones => {pc[t], pc'[t]} \cap {"fuera", "pasarANew"} = {}
  PROVE  /\ pc'[CP] = pc[CP] /\ mano'[CP] = mano[CP]
         /\ \A q \in PIDs : Uno(pc'[Atencion(q)] \in {"fuera", "pasarANew"})
                              = Uno(pc[Atencion(q)] \in {"fuera", "pasarANew"})
<1>1. ASSUME NEW q \in PIDs
      PROVE  Uno(pc'[Atencion(q)] \in {"fuera", "pasarANew"})
               = Uno(pc[Atencion(q)] \in {"fuera", "pasarANew"})
  <2>1. CASE Atencion(q) = t
    BY <2>1, HilosDistintos DEF Uno
  <2>2. CASE Atencion(q) # t
    BY <2>2, HilosDistintos DEF SoloCambia
  <2>. QED
    BY <2>1, <2>2
<1>. QED
  BY <1>1, HilosDistintos DEF SoloCambia

\* Nobody is about to be woken while BLOCKED is full: who wakes runs or closes,
\* and has a slot.
LEMMA LlenoSinDespertador ==
  ASSUME SinCarreras, IndGrado, Len(blocked) = Grado
  PROVE  \A u \in Cpus : ~Despierta(u) /\ ~Corre(u) /\ ~Cierra(u)
<1>1. ASSUME NEW u \in Cpus  PROVE ~Corre(u) /\ ~Cierra(u)
  BY HilosDistintos, Plazas, CantidadesAssumption DEF IndGrado, Nucleo, Base, IndProc
<1>2. ASSUME NEW u \in Cpus, Despierta(u)  PROVE Corre(u) \/ Cierra(u)
  <2>1. FaseOK(u)
    BY DEF IndGrado, Base, IndProc, FasesOK
  <2>. QED
    BY <1>2, <2>1 DEF FaseOK, Despierta, Corre, Cierra, Cerrando
<1>. QED
  BY <1>1, <1>2

\* Without devices a processor that sleeps was asked for a wait_sem, and owns
\* the mutex.
LEMMA DuermeConMutex ==
  ASSUME SinCarreras, IndGrado, NEW t \in Cpus, Durmiendo(t)
  PROVE  pedido[t].op = "ESPERAR_SEM" /\ mtxSem = t
<1>1. FaseOK(t) /\ MutexUno(t)
  BY DEF IndGrado, Base, IndProc, FasesOK, Nucleo, MutexOK
<1>2. pedido[t].op = "ESPERAR_SEM"
  BY <1>1 DEF FaseOK, SinCarreras
<1>. QED
  BY <1>1, <1>2 DEF MutexUno

\* The medium-term scheduler takes the last of BLOCKED into its hand, or finds
\* that nobody has to be suspended.
LEMMA MedianoConserva ==
  ASSUME SinCarreras, IndGrado, Base', NEW t \in Atenciones \cup Cpus, SoloCambia(t), Mediano(t)
  PROVE  Nucleo'
<1>. USE DEF IndGrado, Base, Nucleo, IndProc
<1>0. t \in Hilos /\ t # LP /\ t # CP /\ t # DL /\ (t \in Cpus => t \in Ejecutores /\ t \notin Atenciones)
  BY HilosDistintos
<1>1. /\ pc[t] = "mediano" /\ BlockedLibre
      /\ UNCHANGED <<nuevo, ready, blockedSusp, readySusp, semGrado, cola, liberados, lugar,
                     ocupado>>
  BY DEF Mediano, En, contadores, procesadores, carpinchos
<1>2. \/ /\ HayQueSuspender /\ blocked' = Front(blocked)
         /\ mano'[t] = Last(blocked) /\ pc'[t] = "suspender"
         /\ mtxSem' = mtxSem /\ pedido' = pedido
      \/ /\ ~HayQueSuspender /\ blocked' = blocked /\ mano' = mano
         /\ pc'[t] \in {"fin", "recibir"}
         /\ t \in Cpus => /\ pedido'[t] = SinPedido
                          /\ mtxSem' = IF pedido[t].op = "ESPERAR_SEM" THEN Nadie ELSE mtxSem
         /\ t \notin Cpus => mtxSem' = mtxSem
  BY <1>0 DEF Mediano, TrasMediano, Volver, Ir, Tomar, IndInv, TypeOK, TiposHilos
<1>3. /\ blocked \in Seq(PIDs) /\ Len(blocked) \in Nat /\ Len(nuevo) \in Nat
      /\ Grado \in Nat \ {0}
  BY TiposDeSumas, CantidadesAssumption
<1>4. t \in Cpus => Durmiendo(t) /\ pedido[t].op = "ESPERAR_SEM" /\ mtxSem = t
  BY <1>1, DuermeConMutex DEF Durmiendo
<1>5. HayQueSuspender => Len(blocked) = Grado /\ blocked # <<>>
  BY <1>3, EmptySeq DEF HayQueSuspender
<1>6. /\ pc'[CP] = pc[CP] /\ mano'[CP] = mano[CP]
      /\ \A q \in PIDs : Uno(pc'[Atencion(q)] \in {"fuera", "pasarANew"})
                           = Uno(pc[Atencion(q)] \in {"fuera", "pasarANew"})
  BY <1>0, <1>1, <1>2, OtrosQuietos
<1>7. /\ Corre(t)' <=> Corre(t)
      /\ ~Cierra(t) /\ ~Cierra(t)'
      /\ \A q : (CorreA(t, q)' <=> CorreA(t, q)) /\ ~CierraA(t, q) /\ ~CierraA(t, q)'
      /\ ~Suspende(t) /\ \A q : ~Lleva(t, q)
  BY <1>1, <1>2, <1>4 DEF Corre, Cierra, Cerrando, CorreA, CierraA, Ejecuta, Suspende, Lleva,
                          SinPedido
<1>8. MutexOK'
  <2>1. t \in Cpus => MutexUno(t)'
    BY <1>1, <1>2, <1>4 DEF MutexUno, Durmiendo, Despierta
  <2>2. mtxSem' = mtxSem \/ mtxSem \in {Nadie, t}
    BY <1>2, <1>4
  <2>. QED
    BY <1>0, <2>1, <2>2, MutexDeUno
<1>9. ColasUnicas'
  BY <1>1 DEF ColasUnicas
<1>10. ~Despierta(t) /\ ~Despierta(t)'
  BY <1>1, <1>2 DEF Despierta
<1>11. CASE HayQueSuspender
  <2>0. /\ blocked' = Front(blocked) /\ Last(blocked) \in PIDs
        /\ Len(blocked') = Len(blocked) - 1 /\ Len(blocked') + 1 = Grado
        /\ ToSet(blocked) = ToSet(blocked') \cup {Last(blocked)}
        /\ \A q : Veces(blocked, q) = Veces(blocked', q) + Uno(Last(blocked) = q)
        /\ mano'[t] = Last(blocked) /\ pc'[t] = "suspender"
    BY <1>2, <1>3, <1>5, <1>11, VecesDelFondo
  <2>1. DespertadosOK'
    <3>1. t \in Cpus => DespertadoUno(t)'
      BY <2>0 DEF DespertadoUno, Despierta
    <3>2. \A u \in Cpus : ~Despierta(u)
      BY <1>5, <1>11, LlenoSinDespertador
    <3>. QED
      BY <1>0, <3>1, <3>2, DespertadosDeUno
  <2>2. SuspensionLlena'
    BY <1>0, <1>1, <2>0, SuspensionDeUno
  <2>3. GradoConservado'
    <3>1. Uno(Suspende(t)) = 0 /\ Uno(Suspende(t)') = 1
      BY <1>7, <2>0 DEF Suspende, Uno
    <3>2. Uno(Corre(t)') = Uno(Corre(t)) /\ Uno(Cierra(t)') = Uno(Cierra(t))
      BY <1>7 DEF Uno
    <3>. DEFINE x == semGrado + Len(ready)
    <3>3. PesoGrado(t) = x + Len(blocked) + Uno(pc[CP] = "despachar")
                           + Uno(Corre(t)) + Uno(Cierra(t)) + Uno(Suspende(t))
      BY DEF PesoGrado
    <3>4. PesoGrado(t)' = x + Len(blocked') + Uno(pc[CP] = "despachar")
                           + Uno(Corre(t)) + Uno(Cierra(t)) + Uno(Suspende(t)')
      BY <1>1, <1>6, <3>2 DEF PesoGrado
    <3>5. x \in Nat
      BY TiposDeSumas
    <3>. HIDE DEF x
    <3>6. PesoGrado(t)' = PesoGrado(t)
      BY <1>3, <2>0, <3>1, <3>3, <3>4, <3>5, UnoTipo
    <3>. QED
      BY <1>0, <3>6, GradoDeUno
  <2>4. ASSUME NEW q \in PIDs  PROVE PesoLugar(t, q)' = PesoLugar(t, q)
    <3>1. Uno(Lleva(t, q)) = 0 /\ Uno(Lleva(t, q)') = Uno(Last(blocked) = q)
      BY <1>7, <2>0 DEF Lleva, Uno
    <3>2. Uno(CorreA(t, q)') = Uno(CorreA(t, q)) /\ Uno(CierraA(t, q)') = Uno(CierraA(t, q))
      BY <1>7 DEF Uno
    <3>3. EnAlta(q)' = EnAlta(q) /\ Suspendido(q)' = Suspendido(q) /\ EnCpu(t, q)' = EnCpu(t, q)
      BY <1>1, <1>6, <3>2 DEF EnAlta, Suspendido, EnCpu
    <3>4. EnMemoria(q) = EnMemoria(q)' + Uno(Last(blocked) = q)
      <4>1. EnMemoria(q) = Veces(ready, q) + Veces(blocked, q)
            /\ EnMemoria(q)' = Veces(ready, q) + Veces(blocked', q)
        BY <1>1 DEF EnMemoria
      <4>2. Veces(blocked', q) \in Nat /\ Veces(ready, q) \in Nat
        BY <1>3, <1>5, <1>11, <2>0, VecesDelFondo, VecesTipo, TiposDeSumas
      <4>. QED
        BY <2>0, <4>1, <4>2, UnoTipo
    <3>5. EnMano(t, q)' = EnMano(t, q) + Uno(Last(blocked) = q)
      BY <1>6, <3>1, UnoTipo DEF EnMano
    <3>. QED
      BY <3>3, <3>4, <3>5, Mudanza, TiposDePesos, UnoTipo
  <2>5. CadaUnoEnUnLugar'
    BY <1>0, <2>4, LugarDeUno
  <2>6. DetenidosEncolados'
    <3>1. ASSUME NEW q  PROVE DetieneUno(t, q)' <=> DetieneUno(t, q)
      BY <1>1, <1>7, <2>0 DEF DetieneUno, Lleva
    <3>2. ASSUME NEW q  PROVE EncolaUno(t, q)' <=> EncolaUno(t, q)
      BY <1>1, <1>10 DEF EncolaUno
    <3>. QED
      BY <1>0, <3>1, <3>2, DetenidosPorHilo, DetenidosDeUno
  <2>7. SuspensionPendiente'
    BY <1>3, <2>0 DEF SuspensionPendiente
  <2>. QED
    BY <1>8, <1>9, <2>1, <2>2, <2>3, <2>5, <2>6, <2>7
<1>12. CASE ~HayQueSuspender
  <2>0. blocked' = blocked /\ mano' = mano /\ pc'[t] \in {"fin", "recibir"}
    BY <1>2, <1>12
  <2>1. DespertadosOK'
    <3>1. t \in Cpus => DespertadoUno(t)'
      BY <2>0 DEF DespertadoUno, Despierta
    <3>. QED
      BY <1>0, <1>1, <2>0, <3>1, DespertadosDeUno
  <2>2. SuspensionLlena'
    BY <1>0, <1>1, <2>0, SuspensionDeUno DEF Suspende
  <2>3. GradoConservado'
    <3>1. ~Suspende(t)'
      BY <2>0 DEF Suspende
    <3>2. PesoGrado(t)' = PesoGrado(t)
      BY <1>1, <1>6, <1>7, <2>0, <3>1 DEF PesoGrado, Uno
    <3>. QED
      BY <1>0, <3>2, GradoDeUno
  <2>4. ASSUME NEW q \in PIDs  PROVE PesoLugar(t, q)' = PesoLugar(t, q)
    <3>1. Uno(Lleva(t, q)') = Uno(Lleva(t, q))
      BY <1>7, <2>0 DEF Lleva, Uno
    <3>2. Uno(CorreA(t, q)') = Uno(CorreA(t, q)) /\ Uno(CierraA(t, q)') = Uno(CierraA(t, q))
      BY <1>7 DEF Uno
    <3>. QED
      BY <1>1, <1>6, <2>0, <3>1, <3>2 DEF PesoLugar, EnAlta, EnMemoria, Suspendido, EnMano, EnCpu
  <2>5. CadaUnoEnUnLugar'
    BY <1>0, <2>4, LugarDeUno
  <2>6. DetenidosEncolados'
    <3>1. ASSUME NEW q  PROVE DetieneUno(t, q)' <=> DetieneUno(t, q)
      BY <1>1, <1>7, <2>0 DEF DetieneUno, Lleva
    <3>2. ASSUME NEW q  PROVE EncolaUno(t, q)' <=> EncolaUno(t, q)
      BY <1>1, <1>10 DEF EncolaUno
    <3>. QED
      BY <1>0, <3>1, <3>2, DetenidosPorHilo, DetenidosDeUno
  <2>7. SuspensionPendiente'
    <3>1. ~(Len(blocked') = Grado /\ nuevo' # <<>>)
      <4>1. Len(nuevo) > 0 <=> nuevo # <<>>
        BY <1>3, EmptySeq, LenProperties, TiposDeSumas
      <4>. QED
        BY <1>1, <1>12, <2>0, <4>1 DEF HayQueSuspender
    <3>. QED
      BY <3>1 DEF SuspensionPendiente
  <2>. QED
    BY <1>8, <1>9, <2>1, <2>2, <2>3, <2>5, <2>6, <2>7
<1>. QED
  BY <1>11, <1>12

\* It puts whom it took in BLOCKED-SUSPENDED.
LEMMA SuspenderConserva ==
  ASSUME SinCarreras, IndGrado, Base', NEW t \in Atenciones \cup Cpus, SoloCambia(t), Suspender(t)
  PROVE  Nucleo'
<1>. USE DEF IndGrado, Base, Nucleo, IndProc
<1>. DEFINE m == mano[t]
<1>0. t \in Hilos /\ t # LP /\ t # CP /\ t # DL /\ (t \in Cpus => t \in Ejecutores /\ t \notin Atenciones)
  BY HilosDistintos
<1>1. /\ pc[t] = "suspender" /\ pc'[t] = "avisar" /\ mano'[t] = Nadie /\ m \in PIDs
      /\ blockedSusp' = Append(blockedSusp, m)
      /\ UNCHANGED <<nuevo, ready, blocked, readySusp, semGrado, mtxSem, cola, liberados, lugar,
                     ocupado, pedido>>
  BY <1>0 DEF Suspender, En, Ir, Tomar, contadores, procesadores, sems, carpinchos, IndInv,
              TypeOK, TiposHilos, ControlOK, ManosOK
<1>. HIDE DEF m
<1>2. /\ ToSet(blockedSusp') = ToSet(blockedSusp) \cup {m}
      /\ \A q : Veces(blockedSusp, q)' = Veces(blockedSusp, q) + Uno(m = q)
  BY <1>1, TiposDeSumas, VecesAlFinal
<1>3. /\ pc'[CP] = pc[CP] /\ mano'[CP] = mano[CP]
      /\ \A q \in PIDs : Uno(pc'[Atencion(q)] \in {"fuera", "pasarANew"})
                           = Uno(pc[Atencion(q)] \in {"fuera", "pasarANew"})
  BY <1>0, <1>1, OtrosQuietos
<1>4. /\ Corre(t)' <=> Corre(t)
      /\ Cierra(t)' <=> Cierra(t)
      /\ \A q : (CorreA(t, q)' <=> CorreA(t, q)) /\ (CierraA(t, q)' <=> CierraA(t, q))
      /\ Suspende(t) /\ Suspende(t)'
      /\ \A q : (Lleva(t, q) <=> m = q) /\ ~Lleva(t, q)'
      /\ ~Despierta(t) /\ ~Despierta(t)'
  BY <1>1 DEF Corre, Cierra, Cerrando, CorreA, CierraA, Ejecuta, Suspende, Lleva, Despierta, m
<1>5. MutexOK'
  <2>1. t \in Cpus => MutexUno(t)'
    BY <1>1 DEF MutexUno, MutexOK, Durmiendo, Despierta
  <2>. QED
    BY <1>0, <1>1, <2>1, MutexDeUno
<1>6. DespertadosOK'
  BY <1>0, <1>1, <1>2, <1>4, DespertadosDeUno DEF DespertadoUno, Despierta
<1>7. SuspensionLlena'
  <2>1. Len(blocked) + 1 = Grado
    BY <1>0, <1>4 DEF SuspensionLlena
  <2>. QED
    BY <1>0, <1>1, <2>1, SuspensionDeUno
<1>8. ColasUnicas'
  BY <1>1 DEF ColasUnicas
<1>9. GradoConservado'
  <2>1. PesoGrado(t)' = PesoGrado(t)
    BY <1>1, <1>3, <1>4 DEF PesoGrado, Uno
  <2>. QED
    BY <1>0, <2>1, GradoDeUno
<1>10. ASSUME NEW q \in PIDs  PROVE PesoLugar(t, q)' = PesoLugar(t, q)
  <2>1. Uno(Lleva(t, q)) = Uno(m = q) /\ Uno(Lleva(t, q)') = 0
    BY <1>4 DEF Uno
  <2>2. Uno(CorreA(t, q)') = Uno(CorreA(t, q)) /\ Uno(CierraA(t, q)') = Uno(CierraA(t, q))
    BY <1>4 DEF Uno
  <2>3. EnAlta(q)' = EnAlta(q) /\ EnMemoria(q)' = EnMemoria(q) /\ EnCpu(t, q)' = EnCpu(t, q)
    BY <1>1, <1>3, <2>2 DEF EnAlta, EnMemoria, EnCpu
  <2>4. Suspendido(q)' = Suspendido(q) + Uno(m = q)
    BY <1>1, <1>2, TiposDeSumas, UnoTipo DEF Suspendido
  <2>5. EnMano(t, q) = EnMano(t, q)' + Uno(m = q)
    BY <1>3, <2>1, UnoTipo DEF EnMano
  <2>. QED
    BY <2>3, <2>4, <2>5, Mudanza, TiposDePesos, UnoTipo
<1>11. CadaUnoEnUnLugar'
  BY <1>0, <1>10, LugarDeUno
<1>12. DetenidosEncolados'
  <2>1. ASSUME NEW q  PROVE DetieneUno(t, q)' <=> DetieneUno(t, q)
    BY <1>1, <1>2, <1>4 DEF DetieneUno
  <2>2. ASSUME NEW q  PROVE EncolaUno(t, q)' <=> EncolaUno(t, q)
    BY <1>1, <1>4 DEF EncolaUno
  <2>. QED
    BY <1>0, <2>1, <2>2, DetenidosPorHilo, DetenidosDeUno
<1>13. SuspensionPendiente'
  BY <1>0, <1>1 DEF SuspensionPendiente, SoloCambia
<1>. QED
  BY <1>5, <1>6, <1>7, <1>8, <1>9, <1>11, <1>12, <1>13

\* Memoria has answered: the slot is free, and the thread goes on.
LEMMA AvisarConserva ==
  ASSUME SinCarreras, IndGrado, Base', NEW t \in Atenciones \cup Cpus, SoloCambia(t),
         AvisarSuspension(t)
  PROVE  Nucleo'
<1>. USE DEF IndGrado, Base, Nucleo, IndProc
<1>0. t \in Hilos /\ t # LP /\ t # CP /\ t # DL /\ (t \in Cpus => t \in Ejecutores /\ t \notin Atenciones)
  BY HilosDistintos
<1>1. /\ pc[t] = "avisar" /\ pc'[t] \in {"fin", "recibir"} /\ mano' = mano
      /\ semGrado' = semGrado + 1
      /\ UNCHANGED <<nuevo, ready, blocked, blockedSusp, readySusp, cola, liberados, lugar, ocupado>>
      /\ t \in Cpus => /\ pedido'[t] = SinPedido
                       /\ mtxSem' = IF pedido[t].op = "ESPERAR_SEM" THEN Nadie ELSE mtxSem
      /\ t \notin Cpus => mtxSem' = mtxSem
  BY <1>0 DEF AvisarSuspension, TrasMediano, Volver, En, Ir, listas, procesadores, carpinchos,
              IndInv, TypeOK, TiposHilos
<1>2. t \in Cpus => pedido[t].op = "ESPERAR_SEM" /\ mtxSem = t
  BY <1>1, DuermeConMutex DEF Durmiendo
<1>3. /\ pc'[CP] = pc[CP] /\ mano'[CP] = mano[CP]
      /\ \A q \in PIDs : Uno(pc'[Atencion(q)] \in {"fuera", "pasarANew"})
                           = Uno(pc[Atencion(q)] \in {"fuera", "pasarANew"})
  BY <1>0, <1>1, OtrosQuietos
<1>4. /\ Corre(t)' <=> Corre(t)
      /\ ~Cierra(t) /\ ~Cierra(t)'
      /\ \A q : (CorreA(t, q)' <=> CorreA(t, q)) /\ ~CierraA(t, q) /\ ~CierraA(t, q)'
      /\ Suspende(t) /\ ~Suspende(t)' /\ \A q : ~Lleva(t, q) /\ ~Lleva(t, q)'
      /\ ~Despierta(t) /\ ~Despierta(t)'
  BY <1>1, <1>2 DEF Corre, Cierra, Cerrando, CorreA, CierraA, Ejecuta, Suspende, Lleva, Despierta,
                    SinPedido
<1>5. MutexOK'
  <2>1. t \in Cpus => MutexUno(t)'
    BY <1>1 DEF MutexUno, Durmiendo, Despierta
  <2>2. mtxSem' = mtxSem \/ mtxSem \in {Nadie, t}
    BY <1>1, <1>2
  <2>. QED
    BY <1>0, <2>1, <2>2, MutexDeUno
<1>6. DespertadosOK'
  <2>1. t \in Cpus => DespertadoUno(t)'
    BY <1>4 DEF DespertadoUno, Despierta
  <2>. QED
    BY <1>0, <1>1, <2>1, DespertadosDeUno
<1>7. SuspensionLlena'
  BY <1>0, <1>1, <1>4, SuspensionDeUno
<1>8. ColasUnicas'
  BY <1>1 DEF ColasUnicas
<1>9. GradoConservado'
  <2>1. /\ Uno(Suspende(t)) = 1 /\ Uno(Suspende(t)') = 0
        /\ Uno(Corre(t)') = Uno(Corre(t)) /\ Uno(Cierra(t)') = Uno(Cierra(t))
    BY <1>4 DEF Uno
  <2>2. PesoGrado(t)' = PesoGrado(t)
    BY <1>1, <1>3, <2>1, MudanzaDePlazas, TiposDePlazas, UnoTipo, SMTT(40)
  <2>. QED
    BY <1>0, <2>2, GradoDeUno
<1>10. ASSUME NEW q \in PIDs  PROVE PesoLugar(t, q)' = PesoLugar(t, q)
  <2>1. /\ Uno(Lleva(t, q)') = Uno(Lleva(t, q))
        /\ Uno(CorreA(t, q)') = Uno(CorreA(t, q)) /\ Uno(CierraA(t, q)') = Uno(CierraA(t, q))
    BY <1>4 DEF Uno
  <2>. QED
    BY <1>1, <1>3, <2>1 DEF PesoLugar, EnAlta, EnMemoria, Suspendido, EnMano, EnCpu
<1>11. CadaUnoEnUnLugar'
  BY <1>0, <1>10, LugarDeUno
<1>12. DetenidosEncolados'
  <2>1. ASSUME NEW q  PROVE DetieneUno(t, q)' <=> DetieneUno(t, q)
    BY <1>1, <1>4 DEF DetieneUno
  <2>2. ASSUME NEW q  PROVE EncolaUno(t, q)' <=> EncolaUno(t, q)
    BY <1>1, <1>4 DEF EncolaUno
  <2>. QED
    BY <1>0, <2>1, <2>2, DetenidosPorHilo, DetenidosDeUno
<1>13. SuspensionPendiente'
  <2>1. Len(blocked) + 1 = Grado
    BY <1>0, <1>4 DEF SuspensionLlena
  <2>2. Len(blocked') # Grado
    BY <1>1, <2>1, TiposDeSumas
  <2>. QED
    BY <2>2 DEF SuspensionPendiente
<1>. QED
  BY <1>5, <1>6, <1>7, <1>8, <1>9, <1>11, <1>12, <1>13

\* A thread that is not a processor runs and closes nobody.
LEMMA NoEsProcesador ==
  ASSUME NEW t, t \notin Cpus
  PROVE  /\ ~Corre(t) /\ ~Corre(t)' /\ ~Cierra(t) /\ ~Cierra(t)'
         /\ \A q : ~CorreA(t, q) /\ ~CorreA(t, q)' /\ ~CierraA(t, q) /\ ~CierraA(t, q)'
BY DEF Corre, Cierra, CorreA, CierraA

\* The long-term scheduler gives a slot to the first of READY-SUSPENDED, or to
\* the first of NEW, and puts it in READY.
LEMMA AdmitirConserva ==
  ASSUME SinCarreras, IndGrado, Base', AdmitirSuspendido \/ AdmitirNuevo
  PROVE  Nucleo'
<1>. USE DEF IndGrado, Base, Nucleo, IndProc
<1>0. /\ LP \in Hilos /\ LP \notin Cpus /\ LP \notin Atenciones /\ LP # CP /\ LP # DL
      /\ SoloCambia(LP)
  <2>1. TypeOK
    BY DEF IndInv
  <2>. QED
    BY <2>1, HilosDistintos, SoloLargoPlazo DEF HiloLargoPlazo
<1>1. /\ pc[LP] = "grado" /\ pc'[LP] \in {"dessuspender", "largo"} /\ mano' = mano
      /\ semGrado > 0 /\ semGrado' = semGrado - 1
      /\ UNCHANGED <<blocked, blockedSusp, mtxSem, cola, liberados>>
  BY <1>0 DEF AdmitirSuspendido, AdmitirNuevo, En, Ir, sems, carpinchos, IndInv, TypeOK, TiposHilos
<1>2. PICK e \in PIDs :
         /\ ready' = Append(ready, e)
         /\ \/ /\ readySusp # <<>> /\ readySusp' = Tail(readySusp) /\ e = Head(readySusp)
               /\ nuevo' = nuevo
            \/ /\ nuevo # <<>> /\ nuevo' = Tail(nuevo) /\ e = Head(nuevo)
               /\ readySusp' = readySusp
  <2>1. CASE AdmitirSuspendido
    BY <2>1, TiposDeSumas, VecesDelFrente DEF AdmitirSuspendido
  <2>2. CASE AdmitirNuevo
    <3>1. Len(nuevo) + Len(readySusp) > 0
      <4>1. Uno(pc[LP] = "grado") = 1
        BY <1>1 DEF Uno
      <4>2. semLargo + 1 = Len(nuevo) + Len(readySusp) /\ semLargo \in Nat
        BY <4>1 DEF IndInv, FichasDeListas, TypeOK, TiposListas
      <4>. QED
        BY <4>2
    <3>2. nuevo # <<>>
      BY <2>2, <3>1, EmptySeq, TiposDeSumas DEF AdmitirNuevo
    <3>. QED
      BY <2>2, <3>2, TiposDeSumas, VecesDelFrente DEF AdmitirNuevo
  <2>. QED
    BY <2>1, <2>2
<1>3. /\ Len(ready') = Len(ready) + 1
      /\ \A q : Veces(ready, q)' = Veces(ready, q) + Uno(e = q)
      /\ \/ /\ nuevo' = nuevo
            /\ \A q : Veces(readySusp, q) = Veces(readySusp, q)' + Uno(e = q)
         \/ /\ readySusp' = readySusp /\ nuevo # <<>>
            /\ \A q : Veces(nuevo, q) = Veces(nuevo, q)' + Uno(e = q)
  <2>1. /\ nuevo \in Seq(PIDs) /\ ready \in Seq(PIDs) /\ readySusp \in Seq(PIDs)
    BY TiposDeSumas
  <2>2. /\ Len(ready') = Len(ready) + 1
        /\ \A q : Veces(ready, q)' = Veces(ready, q) + Uno(e = q)
    BY <1>2, <2>1, VecesAlFinal
  <2>3. CASE /\ readySusp # <<>> /\ readySusp' = Tail(readySusp) /\ e = Head(readySusp)
             /\ nuevo' = nuevo
    <3>1. \A q : Veces(readySusp, q) = Veces(readySusp, q)' + Uno(e = q)
      BY <2>1, <2>3, VecesDelFrente
    <3>. QED
      BY <2>2, <2>3, <3>1
  <2>4. CASE /\ nuevo # <<>> /\ nuevo' = Tail(nuevo) /\ e = Head(nuevo)
             /\ readySusp' = readySusp
    <3>1. \A q : Veces(nuevo, q) = Veces(nuevo, q)' + Uno(e = q)
      BY <2>1, <2>4, VecesDelFrente
    <3>. QED
      BY <2>2, <2>4, <3>1
  <2>. QED
    BY <1>2, <2>3, <2>4
<1>4. /\ pc'[CP] = pc[CP] /\ mano'[CP] = mano[CP]
      /\ \A q \in PIDs : Uno(pc'[Atencion(q)] \in {"fuera", "pasarANew"})
                           = Uno(pc[Atencion(q)] \in {"fuera", "pasarANew"})
  BY <1>0, OtrosQuietos
<1>5. /\ ~Suspende(LP) /\ ~Suspende(LP)' /\ \A q : ~Lleva(LP, q) /\ ~Lleva(LP, q)'
      /\ ~Despierta(LP) /\ ~Despierta(LP)'
  BY <1>1 DEF Suspende, Lleva, Despierta
<1>6. MutexOK' /\ DespertadosOK' /\ SuspensionLlena' /\ ColasUnicas'
  BY <1>0, <1>1, <1>5, MutexDeUno, DespertadosDeUno, SuspensionDeUno DEF ColasUnicas
<1>7. GradoConservado'
  <2>1. /\ Uno(Suspende(LP)') = Uno(Suspende(LP))
        /\ Uno(Corre(LP)') = Uno(Corre(LP)) /\ Uno(Cierra(LP)') = Uno(Cierra(LP))
    BY <1>0, <1>5, NoEsProcesador DEF Uno
  <2>2. PesoGrado(LP)' = PesoGrado(LP)
    BY <1>1, <1>3, <1>4, <2>1, MudanzaDePlazas, TiposDePlazas, UnoTipo
  <2>. QED
    BY <1>0, <2>2, GradoDeUno
<1>8. ASSUME NEW q \in PIDs  PROVE PesoLugar(LP, q)' = PesoLugar(LP, q)
  <2>1. /\ Uno(Lleva(LP, q)') = Uno(Lleva(LP, q))
        /\ Uno(CorreA(LP, q)') = Uno(CorreA(LP, q)) /\ Uno(CierraA(LP, q)') = Uno(CierraA(LP, q))
    BY <1>0, <1>5, NoEsProcesador DEF Uno
  <2>2. EnMano(LP, q)' = EnMano(LP, q) /\ EnCpu(LP, q)' = EnCpu(LP, q)
    BY <1>1, <1>4, <2>1 DEF EnMano, EnCpu
  <2>3. EnMemoria(q)' = EnMemoria(q) + Uno(e = q)
    BY <1>1, <1>3, TiposDeSumas, UnoTipo DEF EnMemoria
  <2>. DEFINE a == Uno(pc[Atencion(q)] \in {"fuera", "pasarANew"})
  <2>4. /\ EnAlta(q) = a + Veces(nuevo, q) /\ EnAlta(q)' = a + Veces(nuevo, q)'
        /\ Suspendido(q) = Veces(blockedSusp, q) + Veces(readySusp, q)
        /\ Suspendido(q)' = Veces(blockedSusp, q) + Veces(readySusp, q)'
        /\ a \in Nat
    BY <1>1, <1>4, UnoTipo DEF EnAlta, Suspendido
  <2>5. /\ Veces(nuevo, q) \in Nat /\ Veces(nuevo, q)' \in Nat /\ Veces(blockedSusp, q) \in Nat
        /\ Veces(readySusp, q) \in Nat /\ Veces(readySusp, q)' \in Nat
    BY TiposDeSumas, VecesTipo DEF IndInv, TypeOK, TiposListas
  <2>. HIDE DEF a
  <2>6. (EnAlta(q)' - EnAlta(q)) + (Suspendido(q)' - Suspendido(q)) = 0 - Uno(e = q)
    <3>1. CASE /\ nuevo' = nuevo
               /\ Veces(readySusp, q) = Veces(readySusp, q)' + Uno(e = q)
      <4>1. EnAlta(q)' = EnAlta(q)
        BY <2>4, <3>1
      <4>2. Suspendido(q) = Suspendido(q)' + Uno(e = q)
        BY <2>4, <2>5, <3>1, UnoTipo
      <4>. QED
        BY <4>1, <4>2, TiposDePesos, UnoTipo
    <3>2. CASE /\ readySusp' = readySusp
               /\ Veces(nuevo, q) = Veces(nuevo, q)' + Uno(e = q)
      <4>1. Suspendido(q)' = Suspendido(q)
        BY <2>4, <3>2
      <4>2. EnAlta(q) = EnAlta(q)' + Uno(e = q)
        BY <2>4, <2>5, <3>2, UnoTipo
      <4>. QED
        BY <4>1, <4>2, TiposDePesos, UnoTipo
    <3>. QED
      BY <1>3, <3>1, <3>2
  <2>. QED
    BY <2>2, <2>3, <2>6, Mudanza, TiposDePesos, UnoTipo
<1>9. CadaUnoEnUnLugar'
  BY <1>0, <1>8, LugarDeUno
<1>10. DetenidosEncolados'
  <2>1. ASSUME NEW q  PROVE DetieneUno(LP, q)' <=> DetieneUno(LP, q)
    BY <1>0, <1>1, <1>5 DEF DetieneUno
  <2>2. ASSUME NEW q  PROVE EncolaUno(LP, q)' <=> EncolaUno(LP, q)
    BY <1>1, <1>5 DEF EncolaUno
  <2>. QED
    BY <1>0, <2>1, <2>2, DetenidosPorHilo, DetenidosDeUno
<1>11. SuspensionPendiente'
  <2>1. nuevo' # <<>> => nuevo # <<>>
    BY <1>3
  <2>2. \A t \in Hilos : pc[t] \in {"soltar", "mediano"} => pc'[t] = pc[t]
    BY <1>0, <1>1 DEF SoloCambia
  <2>. QED
    BY <1>1, <2>1, <2>2 DEF SuspensionPendiente
<1>. QED
  BY <1>6, <1>7, <1>9, <1>10, <1>11

\* The short-term scheduler takes one out of READY.
LEMMA ElegirConserva ==
  ASSUME SinCarreras, IndGrado, Base', Elegir
  PROVE  Nucleo'
<1>. USE DEF IndGrado, Base, Nucleo, IndProc
<1>0. /\ CP \in Hilos /\ CP \notin Cpus /\ CP \notin Atenciones /\ CP # LP /\ CP # DL
      /\ SoloCambia(CP)
  BY HilosDistintos DEF Elegir, SoloCambia, Ir, Tomar, procesadores, IndInv, TypeOK, TiposHilos
<1>1. PICK i \in DOMAIN ready : ready' = RemoveAt(ready, i) /\ Tomar(CP, ready[i])
  BY DEF Elegir
<1>. DEFINE e == ready[i]
<1>2. /\ pc[CP] = "procesador" /\ pc'[CP] = "despachar" /\ mano'[CP] = e /\ mano[CP] = Nadie
      /\ UNCHANGED <<nuevo, blocked, blockedSusp, readySusp, semGrado, mtxSem, cola, liberados>>
  BY <1>0, <1>1 DEF Elegir, En, Ir, Tomar, sems, carpinchos, IndInv, TypeOK, TiposHilos, PasosOK, PasoUno
<1>3. /\ e \in PIDs /\ Len(ready') = Len(ready) - 1
      /\ \A q : Veces(ready, q) = Veces(ready, q)' + Uno(e = q)
  BY <1>1, TiposDeSumas, VecesRemoveAt
<1>. HIDE DEF e
<1>4. \A q \in PIDs : Uno(pc'[Atencion(q)] \in {"fuera", "pasarANew"})
                           = Uno(pc[Atencion(q)] \in {"fuera", "pasarANew"})
  BY <1>0, HilosDistintos DEF SoloCambia
<1>5. /\ ~Suspende(CP) /\ ~Suspende(CP)' /\ \A q : ~Lleva(CP, q) /\ ~Lleva(CP, q)'
      /\ ~Despierta(CP) /\ ~Despierta(CP)'
  BY <1>2 DEF Suspende, Lleva, Despierta
<1>6. MutexOK' /\ DespertadosOK' /\ SuspensionLlena' /\ ColasUnicas'
  BY <1>0, <1>2, <1>5, MutexDeUno, DespertadosDeUno, SuspensionDeUno DEF ColasUnicas
<1>7. GradoConservado'
  <2>1. /\ Uno(Suspende(CP)') = Uno(Suspende(CP))
        /\ Uno(Corre(CP)') = Uno(Corre(CP)) /\ Uno(Cierra(CP)') = Uno(Cierra(CP))
        /\ Uno(pc[CP] = "despachar") = 0 /\ Uno(pc'[CP] = "despachar") = 1
    BY <1>0, <1>2, <1>5, NoEsProcesador DEF Uno
  <2>2. PesoGrado(CP)' = PesoGrado(CP)
    BY <1>2, <1>3, <2>1, MudanzaDePlazas, TiposDePlazas, UnoTipo
  <2>. QED
    BY <1>0, <2>2, GradoDeUno
<1>8. ASSUME NEW q \in PIDs  PROVE PesoLugar(CP, q)' = PesoLugar(CP, q)
  <2>1. /\ Uno(Lleva(CP, q)') = Uno(Lleva(CP, q))
        /\ Uno(CorreA(CP, q)') = Uno(CorreA(CP, q)) /\ Uno(CierraA(CP, q)') = Uno(CierraA(CP, q))
    BY <1>0, <1>5, NoEsProcesador DEF Uno
  <2>2. EnAlta(q)' = EnAlta(q) /\ Suspendido(q)' = Suspendido(q) /\ EnCpu(CP, q)' = EnCpu(CP, q)
    BY <1>2, <1>4, <2>1 DEF EnAlta, Suspendido, EnCpu
  <2>3. EnMemoria(q) = EnMemoria(q)' + Uno(e = q)
    <3>1. /\ EnMemoria(q) = Veces(ready, q) + Veces(blocked, q)
          /\ EnMemoria(q)' = Veces(ready, q)' + Veces(blocked, q)
      BY <1>2 DEF EnMemoria
    <3>2. /\ Veces(ready, q) \in Nat /\ Veces(ready, q)' \in Nat /\ Veces(blocked, q) \in Nat
      BY TiposDeSumas, VecesTipo DEF IndInv, TypeOK, TiposListas
    <3>. QED
      BY <1>3, <3>1, <3>2, UnoTipo
  <2>4. EnMano(CP, q)' = EnMano(CP, q) + Uno(e = q)
    <3>1. Uno(mano[CP] = q) = 0
      BY <1>2, NadieAssumption DEF Uno
    <3>. QED
      BY <1>2, <2>1, <3>1, UnoTipo DEF EnMano
  <2>. QED
    BY <2>2, <2>3, <2>4, Mudanza, TiposDePesos, UnoTipo
<1>9. CadaUnoEnUnLugar'
  BY <1>0, <1>8, LugarDeUno
<1>10. DetenidosEncolados'
  <2>1. ASSUME NEW q  PROVE DetieneUno(CP, q)' <=> DetieneUno(CP, q)
    BY <1>0, <1>2, <1>5 DEF DetieneUno
  <2>2. ASSUME NEW q  PROVE EncolaUno(CP, q)' <=> EncolaUno(CP, q)
    BY <1>2, <1>5 DEF EncolaUno
  <2>. QED
    BY <1>0, <2>1, <2>2, DetenidosPorHilo, DetenidosDeUno
<1>11. SuspensionPendiente'
  <2>1. \A t \in Hilos : pc[t] \in {"soltar", "mediano"} => pc'[t] = pc[t]
    BY <1>0, <1>2 DEF SoloCambia
  <2>. QED
    BY <1>2, <2>1 DEF SuspensionPendiente
<1>. QED
  BY <1>6, <1>7, <1>9, <1>10, <1>11

\* The dispatcher gives the carpincho in its hand to a free processor, which is
\* not closing another one: with one processor the tokens would not balance.
LEMMA DespacharConserva ==
  ASSUME SinCarreras, IndGrado, Base', Despachar
  PROVE  Nucleo'
<1>. USE DEF IndGrado, Base, Nucleo, IndProc
<1>. DEFINE p == mano[CP]
<1>0. TypeOK /\ FasesOK /\ IndInv'
  BY DEF IndInv
<1>1. PICK t \in Cpus : /\ ProcesadorLibre(t)
                        /\ lugar' = [lugar EXCEPT ![t] = p]
                        /\ ocupado' = [ocupado EXCEPT ![t] = TRUE]
  BY DEF Despachar
<1>2. /\ pc[CP] = "despachar" /\ pc'[CP] = "ready" /\ mano'[CP] = Nadie /\ p \in PIDs
      /\ \A u \in Hilos : u # CP => pc'[u] = pc[u] /\ mano'[u] = mano[u]
      /\ pedido' = pedido
      /\ \A u \in Cpus : u # t => ocupado'[u] = ocupado[u] /\ lugar'[u] = lugar[u]
      /\ ~ocupado[t] /\ ocupado'[t] /\ lugar'[t] = p
      /\ UNCHANGED <<nuevo, ready, blocked, blockedSusp, readySusp, semGrado, mtxSem, cola,
                     liberados>>
  BY <1>0, <1>1, HilosDistintos, ZenonT(60)
     DEF Despachar, ProcesadorLibre, En, Ir, Tomar, listas, contadores, sems, IndInv, TypeOK,
         TiposHilos, TiposProcesadores, ControlOK, ManosOK
<1>. HIDE DEF p
<1>3. \A u \in Cpus : u \in Hilos /\ u # CP /\ pc'[u] = pc[u] /\ mano'[u] = mano[u]
  BY <1>2, HilosDistintos
<1>4. pc[t] \notin {"soltar", "bloquear"}
  BY <1>0, <1>2 DEF FasesOK, FaseOK, EnCurso
<1>5. ~Cerrando(t)
  <2>. SUFFICES ASSUME Cerrando(t)  PROVE FALSE
    OBVIOUS
  <2>1. "CLOSE" \in Llamadas
    BY <1>0 DEF Cerrando, FasesOK, FaseOK, SinPedido
  <2>2. IsFiniteSet(Cpus) /\ Cardinality(Cpus) = 1
    BY <2>1, CpusFinitas DEF SinCarreras
  <2>3. {u \in Cpus : ~ocupado[u]} \subseteq Cpus /\ {u \in Cpus : Cerrando(u)} \subseteq Cpus
    OBVIOUS
  <2>4. NLibres \in Nat /\ NLibres <= 1
    BY <2>2, <2>3, FS_Subset, FS_CardinalityType DEF NLibres
  <2>5. NCierran \in Nat /\ NCierran >= 1
    BY <2>2, <2>3, FS_Subset, AlMenosUno DEF NCierran
  <2>6. semProc + 1 + NCierran = NLibres
    <3>1. Uno(pc[CP] = "despachar") = 1
      BY <1>2 DEF Uno
    <3>. QED
      BY <3>1 DEF FichasDeProcesadores, NCierran, NLibres
  <2>7. semProc \in Nat
    BY <1>0 DEF TypeOK, TiposListas
  <2>. QED
    BY <2>4, <2>5, <2>6, <2>7
<1>6. MutexOK' /\ DespertadosOK'
  BY <1>2, <1>3 DEF MutexOK, MutexUno, DespertadosOK, DespertadoUno, Durmiendo, Despierta
<1>7. SuspensionLlena' /\ ColasUnicas' /\ SuspensionPendiente'
  BY <1>2 DEF SuspensionLlena, Suspende, ColasUnicas, SuspensionPendiente
<1>8. /\ NCorren \in Nat /\ NCorren' = NCorren + 1
      /\ NCierran' = NCierran /\ NSuspenden' = NSuspenden
  <2>. DEFINE A == {u \in Cpus : ocupado[u] /\ pc[u] # "soltar"}
              B == {u \in Cpus : ocupado'[u] /\ pc'[u] # "soltar"}
  <2>1. DifierenEn(Cpus, A, B, t) /\ t \notin A /\ t \in B
    BY <1>2, <1>3, <1>4 DEF DifierenEn
  <2>2. NCorren = Cardinality(A) /\ NCorren' = Cardinality(B)
    BY DEF NCorren
  <2>. HIDE DEF A, B
  <2>3. /\ Cardinality(A) \in Nat /\ Cardinality(B) \in Nat
        /\ Cardinality(B) = Cardinality(A) + (IF t \in B THEN 1 ELSE 0) - (IF t \in A THEN 1 ELSE 0)
    BY <2>1, CpusFinitas, CambiaUno
  <2>4. NCierran' = NCierran
    BY <1>2, <1>3 DEF NCierran, Cerrando
  <2>5. NSuspenden' = NSuspenden
    BY <1>2 DEF NSuspenden
  <2>. QED
    BY <2>1, <2>2, <2>3, <2>4, <2>5
<1>9. GradoConservado'
  <2>1. Uno(pc[CP] = "despachar") = 1 /\ Uno(pc'[CP] = "despachar") = 0
    BY <1>2 DEF Uno
  <2>. DEFINE x == semGrado + Len(ready) + Len(blocked)
  <2>2. x + 1 + NCorren + NCierran + NSuspenden = Grado
    BY <2>1 DEF GradoConservado, NCorren, NCierran, NSuspenden
  <2>3. x \in Nat
    BY TiposDeSumas
  <2>4. x' = x
    BY <1>2
  <2>5. GradoConservado' <=> x' + Uno(pc'[CP] = "despachar") + NCorren' + NCierran' + NSuspenden' = Grado
    BY DEF GradoConservado, NCorren, NCierran, NSuspenden
  <2>. HIDE DEF x
  <2>6. x' + Uno(pc'[CP] = "despachar") + NCorren' = x + 1 + NCorren
    BY <1>8, <2>1, <2>3, <2>4
  <2>. QED
    BY <1>8, <2>2, <2>5, <2>6
<1>10. ASSUME NEW q \in PIDs
       PROVE  /\ NCorrenA(q) \in Nat /\ NCorrenA(q)' = NCorrenA(q) + Uno(p = q)
              /\ NCierranA(q)' = NCierranA(q) /\ NLlevan(q)' = NLlevan(q)
  <2>. DEFINE A == {u \in Cpus : Ejecuta(u, q)}
              B == {u \in Cpus : Ejecuta(u, q)'}
  <2>1. DifierenEn(Cpus, A, B, t) /\ t \notin A /\ (t \in B <=> p = q)
    BY <1>2, <1>3, <1>4 DEF DifierenEn, Ejecuta
  <2>2. NCorrenA(q) = Cardinality(A) /\ NCorrenA(q)' = Cardinality(B)
    BY DEF NCorrenA
  <2>. HIDE DEF A, B
  <2>3. /\ Cardinality(A) \in Nat /\ Cardinality(B) \in Nat
        /\ Cardinality(B) = Cardinality(A) + (IF t \in B THEN 1 ELSE 0) - (IF t \in A THEN 1 ELSE 0)
    BY <2>1, CpusFinitas, CambiaUno
  <2>4. NCierranA(q)' = NCierranA(q)
    <3>1. \A u \in Cpus : (Cerrando(u)' /\ lugar'[u] = q) <=> (Cerrando(u) /\ lugar[u] = q)
      BY <1>2, <1>3, <1>5 DEF Cerrando
    <3>. QED
      BY <3>1 DEF NCierranA
  <2>5. NLlevan(q)' = NLlevan(q)
    BY <1>2 DEF NLlevan
  <2>. QED
    BY <2>1, <2>2, <2>3, <2>4, <2>5 DEF Uno
<1>11. CadaUnoEnUnLugar'
  <2>. SUFFICES ASSUME NEW q \in PIDs
                PROVE  Uno(pc'[Atencion(q)] \in {"fuera", "pasarANew"})
                       + Veces(nuevo, q)' + Veces(ready, q)' + Veces(blocked, q)'
                       + Veces(blockedSusp, q)' + Veces(readySusp, q)'
                       + Uno(mano'[CP] = q)
                       + NLlevan(q)' + NCorrenA(q)' + NCierranA(q)'
                       + Uno(q \in liberados') = 1
    BY DEF CadaUnoEnUnLugar, NLlevan, NCorrenA, NCierranA
  <2>. DEFINE x == Uno(pc[Atencion(q)] \in {"fuera", "pasarANew"})
                   + Veces(nuevo, q) + Veces(ready, q) + Veces(blocked, q)
                   + Veces(blockedSusp, q) + Veces(readySusp, q)
              y == NLlevan(q)
  <2>1. x + Uno(p = q) + y + NCorrenA(q) + NCierranA(q) + Uno(q \in liberados) = 1
    BY DEF CadaUnoEnUnLugar, NLlevan, NCorrenA, NCierranA, p
  <2>2. x' = x /\ y' = y
    <3>1. pc'[Atencion(q)] = pc[Atencion(q)]
      BY <1>2, HilosDistintos
    <3>. QED
      BY <1>2, <1>10, <3>1
  <2>3. Uno(mano'[CP] = q) = 0
    BY <1>2, NadieAssumption DEF Uno
  <2>4. x \in Nat /\ y \in Nat
    <3>1. IsFiniteSet({u \in Hilos : pc[u] = "suspender" /\ mano[u] = q})
      BY HilosFinitos, FS_Subset
    <3>2. y \in Nat
      BY <3>1, FS_CardinalityType DEF NLlevan
    <3>. QED
      BY <3>2, TiposDeSumas, UnoTipo, SMTT(40)
  <2>. HIDE DEF x, y
  <2>5. x + 0 + y + NCorrenA(q)' = x + Uno(p = q) + y + NCorrenA(q)
    BY <1>10, <2>4, UnoTipo
  <2>6. x' + Uno(mano'[CP] = q) + y' + NCorrenA(q)' + NCierranA(q)' + Uno(q \in liberados') = 1
    BY <1>2, <1>10, <2>1, <2>2, <2>3, <2>5
  <2>. QED
    BY <2>6 DEF x, y
<1>12. DetenidosEncolados'
  <2>1. {u \in Hilos : pc'[u] = "suspender"} = {u \in Hilos : pc[u] = "suspender"}
        /\ {u \in Hilos : pc'[u] \in {"aReady", "aReadySusp"}}
             = {u \in Hilos : pc[u] \in {"aReady", "aReadySusp"}}
        /\ {u \in Cpus : pc'[u] = "bloquear"} = {u \in Cpus : pc[u] = "bloquear"}
    BY <1>2, <1>3
  <2>2. /\ {mano'[u] : u \in {v \in Hilos : pc[v] = "suspender"}}
             = {mano[u] : u \in {v \in Hilos : pc[v] = "suspender"}}
        /\ {mano'[u] : u \in {v \in Hilos : pc[v] \in {"aReady", "aReadySusp"}}}
             = {mano[u] : u \in {v \in Hilos : pc[v] \in {"aReady", "aReadySusp"}}}
        /\ {lugar'[u] : u \in {v \in Cpus : pc[v] = "bloquear"}}
             = {lugar[u] : u \in {v \in Cpus : pc[v] = "bloquear"}}
    BY <1>2, <1>4
  <2>. QED
    BY <1>2, <2>1, <2>2 DEF DetenidosEncolados
<1>. QED
  BY <1>6, <1>7, <1>9, <1>11, <1>12

-----------------------------------------------------------------------------
\* The steps of a processor.

\* While t may take the mutex of the semaphores, or closes, no other processor
\* sleeps in wait_sem or wakes anybody.
LEMMA SoloUno ==
  ASSUME SinCarreras, IndGrado, NEW t \in Cpus, mtxSem \in {Nadie, t} \/ "CLOSE" \in Llamadas
  PROVE  /\ \A u \in Cpus : u # t => /\ ~Despierta(u) /\ pc[u] # "bloquear"
                                     /\ mtxSem \in {Nadie, t}
         /\ \A u \in Hilos : u # t => ~Despierta(u)
         /\ \A p : /\ ~DespiertaOtro(t, p)
                   /\ DetieneOtro(t, p) <=> \E u \in Hilos : u # t /\ Lleva(u, p)
<1>1. ASSUME NEW u \in Cpus, u # t
      PROVE  ~Despierta(u) /\ pc[u] # "bloquear" /\ mtxSem \in {Nadie, t}
  <2>1. CASE "CLOSE" \in Llamadas
    <3>1. NumProcesadores = 1
      BY <2>1 DEF SinCarreras
    <3>2. u = t
      BY <3>1 DEF Cpus
    <3>. QED
      BY <1>1, <3>2
  <2>2. CASE "CLOSE" \notin Llamadas
    <3>1. FaseOK(u) /\ MutexUno(u)
      BY DEF IndGrado, Base, IndProc, FasesOK, Nucleo, MutexOK
    <3>2. pedido[u].op # "CLOSE"
      BY <2>2, <3>1 DEF FaseOK, SinPedido
    <3>3. u # Nadie
      BY NadieAssumption, HilosDistintos
    <3>. QED
      BY <1>1, <2>2, <3>1, <3>2, <3>3 DEF MutexUno, Durmiendo
  <2>. QED
    BY <2>1, <2>2
<1>2. ASSUME NEW u \in Hilos, u # t  PROVE ~Despierta(u)
  <2>1. CASE u \in Cpus
    BY <1>1, <1>2, <2>1
  <2>2. CASE u \notin Cpus
    <3>1. PasoUno(u)
      BY DEF IndGrado, Base, PasosOK
    <3>2. u \in Atenciones \/ u \in {LP, CP, DL}
      BY <2>2 DEF SinCarreras, Hilos, Ios
    <3>. QED
      BY <3>1, <3>2 DEF PasoUno, Despierta
  <2>. QED
    BY <2>1, <2>2
<1>. QED
  BY <1>1, <1>2 DEF DespiertaOtro, DetieneOtro

\* Whom a processor runs or closes is in no queue.
LEMMA NoEncolado ==
  ASSUME SinCarreras, IndGrado, NEW t \in Cpus, mtxSem \in {Nadie, t} \/ "CLOSE" \in Llamadas,
         NEW p \in PIDs, CorreA(t, p) \/ CierraA(t, p), pc[t] # "bloquear"
  PROVE  p \notin Bloqueados(cola)
<1>0. IndInv /\ CadaUnoEnUnLugar /\ DetenidosEncolados
  BY DEF IndGrado, Base, IndProc, Nucleo
<1>1. /\ p \notin ToSet(blocked) /\ p \notin ToSet(blockedSusp)
      /\ \A u \in Hilos : ~Lleva(u, p)
  BY <1>0, UnSoloLugar
<1>2. ~DetieneUno(t, p) /\ ~DetieneOtro(t, p)
  BY <1>1, HilosDistintos, SoloUno DEF DetieneUno
<1>. QED
  BY <1>0, <1>2, HilosDistintos, DetenidosPorHilo DEF EncolaUno

\* The first half of wait_sem: into the semaphore's queue, with the mutex.
LEMMA WaitEncolarConserva ==
  ASSUME SinCarreras, IndGrado, Base', NEW t \in Cpus, WaitEncolar(t)
  PROVE  Nucleo'
<1>. USE DEF IndGrado, Base, Nucleo, IndProc
<1>. DEFINE s == pedido[t].obj
            p == lugar[t]
<1>0. /\ t \in Hilos /\ t \notin Atenciones /\ t # LP /\ t # CP /\ t # DL /\ t \in Ejecutores
      /\ TypeOK /\ SoloCambia(t)
  BY HilosDistintos, SoloCpu DEF IndInv, HiloCpu
<1>1. /\ pc[t] = "ESPERAR_SEM" /\ pc'[t] = "bloquear" /\ mano' = mano /\ p \in PIDs
      /\ mtxSem = Nadie /\ mtxSem' = t /\ s \in Semaforos
      /\ cola' = [cola EXCEPT ![s] = Append(@, p)]
      /\ UNCHANGED <<nuevo, ready, blocked, blockedSusp, readySusp, semGrado, liberados, lugar,
                     ocupado, pedido>>
  BY <1>0 DEF WaitEncolar, En, Ir, listas, contadores, procesadores, carpinchos, IndInv,
              TypeOK, TiposHilos, TiposSemaforos, ControlOK, LugaresOK
<1>2. ocupado[t] /\ pedido[t].op = "ESPERAR_SEM"
  BY <1>1 DEF FasesOK, FaseOK, EnCurso, Operaciones, IndInv, ControlOK, PedidosOK
<1>. HIDE DEF s, p
<1>3. CorreA(t, p)
  BY <1>1, <1>2 DEF CorreA, Ejecuta, p
<1>4. p \notin Bloqueados(cola)
  BY <1>1, <1>3, NoEncolado
<1>5. /\ pc'[CP] = pc[CP] /\ mano'[CP] = mano[CP]
      /\ \A q \in PIDs : Uno(pc'[Atencion(q)] \in {"fuera", "pasarANew"})
                           = Uno(pc[Atencion(q)] \in {"fuera", "pasarANew"})
  BY <1>0, OtrosQuietos
<1>6. /\ Corre(t)' <=> Corre(t)
      /\ ~Cierra(t) /\ ~Cierra(t)'
      /\ \A q : (CorreA(t, q)' <=> CorreA(t, q)) /\ ~CierraA(t, q) /\ ~CierraA(t, q)'
      /\ ~Suspende(t) /\ ~Suspende(t)' /\ \A q : ~Lleva(t, q) /\ ~Lleva(t, q)'
      /\ ~Despierta(t) /\ ~Despierta(t)'
  BY <1>1, <1>2 DEF Corre, Cierra, Cerrando, CorreA, CierraA, Ejecuta, Suspende, Lleva, Despierta
<1>7. cola \in [Semaforos -> Seq(PIDs)] /\ cola[s] \in Seq(PIDs)
  BY <1>0, <1>1 DEF TypeOK, TiposSemaforos
<1>8. /\ ToSet(cola'[s]) = ToSet(cola[s]) \cup {p}
      /\ \A r \in Semaforos : r # s => cola'[r] = cola[r]
      /\ cola'[s] = Append(cola[s], p)
  BY <1>1, <1>7, VecesAlFinal
<1>9. Bloqueados(cola') = Bloqueados(cola) \cup {p}
  BY <1>1, <1>8 DEF Bloqueados
<1>10. MutexOK'
  BY <1>0, <1>1, MutexDeUno DEF MutexUno
<1>11. DespertadosOK'
  <2>1. \A u \in Cpus : u # t => ~Despierta(u)
    BY <1>1, SoloUno
  <2>2. DespertadoUno(t)'
    BY <1>6 DEF DespertadoUno, Despierta
  <2>. QED
    BY <1>0, <2>1, <2>2, DespertadosDeUno
<1>12. SuspensionLlena'
  BY <1>0, <1>1, <1>6, SuspensionDeUno
<1>13. ColasUnicas'
  <2>1. \A r \in Semaforos : \A i \in DOMAIN cola[r] : cola[r][i] # p
    BY <1>4, <1>7 DEF Bloqueados, ToSet
  <2>2. /\ DOMAIN cola'[s] = 1 .. Len(cola[s]) + 1
        /\ DOMAIN cola[s] = 1 .. Len(cola[s]) /\ Len(cola[s]) \in Nat
        /\ \A i \in 1 .. Len(cola[s]) : cola'[s][i] = cola[s][i]
        /\ cola'[s][Len(cola[s]) + 1] = p
    BY <1>1, <1>7, <1>8, AppendProperties, LenProperties
  <2>3. \A i \in DOMAIN cola'[s] : \/ i \in DOMAIN cola[s] /\ cola'[s][i] = cola[s][i]
                                   \/ i = Len(cola[s]) + 1 /\ cola'[s][i] = p
    BY <2>2
  <2>4. ASSUME NEW r \in Semaforos, NEW i \in DOMAIN cola'[r]
        PROVE  \/ i \in DOMAIN cola[r] /\ cola'[r][i] = cola[r][i]
               \/ r = s /\ i = Len(cola[s]) + 1 /\ cola'[r][i] = p
    BY <1>8, <2>3, <2>4
  <2>5. ASSUME NEW r1 \in Semaforos, NEW r2 \in Semaforos,
               NEW i \in DOMAIN cola'[r1], NEW j \in DOMAIN cola'[r2],
               cola'[r1][i] = cola'[r2][j]
        PROVE  r1 = r2 /\ i = j
    BY <2>1, <2>4, <2>5 DEF ColasUnicas
  <2>. QED
    BY <2>5 DEF ColasUnicas
<1>14. GradoConservado'
  <2>1. PesoGrado(t)' = PesoGrado(t)
    BY <1>1, <1>5, <1>6 DEF PesoGrado, Uno
  <2>. QED
    BY <1>0, <2>1, GradoDeUno
<1>15. CadaUnoEnUnLugar'
  <2>1. ASSUME NEW q \in PIDs  PROVE PesoLugar(t, q)' = PesoLugar(t, q)
    <3>1. /\ Uno(Lleva(t, q)') = Uno(Lleva(t, q))
          /\ Uno(CorreA(t, q)') = Uno(CorreA(t, q)) /\ Uno(CierraA(t, q)') = Uno(CierraA(t, q))
      BY <1>6 DEF Uno
    <3>. QED
      BY <1>1, <1>5, <3>1 DEF PesoLugar, EnAlta, EnMemoria, Suspendido, EnMano, EnCpu
  <2>. QED
    BY <1>0, <2>1, LugarDeUno
<1>16. DetenidosEncolados'
  <2>1. ASSUME NEW q  PROVE DetieneUno(t, q)' <=> DetieneUno(t, q) \/ q = p
    BY <1>0, <1>1, <1>6 DEF DetieneUno, p
  <2>2. ASSUME NEW q  PROVE EncolaUno(t, q)' <=> EncolaUno(t, q) \/ q = p
    BY <1>6, <1>9 DEF EncolaUno
  <2>. QED
    BY <1>0, <2>1, <2>2, DetenidosPorHilo, DetenidosDeUno
<1>17. SuspensionPendiente'
  <2>1. \A u \in Hilos : pc[u] \in {"soltar", "mediano"} => pc'[u] = pc[u]
    BY <1>0, <1>1 DEF SoloCambia
  <2>. QED
    BY <1>1, <2>1 DEF SuspensionPendiente
<1>. QED
  BY <1>10, <1>11, <1>12, <1>13, <1>14, <1>15, <1>16, <1>17

\* The second half: into BLOCKED; the carpincho no longer runs.
LEMMA BloquearConserva ==
  ASSUME SinCarreras, IndGrado, Base', NEW t \in Cpus, Bloquear(t)
  PROVE  Nucleo'
<1>. USE DEF IndGrado, Base, Nucleo, IndProc
<1>. DEFINE p == lugar[t]
<1>0. /\ t \in Hilos /\ t \notin Atenciones /\ t # LP /\ t # CP /\ t # DL /\ t \in Ejecutores
      /\ TypeOK /\ SoloCambia(t)
  BY HilosDistintos, SoloCpu DEF IndInv, HiloCpu
<1>1. /\ pc[t] = "bloquear" /\ pc'[t] = "soltar" /\ mano' = mano /\ p \in PIDs /\ BlockedLibre
      /\ blocked' = Append(blocked, p)
      /\ UNCHANGED <<nuevo, ready, blockedSusp, readySusp, semGrado, liberados, lugar,
                     ocupado, pedido, mtxSem, cola>>
  BY <1>0 DEF Bloquear, En, Ir, contadores, procesadores, carpinchos, sems, IndInv,
              TypeOK, TiposHilos, ControlOK, LugaresOK
<1>2. ocupado[t] /\ pedido[t].op = "ESPERAR_SEM" /\ mtxSem = t
  BY <1>1, DuermeConMutex DEF FasesOK, FaseOK, EnCurso, Durmiendo
<1>. HIDE DEF p
<1>3. /\ Len(blocked') = Len(blocked) + 1
      /\ ToSet(blocked') = ToSet(blocked) \cup {p}
      /\ \A q : Veces(blocked, q)' = Veces(blocked, q) + Uno(p = q)
  BY <1>1, TiposDeSumas, VecesAlFinal
<1>5. /\ pc'[CP] = pc[CP] /\ mano'[CP] = mano[CP]
      /\ \A q \in PIDs : Uno(pc'[Atencion(q)] \in {"fuera", "pasarANew"})
                           = Uno(pc[Atencion(q)] \in {"fuera", "pasarANew"})
  BY <1>0, OtrosQuietos
<1>6. /\ Corre(t) /\ ~Corre(t)'
      /\ ~Cierra(t) /\ ~Cierra(t)'
      /\ \A q : (CorreA(t, q) <=> p = q) /\ ~CorreA(t, q)' /\ ~CierraA(t, q) /\ ~CierraA(t, q)'
      /\ ~Suspende(t) /\ ~Suspende(t)' /\ \A q : ~Lleva(t, q) /\ ~Lleva(t, q)'
      /\ ~Despierta(t) /\ ~Despierta(t)'
  BY <1>1, <1>2 DEF Corre, Cierra, Cerrando, CorreA, CierraA, Ejecuta, Suspende, Lleva, Despierta, p
<1>10. MutexOK'
  BY <1>0, <1>1, <1>2, MutexDeUno DEF MutexUno
<1>11. DespertadosOK'
  BY <1>0, <1>1, <1>3, <1>6, DespertadosDeUno DEF DespertadoUno, Despierta
<1>12. SuspensionLlena'
  BY <1>0, <1>1, <1>6, SuspensionDeUno
<1>13. ColasUnicas'
  BY <1>1 DEF ColasUnicas
<1>14. GradoConservado'
  <2>1. /\ Uno(Corre(t)) = 1 /\ Uno(Corre(t)') = 0
        /\ Uno(Cierra(t)') = Uno(Cierra(t)) /\ Uno(Suspende(t)') = Uno(Suspende(t))
    BY <1>6 DEF Uno
  <2>2. PesoGrado(t)' = PesoGrado(t)
    BY <1>1, <1>3, <1>5, <2>1, MudanzaDePlazas, TiposDePlazas, UnoTipo
  <2>. QED
    BY <1>0, <2>2, GradoDeUno
<1>15. CadaUnoEnUnLugar'
  <2>1. ASSUME NEW q \in PIDs  PROVE PesoLugar(t, q)' = PesoLugar(t, q)
    <3>1. /\ Uno(Lleva(t, q)') = Uno(Lleva(t, q))
          /\ Uno(CorreA(t, q)) = Uno(p = q) /\ Uno(CorreA(t, q)') = 0
          /\ Uno(CierraA(t, q)) = 0 /\ Uno(CierraA(t, q)') = 0
      BY <1>6 DEF Uno
    <3>2. EnAlta(q)' = EnAlta(q) /\ Suspendido(q)' = Suspendido(q) /\ EnMano(t, q)' = EnMano(t, q)
      BY <1>1, <1>5, <3>1 DEF EnAlta, Suspendido, EnMano
    <3>3. EnMemoria(q)' = EnMemoria(q) + Uno(p = q)
      BY <1>1, <1>3, TiposDeSumas, UnoTipo DEF EnMemoria
    <3>4. EnCpu(t, q) = EnCpu(t, q)' + Uno(p = q)
      BY <1>1, <3>1, UnoTipo DEF EnCpu
    <3>. QED
      BY <3>2, <3>3, <3>4, Mudanza, TiposDePesos, UnoTipo
  <2>. QED
    BY <1>0, <2>1, LugarDeUno
<1>16. DetenidosEncolados'
  <2>1. ASSUME NEW q  PROVE DetieneUno(t, q)' <=> DetieneUno(t, q)
    BY <1>0, <1>1, <1>3, <1>6 DEF DetieneUno, p
  <2>2. ASSUME NEW q  PROVE EncolaUno(t, q)' <=> EncolaUno(t, q)
    BY <1>1, <1>6 DEF EncolaUno
  <2>. QED
    BY <1>0, <2>1, <2>2, DetenidosPorHilo, DetenidosDeUno
<1>17. SuspensionPendiente'
  BY <1>0, <1>1 DEF SuspensionPendiente
<1>. QED
  BY <1>10, <1>11, <1>12, <1>13, <1>14, <1>15, <1>16, <1>17

\* The processor's bit is cleared; the medium-term scheduler is next.
LEMMA SoltarConserva ==
  ASSUME SinCarreras, IndGrado, Base', NEW t \in Cpus, Soltar(t)
  PROVE  Nucleo'
<1>. USE DEF IndGrado, Base, Nucleo, IndProc
<1>0. /\ t \in Hilos /\ t \notin Atenciones /\ t # LP /\ t # CP /\ t # DL /\ t \in Ejecutores
      /\ TypeOK /\ SoloCambia(t)
  BY HilosDistintos, SoloCpu DEF IndInv, HiloCpu
<1>1. /\ pc[t] = "soltar" /\ pc'[t] = "mediano" /\ mano' = mano /\ ~ocupado'[t]
      /\ UNCHANGED <<nuevo, ready, blocked, blockedSusp, readySusp, semGrado, liberados, lugar,
                     pedido, mtxSem, cola>>
  BY <1>0 DEF Soltar, En, Ir, listas, carpinchos, sems, IndInv, TypeOK, TiposHilos,
              TiposProcesadores
<1>2. pedido[t].op = "ESPERAR_SEM" /\ mtxSem = t
  BY <1>1, DuermeConMutex DEF Durmiendo
<1>5. /\ pc'[CP] = pc[CP] /\ mano'[CP] = mano[CP]
      /\ \A q \in PIDs : Uno(pc'[Atencion(q)] \in {"fuera", "pasarANew"})
                           = Uno(pc[Atencion(q)] \in {"fuera", "pasarANew"})
  BY <1>0, OtrosQuietos
<1>6. /\ ~Corre(t) /\ ~Corre(t)'
      /\ ~Cierra(t) /\ ~Cierra(t)'
      /\ \A q : ~CorreA(t, q) /\ ~CorreA(t, q)' /\ ~CierraA(t, q) /\ ~CierraA(t, q)'
      /\ ~Suspende(t) /\ ~Suspende(t)' /\ \A q : ~Lleva(t, q) /\ ~Lleva(t, q)'
      /\ ~Despierta(t) /\ ~Despierta(t)'
  BY <1>1, <1>2 DEF Corre, Cierra, Cerrando, CorreA, CierraA, Ejecuta, Suspende, Lleva, Despierta
<1>10. MutexOK'
  BY <1>0, <1>1, <1>2, MutexDeUno DEF MutexUno
<1>11. DespertadosOK'
  BY <1>0, <1>1, <1>6, DespertadosDeUno DEF DespertadoUno, Despierta
<1>12. SuspensionLlena'
  BY <1>0, <1>1, <1>6, SuspensionDeUno
<1>13. ColasUnicas'
  BY <1>1 DEF ColasUnicas
<1>14. GradoConservado'
  <2>1. PesoGrado(t)' = PesoGrado(t)
    BY <1>1, <1>5, <1>6 DEF PesoGrado, Uno
  <2>. QED
    BY <1>0, <2>1, GradoDeUno
<1>15. CadaUnoEnUnLugar'
  <2>1. ASSUME NEW q \in PIDs  PROVE PesoLugar(t, q)' = PesoLugar(t, q)
    <3>1. /\ Uno(Lleva(t, q)') = Uno(Lleva(t, q))
          /\ Uno(CorreA(t, q)') = Uno(CorreA(t, q)) /\ Uno(CierraA(t, q)') = Uno(CierraA(t, q))
      BY <1>6 DEF Uno
    <3>. QED
      BY <1>1, <1>5, <3>1 DEF PesoLugar, EnAlta, EnMemoria, Suspendido, EnMano, EnCpu
  <2>. QED
    BY <1>0, <2>1, LugarDeUno
<1>16. DetenidosEncolados'
  <2>1. ASSUME NEW q  PROVE DetieneUno(t, q)' <=> DetieneUno(t, q)
    BY <1>1, <1>6 DEF DetieneUno
  <2>2. ASSUME NEW q  PROVE EncolaUno(t, q)' <=> EncolaUno(t, q)
    BY <1>1, <1>6 DEF EncolaUno
  <2>. QED
    BY <1>0, <2>1, <2>2, DetenidosPorHilo, DetenidosDeUno
<1>17. SuspensionPendiente'
  BY <1>0, <1>1 DEF SuspensionPendiente
<1>. QED
  BY <1>10, <1>11, <1>12, <1>13, <1>14, <1>15, <1>16, <1>17

\* mate_close starts: the carpincho no longer runs, and is being closed.
LEMMA CloseSoltarConserva ==
  ASSUME SinCarreras, IndGrado, Base', NEW t \in Cpus, CloseSoltar(t)
  PROVE  Nucleo'
<1>. USE DEF IndGrado, Base, Nucleo, IndProc
<1>0. /\ t \in Hilos /\ t \notin Atenciones /\ t # LP /\ t # CP /\ t # DL /\ t \in Ejecutores
      /\ TypeOK /\ SoloCambia(t)
  BY HilosDistintos, SoloCpu DEF IndInv, HiloCpu
<1>1. /\ pc[t] = "CLOSE" /\ pc'[t] = "liberar" /\ mano' = mano /\ ~ocupado'[t]
      /\ UNCHANGED <<nuevo, ready, blocked, blockedSusp, readySusp, semGrado, liberados, lugar,
                     pedido, mtxSem, cola>>
  BY <1>0 DEF CloseSoltar, En, Ir, listas, contadores, sems, IndInv, TypeOK, TiposHilos,
              TiposProcesadores
<1>2. ocupado[t] /\ pedido[t].op = "CLOSE"
  BY <1>1 DEF FasesOK, FaseOK, EnCurso, Operaciones, IndInv, ControlOK, PedidosOK
<1>5. /\ pc'[CP] = pc[CP] /\ mano'[CP] = mano[CP]
      /\ \A q \in PIDs : Uno(pc'[Atencion(q)] \in {"fuera", "pasarANew"})
                           = Uno(pc[Atencion(q)] \in {"fuera", "pasarANew"})
  BY <1>0, OtrosQuietos
<1>6. /\ Corre(t) /\ ~Corre(t)'
      /\ ~Cierra(t) /\ Cierra(t)'
      /\ \A q : ~CorreA(t, q)' /\ ~CierraA(t, q) /\ (CierraA(t, q)' <=> CorreA(t, q))
      /\ ~Suspende(t) /\ ~Suspende(t)' /\ \A q : ~Lleva(t, q) /\ ~Lleva(t, q)'
      /\ ~Despierta(t) /\ ~Despierta(t)'
  BY <1>1, <1>2 DEF Corre, Cierra, Cerrando, CorreA, CierraA, Ejecuta, Suspende, Lleva, Despierta
<1>10. MutexOK'
  BY <1>0, <1>1, <1>2, MutexDeUno DEF MutexUno
<1>11. DespertadosOK'
  BY <1>0, <1>1, <1>6, DespertadosDeUno DEF DespertadoUno, Despierta
<1>12. SuspensionLlena'
  BY <1>0, <1>1, <1>6, SuspensionDeUno
<1>13. ColasUnicas'
  BY <1>1 DEF ColasUnicas
<1>14. GradoConservado'
  <2>1. /\ Uno(Corre(t)) = 1 /\ Uno(Corre(t)') = 0
        /\ Uno(Cierra(t)) = 0 /\ Uno(Cierra(t)') = 1 /\ Uno(Suspende(t)') = Uno(Suspende(t))
    BY <1>6 DEF Uno
  <2>2. PesoGrado(t)' = PesoGrado(t)
    BY <1>1, <1>5, <2>1, MudanzaDePlazas, TiposDePlazas, UnoTipo, SMTT(40)
  <2>. QED
    BY <1>0, <2>2, GradoDeUno
<1>15. CadaUnoEnUnLugar'
  <2>1. ASSUME NEW q \in PIDs  PROVE PesoLugar(t, q)' = PesoLugar(t, q)
    <3>1. /\ Uno(Lleva(t, q)') = Uno(Lleva(t, q))
          /\ Uno(CorreA(t, q)') = 0 /\ Uno(CierraA(t, q)') = Uno(CorreA(t, q))
          /\ Uno(CierraA(t, q)) = 0
      BY <1>6 DEF Uno
    <3>2. EnCpu(t, q)' = EnCpu(t, q)
      BY <1>1, <3>1, UnoTipo DEF EnCpu
    <3>. QED
      BY <1>1, <1>5, <3>1, <3>2 DEF PesoLugar, EnAlta, EnMemoria, Suspendido, EnMano
  <2>. QED
    BY <1>0, <2>1, LugarDeUno
<1>16. DetenidosEncolados'
  <2>1. ASSUME NEW q  PROVE DetieneUno(t, q)' <=> DetieneUno(t, q)
    BY <1>1, <1>6 DEF DetieneUno
  <2>2. ASSUME NEW q  PROVE EncolaUno(t, q)' <=> EncolaUno(t, q)
    BY <1>1, <1>6 DEF EncolaUno
  <2>. QED
    BY <1>0, <2>1, <2>2, DetenidosPorHilo, DetenidosDeUno
<1>17. SuspensionPendiente'
  <2>1. \A u \in Hilos : pc[u] \in {"soltar", "mediano"} => pc'[u] = pc[u]
    BY <1>0, <1>1 DEF SoloCambia
  <2>. QED
    BY <1>1, <2>1 DEF SuspensionPendiente
<1>. QED
  BY <1>10, <1>11, <1>12, <1>13, <1>14, <1>15, <1>16, <1>17

\* And ends: the PCB is freed and its slot given back; it was in no queue.
LEMMA FinCloseConserva ==
  ASSUME SinCarreras, IndGrado, Base', NEW t \in Cpus, FinClose(t)
  PROVE  Nucleo'
<1>. USE DEF IndGrado, Base, Nucleo, IndProc
<1>. DEFINE p == lugar[t]
<1>0. /\ t \in Hilos /\ t \notin Atenciones /\ t # LP /\ t # CP /\ t # DL /\ t \in Ejecutores
      /\ TypeOK /\ SoloCambia(t)
  BY HilosDistintos, SoloCpu DEF IndInv, HiloCpu
<1>1. /\ pc[t] = "liberar" /\ pc'[t] = "recibir" /\ mano' = mano /\ p \in PIDs
      /\ pedido'[t] = SinPedido /\ mtxSem' = Nadie
      /\ semGrado' = semGrado + 1 /\ liberados' = liberados \cup {p}
      /\ cola' = [s \in Semaforos |-> Quitar(cola[s], p)]
      /\ UNCHANGED <<nuevo, ready, blocked, blockedSusp, readySusp, lugar, ocupado>>
  BY <1>0 DEF FinClose, Borrar, Volver, En, Ir, listas, procesadores, IndInv, TypeOK, TiposHilos,
              ControlOK, LugaresOK
<1>2. pedido[t].op = "CLOSE" /\ "CLOSE" \in Llamadas
  BY <1>1 DEF FasesOK, FaseOK
<1>. HIDE DEF p
<1>5. /\ pc'[CP] = pc[CP] /\ mano'[CP] = mano[CP]
      /\ \A q \in PIDs : Uno(pc'[Atencion(q)] \in {"fuera", "pasarANew"})
                           = Uno(pc[Atencion(q)] \in {"fuera", "pasarANew"})
  BY <1>0, OtrosQuietos
<1>6. /\ Corre(t)' <=> Corre(t)
      /\ Cierra(t) /\ ~Cierra(t)'
      /\ \A q : (CorreA(t, q)' <=> CorreA(t, q)) /\ ~CierraA(t, q)' /\ (CierraA(t, q) <=> p = q)
      /\ ~Suspende(t) /\ ~Suspende(t)' /\ \A q : ~Lleva(t, q) /\ ~Lleva(t, q)'
      /\ ~Despierta(t) /\ ~Despierta(t)'
  BY <1>1, <1>2 DEF Corre, Cierra, Cerrando, CorreA, CierraA, Ejecuta, Suspende, Lleva, Despierta, p,
                    SinPedido
<1>7. p \notin Bloqueados(cola) /\ p \notin liberados
  <2>1. CierraA(t, p)
    BY <1>6
  <2>. QED
    BY <1>1, <1>2, <2>1, NoEncolado, UnSoloLugar
<1>8. cola' = cola
  <2>1. cola \in [Semaforos -> Seq(PIDs)]
    BY <1>0 DEF TypeOK, TiposSemaforos
  <2>2. \A s \in Semaforos : p \notin ToSet(cola[s])
    BY <1>7, <2>1 DEF Bloqueados
  <2>3. \A s \in Semaforos : Quitar(cola[s], p) = cola[s]
    BY <2>2 DEF Quitar
  <2>. QED
    BY <1>1, <2>1, <2>3
<1>10. MutexOK'
  <2>1. MutexUno(t)'
    BY <1>1 DEF MutexUno, Durmiendo, Despierta
  <2>2. \A u \in Cpus : u # t => mtxSem \in {Nadie, t}
    BY <1>2, SoloUno
  <2>. QED
    BY <1>0, <2>1, <2>2, MutexDeUno
<1>11. DespertadosOK'
  BY <1>0, <1>1, <1>6, <1>8, DespertadosDeUno DEF DespertadoUno, Despierta
<1>12. SuspensionLlena'
  BY <1>0, <1>1, <1>6, SuspensionDeUno
<1>13. ColasUnicas'
  BY <1>8 DEF ColasUnicas
<1>14. GradoConservado'
  <2>1. /\ Uno(Corre(t)') = Uno(Corre(t))
        /\ Uno(Cierra(t)) = 1 /\ Uno(Cierra(t)') = 0 /\ Uno(Suspende(t)') = Uno(Suspende(t))
    BY <1>6 DEF Uno
  <2>2. PesoGrado(t)' = PesoGrado(t)
    <3>1. /\ semGrado' - semGrado = 1 /\ Len(ready') - Len(ready) = 0
          /\ Len(blocked') - Len(blocked) = 0
      BY <1>1, TiposDePlazas
    <3>2. /\ Uno(pc'[CP] = "despachar") - Uno(pc[CP] = "despachar") = 0
          /\ Uno(Corre(t)') - Uno(Corre(t)) = 0
          /\ Uno(Cierra(t)') - Uno(Cierra(t)) = 0 - 1
          /\ Uno(Suspende(t)') - Uno(Suspende(t)) = 0
      BY <1>5, <2>1, UnoTipo
    <3>. QED
      BY <3>1, <3>2, MudanzaDePlazas
  <2>. QED
    BY <1>0, <2>2, GradoDeUno
<1>15. CadaUnoEnUnLugar'
  <2>1. ASSUME NEW q \in PIDs  PROVE PesoLugar(t, q)' = PesoLugar(t, q)
    <3>1. /\ Uno(Lleva(t, q)') = Uno(Lleva(t, q))
          /\ Uno(CorreA(t, q)') = Uno(CorreA(t, q)) /\ Uno(CierraA(t, q)') = 0
          /\ Uno(CierraA(t, q)) = Uno(p = q)
      BY <1>6 DEF Uno
    <3>2. Uno(q \in liberados') = Uno(q \in liberados) + Uno(p = q)
      BY <1>1, <1>7 DEF Uno
    <3>3. EnCpu(t, q)' = EnCpu(t, q)
      BY <3>1, <3>2, UnoTipo DEF EnCpu
    <3>. QED
      BY <1>1, <1>5, <3>1, <3>3 DEF PesoLugar, EnAlta, EnMemoria, Suspendido, EnMano
  <2>. QED
    BY <1>0, <2>1, LugarDeUno
<1>16. DetenidosEncolados'
  <2>1. ASSUME NEW q  PROVE DetieneUno(t, q)' <=> DetieneUno(t, q)
    BY <1>1, <1>6 DEF DetieneUno
  <2>2. ASSUME NEW q  PROVE EncolaUno(t, q)' <=> EncolaUno(t, q)
    BY <1>6, <1>8 DEF EncolaUno
  <2>. QED
    BY <1>0, <2>1, <2>2, DetenidosPorHilo, DetenidosDeUno
<1>17. SuspensionPendiente'
  <2>1. \A u \in Hilos : pc[u] \in {"soltar", "mediano"} => pc'[u] = pc[u]
    BY <1>0, <1>1 DEF SoloCambia
  <2>. QED
    BY <1>1, <2>1 DEF SuspensionPendiente
<1>. QED
  BY <1>10, <1>11, <1>12, <1>13, <1>14, <1>15, <1>16, <1>17

\* Nobody is being suspended while a processor runs or closes a carpincho and
\* the other slots are taken: the suspension would have one slot too many.
LEMMA SinSuspensiones ==
  ASSUME SinCarreras, IndGrado, NEW t \in Hilos, Corre(t) \/ Cierra(t)
  PROVE  \A u \in Hilos : ~Suspende(u)
BY Plazas, CantidadesAssumption
   DEF IndGrado, Base, IndProc, Nucleo, SuspensionLlena

\* Out of the semaphore's queue, and still where it slept: post_sem,
\* destroy_sem and the release loop of mate_close.
LEMMA DespertarConserva ==
  ASSUME SinCarreras, IndGrado, Base', NEW t \in Cpus,
         PostDespertar(t) \/ Vaciar(t) \/ UnidadDespertar(t)
  PROVE  Nucleo'
<1>. USE DEF IndGrado, Base, Nucleo, IndProc
<1>0. /\ t \in Hilos /\ t \notin Atenciones /\ t # LP /\ t # CP /\ t # DL /\ t \in Ejecutores
      /\ TypeOK /\ SoloCambia(t)
  BY HilosDistintos, SoloCpu DEF IndInv, HiloCpu
<1>1. PICK s \in Semaforos :
         /\ cola[s] # <<>>
         /\ SacarDeCola(t, s)
         /\ \/ /\ pc[t] \in {"POST_SEM", "DESTROY_SEM", "vaciar"}
               /\ mtxSem \in {Nadie, t} /\ mtxSem' = t
               /\ pedido[t].op # "CLOSE"
            \/ pc[t] = "unidad" /\ pedido[t].op = "CLOSE" /\ mtxSem' = mtxSem
  <2>1. /\ existe \subseteq Semaforos
        /\ pc[t] = "unidad" => vuelta[t].sem \in Semaforos /\ pedido[t].op = "CLOSE"
        /\ pc[t] \in {"POST_SEM", "DESTROY_SEM"} => pedido[t].op = pc[t]
        /\ pc[t] = "vaciar" => pedido[t].op = "DESTROY_SEM" /\ mtxSem = t
    <3>1. existe \subseteq Semaforos /\ vuelta[t] \in Vueltas
      BY <1>0 DEF TypeOK, TiposSemaforos, TiposHilos
    <3>2. FaseOK(t) /\ MutexUno(t)
      BY DEF FasesOK, MutexOK
    <3>3. VueltasOK /\ PedidosOK
      BY DEF IndInv, ControlOK
    <3>. QED
      BY <1>0, <3>1, <3>2, <3>3 DEF FaseOK, MutexUno, VueltasOK, PedidosOK, Operaciones, Vueltas
  <2>2. CASE PostDespertar(t)
    BY <2>1, <2>2 DEF PostDespertar, DebeDespertar, En
  <2>3. CASE Vaciar(t)
    BY <2>1, <2>3 DEF Vaciar, En
  <2>4. CASE UnidadDespertar(t)
    BY <2>1, <2>4 DEF UnidadDespertar, DebeDespertar, En
  <2>. QED
    BY <2>2, <2>3, <2>4
<1>. DEFINE p == Head(cola[s])
<1>2. /\ pc' = [pc EXCEPT ![t] = PasoSegunLista(p)] /\ mano' = [mano EXCEPT ![t] = p]
      /\ cola' = [cola EXCEPT ![s] = Tail(@)]
      /\ UNCHANGED <<nuevo, ready, blocked, blockedSusp, readySusp, semGrado, liberados, lugar,
                     ocupado, pedido>>
  BY <1>1 DEF SacarDeCola, Tomar, Ir, PostDespertar, Vaciar, UnidadDespertar, listas, contadores,
              procesadores, carpinchos
<1>3. /\ cola \in [Semaforos -> Seq(PIDs)] /\ cola[s] \in Seq(PIDs) /\ p \in PIDs
      /\ cola'[s] = Tail(cola[s]) /\ \A r \in Semaforos : r # s => cola'[r] = cola[r]
      /\ cola' \in [Semaforos -> Seq(PIDs)]
      /\ ToSet(cola[s]) = ToSet(cola'[s]) \cup {p}
  BY <1>0, <1>1, <1>2, VecesDelFrente DEF TypeOK, TiposSemaforos
<1>. HIDE DEF p
<1>4. /\ pc'[t] = PasoSegunLista(p) /\ mano'[t] = p
      /\ pc'[t] \in {"aReady", "aReadySusp"}
      /\ pc'[t] = "aReady" <=> p \in ToSet(blocked)
  BY <1>0, <1>2 DEF TypeOK, TiposHilos, PasoSegunLista
<1>5. /\ pc'[CP] = pc[CP] /\ mano'[CP] = mano[CP]
      /\ \A q \in PIDs : Uno(pc'[Atencion(q)] \in {"fuera", "pasarANew"})
                           = Uno(pc[Atencion(q)] \in {"fuera", "pasarANew"})
  BY <1>0, OtrosQuietos
<1>6. /\ Corre(t)' <=> Corre(t)
      /\ Cierra(t)' <=> Cierra(t)
      /\ \A q : (CorreA(t, q)' <=> CorreA(t, q)) /\ (CierraA(t, q)' <=> CierraA(t, q))
      /\ ~Suspende(t) /\ ~Suspende(t)' /\ \A q : ~Lleva(t, q) /\ ~Lleva(t, q)'
      /\ ~Despierta(t) /\ Despierta(t)' /\ pc[t] # "bloquear" /\ pc'[t] # "bloquear"
  BY <1>1, <1>2, <1>4
     DEF Corre, Cierra, Cerrando, CorreA, CierraA, Ejecuta, Suspende, Lleva, Despierta
<1>7. Corre(t) \/ Cierra(t)
  <2>1. FaseOK(t)
    BY DEF FasesOK
  <2>. QED
    BY <1>1, <2>1 DEF FaseOK, EnCurso, Operaciones, Corre, Cierra, Cerrando
<1>8. mtxSem \in {Nadie, t} \/ "CLOSE" \in Llamadas
  <2>1. FaseOK(t)
    BY DEF FasesOK
  <2>. QED
    BY <1>1, <2>1 DEF FaseOK
<1>9. \A q : ~DetieneOtro(t, q) /\ ~DespiertaOtro(t, q)
  <2>1. \A u \in Hilos : ~Suspende(u)
    BY <1>0, <1>7, SinSuspensiones
  <2>2. \A q, u : Lleva(u, q) => Suspende(u)
    BY DEF Lleva, Suspende
  <2>. QED
    BY <1>8, <2>1, <2>2, SoloUno
<1>10. MutexOK'
  <2>1. \A u \in Cpus : u # t => mtxSem \in {Nadie, t}
    BY <1>8, SoloUno
  <2>2. MutexUno(t)'
    BY <1>1, <1>2 DEF MutexUno
  <2>. QED
    BY <1>0, <2>1, <2>2, MutexDeUno
<1>11. Bloqueados(cola) = Bloqueados(cola') \cup {p}
  BY <1>3 DEF Bloqueados
<1>12. ColasUnicas' /\ p \notin Bloqueados(cola')
  <2>1. /\ DOMAIN cola[s] = 1 .. Len(cola[s]) /\ Len(cola[s]) \in Nat /\ Len(cola[s]) # 0
        /\ DOMAIN cola'[s] = 1 .. Len(cola[s]) - 1
        /\ p = cola[s][1]
        /\ \A i \in 1 .. Len(cola[s]) - 1 : cola'[s][i] = cola[s][i + 1]
    <3>1. /\ Tail(cola[s]) \in Seq(PIDs) /\ Len(Tail(cola[s])) = Len(cola[s]) - 1
          /\ \A j \in 1 .. Len(Tail(cola[s])) : Tail(cola[s])[j] = cola[s][j + 1]
      BY <1>1, <1>3, HeadTailProperties
    <3>2. Len(cola[s]) \in Nat /\ Len(cola[s]) # 0 /\ Head(cola[s]) = cola[s][1]
      BY <1>1, <1>3, EmptySeq, LenProperties
    <3>. QED
      BY <1>3, <3>1, <3>2, LenProperties DEF p
  <2>2. /\ 1 \in DOMAIN cola[s]
        /\ \A i \in DOMAIN cola'[s] : i \in Nat /\ i >= 1 /\ i + 1 \in DOMAIN cola[s]
    BY <2>1
  <2>3. ASSUME NEW r \in Semaforos, NEW i \in DOMAIN cola'[r]
        PROVE  \/ r # s /\ i \in DOMAIN cola[r] /\ cola'[r][i] = cola[r][i]
               \/ r = s /\ i \in Nat /\ i >= 1 /\ i + 1 \in DOMAIN cola[s]
                  /\ cola'[r][i] = cola[s][i + 1]
    BY <1>3, <2>1, <2>2, <2>3
  <2>4. ASSUME NEW r1 \in Semaforos, NEW r2 \in Semaforos,
               NEW i \in DOMAIN cola'[r1], NEW j \in DOMAIN cola'[r2],
               cola'[r1][i] = cola'[r2][j]
        PROVE  r1 = r2 /\ i = j
    <3>1. CASE r1 # s /\ r2 # s
      BY <2>3, <2>4, <3>1 DEF ColasUnicas
    <3>2. CASE r1 = s /\ r2 = s
      BY <2>3, <2>4, <3>2 DEF ColasUnicas
    <3>3. CASE (r1 = s) # (r2 = s)
      BY <2>3, <2>4, <3>3 DEF ColasUnicas
    <3>. QED
      BY <3>1, <3>2, <3>3
  <2>5. ASSUME NEW r \in Semaforos, NEW i \in DOMAIN cola'[r], cola'[r][i] = p  PROVE FALSE
    <3>1. CASE r # s
      BY <2>1, <2>2, <2>3, <2>5, <3>1 DEF ColasUnicas
    <3>2. CASE r = s
      <4>1. i + 1 \in DOMAIN cola[s] /\ i + 1 # 1 /\ cola[s][i + 1] = cola[s][1]
        BY <2>1, <2>3, <2>5, <3>2
      <4>. QED
        BY <2>2, <4>1 DEF ColasUnicas
    <3>. QED
      BY <3>1, <3>2
  <2>6. p \notin Bloqueados(cola')
    BY <1>3, <2>5 DEF Bloqueados, ToSet
  <2>. QED
    BY <2>4, <2>6 DEF ColasUnicas
<1>13. p \in ToSet(blocked) \/ p \in ToSet(blockedSusp)
  <2>1. EncolaUno(t, p)
    BY <1>11 DEF EncolaUno
  <2>2. DetieneUno(t, p)
    BY <1>0, <1>9, <2>1, DetenidosPorHilo
  <2>. QED
    BY <1>6, <2>2 DEF DetieneUno
<1>14. DespertadosOK'
  <2>1. DespertadoUno(t)'
    BY <1>2, <1>4, <1>12, <1>13 DEF DespertadoUno
  <2>2. \A u \in Cpus : u # t => ~Despierta(u)
    BY <1>8, SoloUno
  <2>. QED
    BY <1>0, <2>1, <2>2, DespertadosDeUno
<1>15. SuspensionLlena'
  BY <1>0, <1>2, <1>6, SuspensionDeUno
<1>16. GradoConservado'
  <2>1. PesoGrado(t)' = PesoGrado(t)
    BY <1>2, <1>5, <1>6 DEF PesoGrado, Uno
  <2>. QED
    BY <1>0, <2>1, GradoDeUno
<1>17. CadaUnoEnUnLugar'
  <2>1. ASSUME NEW q \in PIDs  PROVE PesoLugar(t, q)' = PesoLugar(t, q)
    <3>1. /\ Uno(Lleva(t, q)') = Uno(Lleva(t, q))
          /\ Uno(CorreA(t, q)') = Uno(CorreA(t, q)) /\ Uno(CierraA(t, q)') = Uno(CierraA(t, q))
      BY <1>6 DEF Uno
    <3>. QED
      BY <1>2, <1>5, <3>1 DEF PesoLugar, EnAlta, EnMemoria, Suspendido, EnMano, EnCpu
  <2>. QED
    BY <1>0, <2>1, LugarDeUno
<1>18. DetenidosEncolados'
  <2>1. ASSUME NEW q  PROVE DetieneUno(t, q)' <=> DetieneUno(t, q)
    BY <1>2, <1>6 DEF DetieneUno
  <2>2. ASSUME NEW q  PROVE EncolaUno(t, q)' <=> EncolaUno(t, q)
    BY <1>4, <1>6, <1>11 DEF EncolaUno
  <2>. QED
    BY <1>0, <2>1, <2>2, DetenidosPorHilo, DetenidosDeUno
<1>19. SuspensionPendiente'
  <2>1. \A u \in Hilos : pc[u] \in {"soltar", "mediano"} => pc'[u] = pc[u]
    BY <1>0, <1>1 DEF SoloCambia
  <2>. QED
    BY <1>2, <2>1 DEF SuspensionPendiente
<1>. QED
  BY <1>10, <1>12, <1>14, <1>15, <1>16, <1>17, <1>18, <1>19

\* What a waker knows of itself and of the others before it moves somebody.
LEMMA Despertador ==
  ASSUME SinCarreras, IndGrado, NEW t \in Cpus, Despierta(t)
  PROVE  /\ Corre(t) \/ Cierra(t)
         /\ mtxSem \in {Nadie, t} \/ "CLOSE" \in Llamadas
         /\ pedido[t].op = "DESTROY_SEM" => mtxSem = t
         /\ mano[t] \in PIDs /\ mano[t] \notin Bloqueados(cola)
         /\ pc[t] = "aReady" => mano[t] \in ToSet(blocked)
         /\ pc[t] = "aReadySusp" => mano[t] \in ToSet(blockedSusp)
         /\ \A q : ~DetieneOtro(t, q) /\ ~DespiertaOtro(t, q)
         /\ \A u \in Cpus : u # t => ~Despierta(u) /\ mtxSem \in {Nadie, t}
<1>. USE DEF IndGrado, Base, Nucleo, IndProc
<1>0. t \in Hilos
  BY HilosDistintos
<1>1. FaseOK(t) /\ MutexUno(t) /\ DespertadoUno(t)
  BY DEF FasesOK, MutexOK, DespertadosOK
<1>2. Corre(t) \/ Cierra(t)
  BY <1>1 DEF FaseOK, Despierta, Corre, Cierra, Cerrando
<1>3. /\ mtxSem \in {Nadie, t} \/ "CLOSE" \in Llamadas
      /\ pedido[t].op = "DESTROY_SEM" => mtxSem = t
  BY <1>1 DEF FaseOK, MutexUno, Despierta
<1>4. mano[t] \in PIDs
  BY <1>0 DEF IndInv, ControlOK, ManosOK, Despierta
<1>5. \A q : ~DetieneOtro(t, q) /\ ~DespiertaOtro(t, q)
  <2>1. \A u \in Hilos : ~Suspende(u)
    BY <1>0, <1>2, SinSuspensiones
  <2>2. \A q, u : Lleva(u, q) => Suspende(u)
    BY DEF Lleva, Suspende
  <2>. QED
    BY <1>3, <2>1, <2>2, SoloUno
<1>. QED
  BY <1>1, <1>2, <1>3, <1>4, <1>5, SoloUno DEF DespertadoUno

\* Where a waker goes when it has moved its carpincho (TrasMover).
LEMMA TrasMoverSigue ==
  ASSUME SinCarreras, IndGrado, Base', NEW t \in Cpus, Despierta(t), SoloCambia(t), TrasMover(t),
         lugar' = lugar, ocupado' = ocupado
  PROVE  /\ pc'[t] \in {"recibir", "vaciar", "liberar", "unidad"}
         /\ MutexOK'
         /\ Corre(t)' <=> Corre(t)
         /\ Cierra(t)' <=> Cierra(t)
         /\ \A q : (CorreA(t, q)' <=> CorreA(t, q)) /\ (CierraA(t, q)' <=> CierraA(t, q))
         /\ ~Suspende(t) /\ ~Suspende(t)' /\ \A q : ~Lleva(t, q) /\ ~Lleva(t, q)'
         /\ ~Despierta(t)' /\ pc[t] # "bloquear"
<1>. USE DEF IndGrado, Base, Nucleo, IndProc
<1>0. t \in Hilos /\ t \in Ejecutores /\ t # DL /\ t \notin Ios /\ TypeOK
  BY HilosDistintos DEF IndInv
<1>1. \/ pc'[t] = "recibir" /\ pedido[t].op = "POST_SEM" /\ pedido'[t] = SinPedido /\ mtxSem' = Nadie
      \/ pc'[t] = "vaciar" /\ pedido[t].op = "DESTROY_SEM" /\ pedido' = pedido /\ mtxSem' = mtxSem
      \/ /\ pc'[t] \in {"liberar", "unidad"} /\ pedido[t].op = "CLOSE" /\ pedido' = pedido
         /\ mtxSem' = mtxSem
  BY <1>0 DEF TrasMover, Volver, Ir, TypeOK, TiposHilos
<1>2. /\ pedido[t].op = "DESTROY_SEM" => mtxSem = t
      /\ \A u \in Cpus : u # t => mtxSem \in {Nadie, t}
  BY Despertador
<1>3. MutexOK'
  <2>1. MutexUno(t)'
    BY <1>1, <1>2 DEF MutexUno, Durmiendo, Despierta
  <2>. QED
    BY <1>0, <1>2, <2>1, MutexDeUno
<1>4. /\ Corre(t)' <=> Corre(t)
      /\ Cierra(t)' <=> Cierra(t)
      /\ \A q : (CorreA(t, q)' <=> CorreA(t, q)) /\ (CierraA(t, q)' <=> CierraA(t, q))
  BY <1>1 DEF Corre, Cierra, Cerrando, CorreA, CierraA, Ejecuta, Despierta, SinPedido
<1>. QED
  BY <1>1, <1>3, <1>4 DEF Suspende, Lleva, Despierta

\* From BLOCKED to READY.
LEMMA MoverAReadyConserva ==
  ASSUME SinCarreras, IndGrado, Base', NEW t \in Cpus, MoverAReady(t)
  PROVE  Nucleo'
<1>. USE DEF IndGrado, Base, Nucleo, IndProc
<1>. DEFINE p == mano[t]
<1>0. /\ t \in Hilos /\ t \notin Atenciones /\ t # LP /\ t # CP /\ t # DL /\ t \in Ejecutores
      /\ TypeOK /\ SoloCambia(t)
  BY HilosDistintos, SoloCpu DEF IndInv, HiloCpu
<1>1. /\ pc[t] = "aReady" /\ Despierta(t) /\ BlockedLibre /\ TrasMover(t)
      /\ blocked' = Quitar(blocked, p) /\ ready' = Append(ready, p)
      /\ UNCHANGED <<nuevo, blockedSusp, readySusp, semGrado, liberados, lugar, ocupado, cola>>
  BY DEF MoverAReady, En, procesadores, Despierta
<1>2. /\ p \in PIDs /\ p \notin Bloqueados(cola) /\ p \in ToSet(blocked)
      /\ \A q : ~DetieneOtro(t, q) /\ ~DespiertaOtro(t, q)
      /\ \A u \in Cpus : u # t => ~Despierta(u)
  BY <1>1, Despertador
<1>3. /\ pc'[t] \in {"recibir", "vaciar", "liberar", "unidad"}
      /\ MutexOK'
      /\ Corre(t)' <=> Corre(t)
      /\ Cierra(t)' <=> Cierra(t)
      /\ \A q : (CorreA(t, q)' <=> CorreA(t, q)) /\ (CierraA(t, q)' <=> CierraA(t, q))
      /\ ~Suspende(t) /\ ~Suspende(t)' /\ \A q : ~Lleva(t, q) /\ ~Lleva(t, q)'
      /\ ~Despierta(t)' /\ pc[t] # "bloquear"
  BY <1>0, <1>1, TrasMoverSigue
<1>. HIDE DEF p
<1>4. blocked \in Seq(PIDs) /\ ready \in Seq(PIDs)
  BY TiposDeSumas
<1>5. /\ pc'[CP] = pc[CP] /\ mano'[CP] = mano[CP]
      /\ \A q \in PIDs : Uno(pc'[Atencion(q)] \in {"fuera", "pasarANew"})
                           = Uno(pc[Atencion(q)] \in {"fuera", "pasarANew"})
  BY <1>0, OtrosQuietos
<1>6. /\ Len(blocked') = Len(blocked) - 1 /\ blocked' \in Seq(PIDs)
      /\ ToSet(blocked) = ToSet(blocked') \cup {p}
      /\ \A q : Veces(blocked, q) = Veces(blocked', q) + Uno(p = q)
  BY <1>1, <1>2, <1>4, VecesQuitar
<1>7. /\ Len(ready') = Len(ready) + 1
      /\ \A q : Veces(ready, q)' = Veces(ready, q) + Uno(p = q)
  BY <1>1, <1>2, <1>4, VecesAlFinal
<1>8. p \notin ToSet(blocked') /\ p \notin ToSet(blockedSusp)
  <2>1. Veces(blocked, p) = 1 /\ p \notin ToSet(blockedSusp)
    BY <1>2, UnSoloLugar
  <2>2. Veces(blocked', p) = 0
    BY <1>6, <2>1, VecesTipo DEF Uno
  <2>. QED
    BY <1>6, <2>1, <2>2, VecesTipo
<1>11. DespertadosOK'
  <2>1. DespertadoUno(t)'
    BY <1>3 DEF DespertadoUno, Despierta
  <2>. QED
    BY <1>0, <1>2, <2>1, DespertadosDeUno
<1>12. SuspensionLlena'
  BY <1>0, <1>1, <1>3, SuspensionDeUno
<1>13. ColasUnicas'
  BY <1>1 DEF ColasUnicas
<1>14. GradoConservado'
  <2>1. PesoGrado(t)' = PesoGrado(t)
    <3>1. /\ semGrado' - semGrado = 0 /\ Len(ready') - Len(ready) = 1
          /\ Len(blocked') - Len(blocked) = 0 - 1
      BY <1>1, <1>6, <1>7, TiposDePlazas
    <3>2. /\ Uno(pc'[CP] = "despachar") - Uno(pc[CP] = "despachar") = 0
          /\ Uno(Corre(t)') - Uno(Corre(t)) = 0
          /\ Uno(Cierra(t)') - Uno(Cierra(t)) = 0
          /\ Uno(Suspende(t)') - Uno(Suspende(t)) = 0
      BY <1>3, <1>5 DEF Uno
    <3>. QED
      BY <3>1, <3>2, MudanzaDePlazas
  <2>. QED
    BY <1>0, <2>1, GradoDeUno
<1>15. CadaUnoEnUnLugar'
  <2>1. ASSUME NEW q \in PIDs  PROVE PesoLugar(t, q)' = PesoLugar(t, q)
    <3>1. /\ Uno(Lleva(t, q)') = Uno(Lleva(t, q))
          /\ Uno(CorreA(t, q)') = Uno(CorreA(t, q)) /\ Uno(CierraA(t, q)') = Uno(CierraA(t, q))
      BY <1>3 DEF Uno
    <3>2. EnMemoria(q)' = EnMemoria(q)
      BY <1>6, <1>7, TiposDeSumas, VecesTipo, UnoTipo, SMTT(40) DEF EnMemoria
    <3>. QED
      BY <1>1, <1>5, <3>1, <3>2 DEF PesoLugar, EnAlta, Suspendido, EnMano, EnCpu
  <2>. QED
    BY <1>0, <2>1, LugarDeUno
<1>16. DetenidosEncolados'
  <2>1. ASSUME NEW q  PROVE DetieneUno(t, q)' <=> DetieneUno(t, q) /\ q # p
    BY <1>0, <1>1, <1>3, <1>6, <1>8 DEF DetieneUno
  <2>2. ASSUME NEW q  PROVE EncolaUno(t, q)' <=> EncolaUno(t, q) /\ q # p
    BY <1>1, <1>2, <1>3 DEF EncolaUno, p
  <2>. QED
    BY <1>0, <1>2, <2>1, <2>2, DetenidosPorHilo, DetenidosDeUno
<1>17. SuspensionPendiente'
  <2>1. Len(blocked) \in Nat /\ Len(blocked) <= Grado /\ Grado \in Nat
    BY Plazas, TiposDeSumas
  <2>. QED
    BY <1>6, <2>1 DEF SuspensionPendiente
<1>. QED
  BY <1>3, <1>11, <1>12, <1>13, <1>14, <1>15, <1>16, <1>17

\* From BLOCKED-SUSPENDED to READY-SUSPENDED.
LEMMA MoverAReadySuspConserva ==
  ASSUME SinCarreras, IndGrado, Base', NEW t \in Cpus, MoverAReadySusp(t)
  PROVE  Nucleo'
<1>. USE DEF IndGrado, Base, Nucleo, IndProc
<1>. DEFINE p == mano[t]
<1>0. /\ t \in Hilos /\ t \notin Atenciones /\ t # LP /\ t # CP /\ t # DL /\ t \in Ejecutores
      /\ TypeOK /\ SoloCambia(t)
  BY HilosDistintos, SoloCpu DEF IndInv, HiloCpu
<1>1. /\ pc[t] = "aReadySusp" /\ Despierta(t) /\ TrasMover(t)
      /\ blockedSusp' = Quitar(blockedSusp, p) /\ readySusp' = Append(readySusp, p)
      /\ UNCHANGED <<nuevo, ready, blocked, semGrado, liberados, lugar, ocupado, cola>>
  BY DEF MoverAReadySusp, En, procesadores, Despierta
<1>2. /\ p \in PIDs /\ p \notin Bloqueados(cola) /\ p \in ToSet(blockedSusp)
      /\ \A q : ~DetieneOtro(t, q) /\ ~DespiertaOtro(t, q)
      /\ \A u \in Cpus : u # t => ~Despierta(u)
  BY <1>1, Despertador
<1>3. /\ pc'[t] \in {"recibir", "vaciar", "liberar", "unidad"}
      /\ MutexOK'
      /\ Corre(t)' <=> Corre(t)
      /\ Cierra(t)' <=> Cierra(t)
      /\ \A q : (CorreA(t, q)' <=> CorreA(t, q)) /\ (CierraA(t, q)' <=> CierraA(t, q))
      /\ ~Suspende(t) /\ ~Suspende(t)' /\ \A q : ~Lleva(t, q) /\ ~Lleva(t, q)'
      /\ ~Despierta(t)' /\ pc[t] # "bloquear"
  BY <1>0, <1>1, TrasMoverSigue
<1>. HIDE DEF p
<1>4. blockedSusp \in Seq(PIDs) /\ readySusp \in Seq(PIDs)
  BY TiposDeSumas
<1>5. /\ pc'[CP] = pc[CP] /\ mano'[CP] = mano[CP]
      /\ \A q \in PIDs : Uno(pc'[Atencion(q)] \in {"fuera", "pasarANew"})
                           = Uno(pc[Atencion(q)] \in {"fuera", "pasarANew"})
  BY <1>0, OtrosQuietos
<1>6. /\ blockedSusp' \in Seq(PIDs)
      /\ ToSet(blockedSusp) = ToSet(blockedSusp') \cup {p}
      /\ \A q : Veces(blockedSusp, q) = Veces(blockedSusp', q) + Uno(p = q)
  BY <1>1, <1>2, <1>4, VecesQuitar
<1>7. \A q : Veces(readySusp, q)' = Veces(readySusp, q) + Uno(p = q)
  BY <1>1, <1>2, <1>4, VecesAlFinal
<1>8. p \notin ToSet(blockedSusp') /\ p \notin ToSet(blocked)
  <2>1. Veces(blockedSusp, p) = 1 /\ p \notin ToSet(blocked)
    BY <1>2, UnSoloLugar
  <2>2. Veces(blockedSusp', p) = 0
    BY <1>6, <2>1, VecesTipo DEF Uno
  <2>. QED
    BY <1>6, <2>1, <2>2, VecesTipo
<1>11. DespertadosOK'
  <2>1. DespertadoUno(t)'
    BY <1>3 DEF DespertadoUno, Despierta
  <2>. QED
    BY <1>0, <1>2, <2>1, DespertadosDeUno
<1>12. SuspensionLlena'
  BY <1>0, <1>1, <1>3, SuspensionDeUno
<1>13. ColasUnicas'
  BY <1>1 DEF ColasUnicas
<1>14. GradoConservado'
  <2>1. PesoGrado(t)' = PesoGrado(t)
    BY <1>1, <1>3, <1>5 DEF PesoGrado, Uno
  <2>. QED
    BY <1>0, <2>1, GradoDeUno
<1>15. CadaUnoEnUnLugar'
  <2>1. ASSUME NEW q \in PIDs  PROVE PesoLugar(t, q)' = PesoLugar(t, q)
    <3>1. /\ Uno(Lleva(t, q)') = Uno(Lleva(t, q))
          /\ Uno(CorreA(t, q)') = Uno(CorreA(t, q)) /\ Uno(CierraA(t, q)') = Uno(CierraA(t, q))
      BY <1>3 DEF Uno
    <3>2. Suspendido(q)' = Suspendido(q)
      BY <1>6, <1>7, TiposDeSumas, VecesTipo, UnoTipo DEF Suspendido
    <3>. QED
      BY <1>1, <1>5, <3>1, <3>2 DEF PesoLugar, EnAlta, EnMemoria, EnMano, EnCpu
  <2>. QED
    BY <1>0, <2>1, LugarDeUno
<1>16. DetenidosEncolados'
  <2>1. ASSUME NEW q  PROVE DetieneUno(t, q)' <=> DetieneUno(t, q) /\ q # p
    BY <1>0, <1>1, <1>3, <1>6, <1>8 DEF DetieneUno
  <2>2. ASSUME NEW q  PROVE EncolaUno(t, q)' <=> EncolaUno(t, q) /\ q # p
    BY <1>1, <1>2, <1>3 DEF EncolaUno, p
  <2>. QED
    BY <1>0, <1>2, <2>1, <2>2, DetenidosPorHilo, DetenidosDeUno
<1>17. SuspensionPendiente'
  <2>1. \A u \in Hilos : pc[u] \in {"soltar", "mediano"} => pc'[u] = pc[u]
    BY <1>0, <1>1 DEF SoloCambia
  <2>. QED
    BY <1>1, <2>1 DEF SuspensionPendiente
<1>. QED
  BY <1>3, <1>11, <1>12, <1>13, <1>14, <1>15, <1>16, <1>17

\* The steps of the connections and of the schedulers that move nobody.
LEMMA InternosDePlanificadores ==
  ASSUME SinCarreras, IndGrado, Base'
  PROVE  /\ \A p \in PIDs : Conectar(p) => Nucleo'
         /\ EsperarLargoPlazo \/ AvisarDessuspension => Nucleo'
         /\ EsperarReady => Nucleo'
<1>. USE DEF IndGrado, Base, IndProc, IndInv, TypeOK, TiposHilos
<1>1. ASSUME NEW p \in PIDs, Conectar(p)  PROVE Nucleo'
  <2>. DEFINE t == Atencion(p)
  <2>1. /\ t \in Hilos /\ t \notin Cpus /\ SoloCambia(t)
    BY <1>1, HilosDistintos, SoloAtencion
  <2>2. Interno(t)
    BY <1>1, <2>1 DEF Interno, Conectar, En, Ir, listas, contadores, sems, carpinchos
  <2>. QED
    BY <2>1, <2>2, InternoConserva
<1>2. ASSUME EsperarLargoPlazo \/ AvisarDessuspension  PROVE Nucleo'
  <2>1. LP \in Hilos /\ LP \notin Cpus /\ LP \notin Atenciones /\ SoloCambia(LP)
    BY <1>2, HilosDistintos, SoloLargoPlazo DEF HiloLargoPlazo
  <2>2. Interno(LP)
    BY <1>2, <2>1 DEF Interno, EsperarLargoPlazo, AvisarDessuspension, En, Ir, listas, sems,
                      carpinchos
  <2>. QED
    BY <2>1, <2>2, InternoConserva
<1>3. ASSUME EsperarReady  PROVE Nucleo'
  <2>1. CP \in Hilos /\ CP \notin Cpus /\ CP \notin Atenciones
    BY HilosDistintos
  <2>2. SoloCambia(CP)
    BY <1>3, <2>1 DEF SoloCambia, EsperarReady, Ir, procesadores
  <2>3. Interno(CP)
    BY <1>3, <2>1 DEF Interno, EsperarReady, En, Ir, listas, sems, carpinchos
  <2>. QED
    BY <2>1, <2>2, <2>3, InternoConserva
<1>. QED
  BY <1>1, <1>2, <1>3

\* The steps of a processor that move nobody: requests, answers, units that
\* come back to a semaphore.
LEMMA InternosDeCpu ==
  ASSUME SinCarreras, IndGrado, Base', NEW t \in Cpus,
         \/ Recibir(t) \/ Memoria(t) \/ InitSem(t) \/ WaitTomar(t) \/ PostSumar(t)
         \/ Destruir(t) \/ Liberar(t) \/ UnidadSumar(t)
  PROVE  Nucleo'
<1>0. /\ t \in Hilos /\ t \notin Atenciones /\ t # DL /\ t # CP /\ t \in Ejecutores
      /\ TypeOK /\ SoloCambia(t)
  BY HilosDistintos, SoloCpu DEF IndGrado, Base, IndProc, IndInv, HiloCpu
<1>1. FaseOK(t) /\ MutexUno(t) /\ PedidosOK
  BY DEF IndGrado, Base, IndProc, IndInv, ControlOK, FasesOK, Nucleo, MutexOK
<1>2. /\ pc' \in [Hilos -> Pasos] /\ pc \in [Hilos -> Pasos]
      /\ pedido \in [Ejecutores -> Pedidos]
  BY <1>0 DEF TypeOK, TiposHilos, IndGrado, Base, IndProc, IndInv
<1>3. CASE Recibir(t)
  <2>1. PICK r \in Peticiones(lugar[t]) :
           pc' = [pc EXCEPT ![t] = r.op] /\ pedido' = [pedido EXCEPT ![t] = r]
    BY <1>3 DEF Recibir, Ir
  <2>2. r.op \in Operaciones
    BY PeticionesPermitidas
  <2>3. pc[t] = "recibir" /\ pc'[t] = r.op /\ pedido'[t].op = r.op /\ pedido[t] = SinPedido
    BY <1>0, <1>1, <1>2, <1>3, <2>1 DEF Recibir, En, FaseOK
  <2>4. ~Cerrando(t) /\ ~Cerrando(t)'
    BY <2>3 DEF Cerrando, SinPedido
  <2>5. /\ pc'[t] \notin {"fuera", "pasarANew"} /\ ~Durmiendo(t)' /\ ~Despierta(t)'
        /\ pc'[t] \notin {"vaciar", "despachar"}
    BY <2>2, <2>3 DEF Operaciones, Durmiendo, Despierta
  <2>6. Interno(t)
    <3>1. /\ UNCHANGED <<nuevo, ready, blocked, blockedSusp, readySusp, semGrado, cola, liberados>>
          /\ mano' = mano /\ mtxSem' = mtxSem /\ lugar' = lugar /\ ocupado' = ocupado
      BY <1>3 DEF Recibir, listas, contadores, procesadores, sems
    <3>2. MutexUno(t)'
      BY <2>5 DEF MutexUno
    <3>. QED
      BY <1>0, <2>3, <2>4, <2>5, <3>1, <3>2 DEF Interno, Durmiendo, Despierta
  <2>. QED
    BY <1>0, <2>6, InternoConserva
<1>4. CASE Memoria(t) \/ InitSem(t) \/ WaitTomar(t) \/ PostSumar(t)
  <2>1. /\ pc[t] \in {"MEM", "INICIALIZAR_SEM", "ESPERAR_SEM", "POST_SEM"}
        /\ pc'[t] = "recibir" /\ pedido'[t] = SinPedido /\ mtxSem' = mtxSem
    BY <1>0, <1>2, <1>4 DEF Memoria, InitSem, WaitTomar, PostSumar, En, Volver, Ir, sems
  <2>2. pedido[t].op # "CLOSE"
    BY <1>1, <2>1 DEF PedidosOK, Operaciones
  <2>3. Interno(t)
    BY <1>0, <1>4, <2>1, <2>2
       DEF Interno, Memoria, InitSem, WaitTomar, PostSumar, listas, contadores, procesadores, sems,
           Cerrando, SinPedido, MutexUno, Durmiendo, Despierta
  <2>. QED
    BY <1>0, <2>3, InternoConserva
<1>5. CASE Destruir(t)
  <2>1. /\ pc[t] \in {"DESTROY_SEM", "vaciar"} /\ pc'[t] = "recibir" /\ pedido'[t] = SinPedido
        /\ pc[t] = "DESTROY_SEM" => mtxSem = Nadie
    BY <1>0, <1>2, <1>5 DEF Destruir, En, Volver, Ir
  <2>2. pedido[t].op # "CLOSE" /\ mtxSem \in {Nadie, t}
    BY <1>1, <2>1 DEF PedidosOK, Operaciones, MutexUno
  <2>3. Interno(t)
    BY <1>0, <1>5, <2>1, <2>2
       DEF Interno, Destruir, listas, contadores, procesadores,
           Cerrando, SinPedido, MutexUno, Durmiendo, Despierta
  <2>. QED
    BY <1>0, <2>3, InternoConserva
<1>6. CASE Liberar(t)
  <2>1. pc[t] = "liberar" /\ pc'[t] = "unidad" /\ mtxSem = Nadie
    BY <1>0, <1>2, <1>6 DEF Liberar, En, Ir, PuedeLiberar
  <2>2. Interno(t)
    BY <1>0, <1>6, <2>1
       DEF Interno, Liberar, listas, contadores, procesadores, carpinchos,
           Cerrando, MutexUno, Durmiendo, Despierta
  <2>. QED
    BY <1>0, <2>2, InternoConserva
<1>7. CASE UnidadSumar(t)
  <2>1. pc[t] = "unidad" /\ pc'[t] \in {"liberar", "unidad"}
    BY <1>0, <1>2, <1>7 DEF UnidadSumar, En, Ir
  <2>2. Interno(t)
    BY <1>0, <1>7, <2>1
       DEF Interno, UnidadSumar, listas, contadores, procesadores, carpinchos,
           Cerrando, MutexUno, Durmiendo, Despierta
  <2>. QED
    BY <1>0, <2>2, InternoConserva
<1>. QED
  BY <1>3, <1>4, <1>5, <1>6, <1>7

\* The process dies, or nothing happens.
LEMMA QuietoConserva ==
  ASSUME IndGrado, UNCHANGED <<listas, contadores, procesadores, sems, carpinchos, hilos>>
  PROVE  Nucleo'
<1>. USE DEF IndGrado, Nucleo, listas, contadores, procesadores, sems, carpinchos, hilos
<1>1. MutexOK' /\ DespertadosOK' /\ SuspensionLlena' /\ ColasUnicas'
  BY DEF MutexOK, MutexUno, DespertadosOK, DespertadoUno, SuspensionLlena, ColasUnicas, Durmiendo,
         Despierta, Suspende
<1>2. GradoConservado' /\ SuspensionPendiente'
  BY DEF GradoConservado, Cerrando, SuspensionPendiente
<1>3. DetenidosEncolados'
  BY DEF DetenidosEncolados
<1>4. CadaUnoEnUnLugar'
  BY DEF CadaUnoEnUnLugar, Cerrando, Ejecuta
<1>. QED
  BY <1>1, <1>2, <1>3, <1>4

-----------------------------------------------------------------------------
\* The invariant of the slots and the places.

\* What the initial state has of each thread.
LEMMA HilosAlEmpezar ==
  ASSUME SinCarreras, Init
  PROVE  /\ \A p \in PIDs : pc[Atencion(p)] = "fuera"
         /\ \A t \in Cpus : pc[t] = "recibir" /\ ~ocupado[t] /\ pedido[t] = SinPedido
         /\ pc[LP] = "largo" /\ pc[CP] = "ready" /\ pc[DL] = "detectar"
         /\ \A t \in Hilos : mano[t] = Nadie
         /\ \A t \in Hilos : pc[t] \in {"fuera", "recibir", "largo", "ready", "detectar"}
<1>0. Ios = {}
  BY DEF SinCarreras, Ios
<1>1. \A p \in PIDs : pc[Atencion(p)] = "fuera"
  BY <1>0, HilosDistintos DEF Init
<1>2. \A t \in Cpus : pc[t] = "recibir"
  BY <1>0, HilosDistintos DEF Init
<1>4. pc[LP] = "largo" /\ pc[CP] = "ready" /\ pc[DL] = "detectar"
  BY <1>0, HilosDistintos DEF Init
<1>3. /\ \A t \in Cpus : ~ocupado[t] /\ pedido[t] = SinPedido
      /\ \A t \in Hilos : mano[t] = Nadie
  BY HilosDistintos DEF Init
<1>5. ASSUME NEW t \in Hilos
      PROVE  pc[t] \in {"fuera", "recibir", "largo", "ready", "detectar"}
  BY <1>0, <1>1, <1>2, <1>4 DEF Hilos, Atenciones
<1>. QED
  BY <1>1, <1>2, <1>3, <1>4, <1>5

\* It holds when the kernel starts: nobody is connected and every slot is free.
LEMMA IndGradoInicial ==
  ASSUME SinCarreras, Init
  PROVE  IndGrado
<1>1. Base
  <2>1. PasosOK
    BY HilosAlEmpezar DEF PasosOK, PasoUno, Atenciones
  <2>. QED
    BY <2>1, IndProcInicial DEF Base
<1>2. /\ nuevo = <<>> /\ ready = <<>> /\ blocked = <<>> /\ blockedSusp = <<>> /\ readySusp = <<>>
      /\ semGrado = Grado /\ liberados = {} /\ cola = [s \in Semaforos |-> <<>>]
      /\ Len(ready) = 0 /\ Len(blocked) = 0 /\ ToSet(blocked) = {} /\ ToSet(blockedSusp) = {}
      /\ \A p : /\ Veces(nuevo, p) = 0 /\ Veces(ready, p) = 0 /\ Veces(blocked, p) = 0
                /\ Veces(blockedSusp, p) = 0 /\ Veces(readySusp, p) = 0
  <2>1. /\ nuevo = <<>> /\ ready = <<>> /\ blocked = <<>> /\ blockedSusp = <<>> /\ readySusp = <<>>
        /\ semGrado = Grado /\ liberados = {} /\ cola = [s \in Semaforos |-> <<>>]
    BY DEF Init
  <2>2. <<>> \in Seq(PIDs) /\ Len(<<>>) = 0 /\ ToSet(<<>>) = {}
    BY DEF ToSet
  <2>3. \A p : Veces(<<>>, p) = 0
    BY <2>2, VecesTipo
  <2>. QED
    BY <2>1, <2>2, <2>3
<1>3. MutexOK /\ DespertadosOK /\ SuspensionLlena
  BY HilosAlEmpezar
     DEF MutexOK, MutexUno, Durmiendo, Despierta, DespertadosOK, DespertadoUno, SuspensionLlena,
         Suspende
<1>4. ColasUnicas
  BY <1>2 DEF ColasUnicas
<1>5. /\ {t \in Cpus : ocupado[t] /\ pc[t] # "soltar"} = {} /\ {t \in Cpus : Cerrando(t)} = {}
      /\ {t \in Hilos : pc[t] \in {"suspender", "avisar"}} = {}
      /\ \A p : /\ {t \in Hilos : pc[t] = "suspender" /\ mano[t] = p} = {}
                /\ {t \in Cpus : Ejecuta(t, p)} = {}
                /\ {t \in Cpus : Cerrando(t) /\ lugar[t] = p} = {}
  BY HilosAlEmpezar DEF Cerrando, Ejecuta, SinPedido
<1>6. GradoConservado
  <2>1. Uno(pc[CP] = "despachar") = 0
    BY HilosAlEmpezar DEF Uno
  <2>2. Grado \in Nat /\ Cardinality({}) = 0
    BY FS_EmptySet, CantidadesAssumption
  <2>3. /\ Cardinality({t \in Cpus : ocupado[t] /\ pc[t] # "soltar"}) = 0
        /\ Cardinality({t \in Cpus : Cerrando(t)}) = 0
        /\ Cardinality({t \in Hilos : pc[t] \in {"suspender", "avisar"}}) = 0
    BY <1>5, <2>2
  <2>. QED
    BY <1>2, <2>1, <2>2, <2>3 DEF GradoConservado
<1>7. CadaUnoEnUnLugar
  <2>1. ASSUME NEW p \in PIDs
        PROVE  /\ Uno(pc[Atencion(p)] \in {"fuera", "pasarANew"}) = 1
               /\ Uno(mano[CP] = p) = 0 /\ Uno(p \in liberados) = 0
    BY <1>2, HilosAlEmpezar, HilosDistintos, NadieAssumption DEF Uno
  <2>2. Cardinality({}) = 0
    BY FS_EmptySet
  <2>3. ASSUME NEW p \in PIDs
        PROVE  /\ Cardinality({t \in Hilos : pc[t] = "suspender" /\ mano[t] = p}) = 0
               /\ Cardinality({t \in Cpus : Ejecuta(t, p)}) = 0
               /\ Cardinality({t \in Cpus : Cerrando(t) /\ lugar[t] = p}) = 0
    BY <1>5, <2>2
  <2>. QED
    BY <1>2, <2>1, <2>3 DEF CadaUnoEnUnLugar
<1>8. DetenidosEncolados
  <2>1. Bloqueados(cola) = {}
    BY <1>2 DEF Bloqueados, ToSet
  <2>2. /\ {t \in Hilos : pc[t] = "suspender"} = {} /\ {t \in Cpus : pc[t] = "bloquear"} = {}
        /\ {t \in Hilos : pc[t] \in {"aReady", "aReadySusp"}} = {}
    BY HilosAlEmpezar
  <2>. QED
    BY <1>2, <2>1, <2>2 DEF DetenidosEncolados
<1>9. SuspensionPendiente
  BY <1>2 DEF SuspensionPendiente
<1>. QED
  BY <1>1, <1>3, <1>4, <1>6, <1>7, <1>8, <1>9 DEF IndGrado, Nucleo

\* Every step preserves it.
LEMMA IndGradoPreserva ==
  ASSUME SinCarreras, IndGrado, [Next]_vars
  PROVE  IndGrado'
<1>0. Base' /\ TypeOK
  BY BasePreserva DEF IndGrado, Base, IndProc, IndInv
<1>1. CASE UNCHANGED vars
  BY <1>0, <1>1, QuietoConserva DEF vars, IndGrado
<1>2. ASSUME NEW p \in PIDs, Conectar(p) \/ HiloAtencion(p)  PROVE Nucleo'
  <2>1. Atencion(p) \in Atenciones \cup Cpus /\ SoloCambia(Atencion(p))
    BY <1>0, <1>2, HilosDistintos, SoloAtencion
  <2>. QED
    BY <1>0, <1>2, <2>1, InternosDePlanificadores, PasarANewConserva, MedianoConserva,
       SuspenderConserva, AvisarConserva DEF HiloAtencion
<1>3. CASE HiloLargoPlazo
  <2>1. CASE EsperarLargoPlazo \/ AvisarDessuspension
    BY <1>0, <2>1, InternosDePlanificadores DEF IndGrado
  <2>2. CASE AdmitirSuspendido \/ AdmitirNuevo
    BY <1>0, <2>2, AdmitirConserva DEF IndGrado
  <2>. QED
    BY <1>3, <2>1, <2>2 DEF HiloLargoPlazo
<1>4. CASE HiloCortoPlazo
  <2>1. CASE EsperarReady
    BY <1>0, <2>1, InternosDePlanificadores DEF IndGrado
  <2>2. CASE Elegir
    BY <1>0, <2>2, ElegirConserva DEF IndGrado
  <2>3. CASE Despachar
    BY <1>0, <2>3, DespacharConserva DEF IndGrado
  <2>. QED
    BY <1>4, <2>1, <2>2, <2>3 DEF HiloCortoPlazo
<1>5. ASSUME NEW t \in Cpus, Recibir(t) \/ HiloCpu(t)  PROVE Nucleo'
  <2>1. CASE Mediano(t) \/ Suspender(t) \/ AvisarSuspension(t)
    <3>1. t \in Atenciones \cup Cpus /\ SoloCambia(t)
      BY <1>0, <1>5, SoloCpu
    <3>. QED
      BY <1>0, <2>1, <3>1, MedianoConserva, SuspenderConserva, AvisarConserva
  <2>2. CASE SemaforoNulo(t) \/ LiberarNulo(t)
    BY <2>2, QuietoConserva DEF SemaforoNulo, LiberarNulo, Caer
  <2>3. ~PedirIO(t)
    <3>1. FaseOK(t) /\ PedidosOK
      BY DEF IndGrado, Base, IndProc, IndInv, ControlOK, FasesOK
    <3>. QED
      BY <3>1 DEF FaseOK, PedidosOK, Operaciones, SinCarreras, PedirIO, En
  <2>. QED
    BY <1>0, <1>5, <2>1, <2>2, <2>3, InternosDeCpu, WaitEncolarConserva, BloquearConserva,
       SoltarConserva, CloseSoltarConserva, FinCloseConserva, DespertarConserva,
       MoverAReadyConserva, MoverAReadySuspConserva DEF HiloCpu
<1>6. ASSUME NEW t \in Ios, HiloIO(t)  PROVE Nucleo'
  BY <1>6 DEF SinCarreras, Ios
<1>7. ~HiloDeadlock
  BY SinKills DEF IndGrado, Base
<1>. QED
  BY <1>0, <1>1, <1>2, <1>3, <1>4, <1>5, <1>6, <1>7 DEF Next, IndGrado

\* In the regime without races, the invariant of the slots and the places
\* holds in every reachable state.
THEOREM InvarianteDeGrado ==
  ASSUME SinCarreras
  PROVE  Spec => []IndGrado
<1>1. Init => IndGrado
  BY IndGradoInicial
<1>2. IndGrado /\ [Next]_vars => IndGrado'
  BY IndGradoPreserva
<1>. QED
  BY <1>1, <1>2, PTL DEF Spec

\* sem_grado_multiprogramacion never promises a slot that is not there and
\* never forgets one (pasar_a_new, wait_sem, mate_close and the three
\* schedulers): the slots add up to grado_multiprogramacion.
THEOREM GradoSeConserva ==
  ASSUME SinCarreras
  PROVE  Spec => []GradoConservado
<1>1. IndGrado => GradoConservado
  BY DEF IndGrado, Nucleo
<1>. QED
  BY <1>1, InvarianteDeGrado, PTL

\* No PCB is in two lists, twice in one, on two processors or lost: whatever
\* the schedulers, the wake-ups and the closes do to it, it is in one place.
THEOREM NadieEnDosLugares ==
  ASSUME SinCarreras
  PROVE  Spec => []CadaUnoEnUnLugar
<1>1. IndGrado => CadaUnoEnUnLugar
  BY DEF IndGrado, Nucleo
<1>. QED
  BY <1>1, InvarianteDeGrado, PTL

\* wait_sem and the wake-ups never part: who is stopped is in a queue or in
\* the hands of a waker, and nobody else is.
THEOREM NingunDespertarSePierde ==
  ASSUME SinCarreras
  PROVE  Spec => []DetenidosEncolados
<1>1. IndGrado => DetenidosEncolados
  BY DEF IndGrado, Nucleo
<1>. QED
  BY <1>1, InvarianteDeGrado, PTL

\* BLOCKED is never left full with somebody in NEW and nobody on the way to
\* algoritmo_planificador_mediano_plazo_blocked_suspended.
THEOREM SuspensionNuncaOlvidada ==
  ASSUME SinCarreras
  PROVE  Spec => []SuspensionPendiente
<1>1. IndGrado => SuspensionPendiente
  BY DEF IndGrado, Nucleo
<1>. QED
  BY <1>1, InvarianteDeGrado, PTL
=============================================================================
