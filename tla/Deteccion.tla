------------------------------ MODULE Deteccion ------------------------------
(***************************************************************************)
(* The deadlock criterion of the kernel (algoritmo_deteccion_deadlock in   *)
(* planificacion.c), as operators on two tables:                           *)
(*                                                                         *)
(*   cola[s]    the queue of PIDs blocked on the mate semaphore s          *)
(*   usados[p]  the list recursos_usados of carpincho p: records           *)
(*              [sem, cant], one per semaphore a wait of p ever took       *)
(*                                                                         *)
(* The module declares no constants and no variables: Planificacion uses   *)
(* the operators inside the detector thread; Planificacion_proofs proves   *)
(* that nobody in a circular wait escapes them.                            *)
(***************************************************************************)
EXTENDS SequencesExt

\* The carpinchos of lista_bloqueados_por_semaforo, without repetitions.
Bloqueados(cola) == UNION { ToSet(cola[s]) : s \in DOMAIN cola }

\* The semaphores p is recorded as using.
Retiene(usados, p) == { r.sem : r \in ToSet(usados[p]) }

\* A mutation: off by one.
RetieneAlgoPedidoPorVarios(cola, usados, p) ==
    \E r \in Retiene(usados, p) : Cardinality(ToSet(cola[r]) \ {p}) > 1

\* Somebody other than p waits for a semaphore p is recorded as using.
RetieneAlgoPedido(cola, usados, p) ==
    \E r \in Retiene(usados, p) : ToSet(cola[r]) \ {p} # {}

\* The semaphore on which p is blocked is recorded as used by another
\* blocked carpincho.
PideAlgoRetenido(cola, usados, p) ==
    \E q \in Bloqueados(cola) \ {p} :
        \E s \in Retiene(usados, q) : p \in ToSet(cola[s])

\* lista_procesos_en_deadlock, without repetitions.
EnDeadlock(cola, usados) ==
    { p \in Bloqueados(cola) : /\ RetieneAlgoPedido(cola, usados, p)
                               /\ PideAlgoRetenido(cola, usados, p) }

\* proceso_de_mayor_pid
MayorPID(P) == Max(P)

-----------------------------------------------------------------------------
\* The reference: C is a circular wait.  Everybody in C is blocked on a
\* semaphore another member is recorded as using, and is recorded as using a
\* semaphore on which another member is blocked.
EsperaA(cola, usados, p, q) ==
    \E s \in DOMAIN cola : p \in ToSet(cola[s]) /\ s \in Retiene(usados, q)

EsperaCircular(cola, usados, C) ==
    /\ C # {}
    /\ \A p \in C : /\ \E q \in C \ {p} : EsperaA(cola, usados, p, q)
                    /\ \E q \in C \ {p} : EsperaA(cola, usados, q, p)
=============================================================================
