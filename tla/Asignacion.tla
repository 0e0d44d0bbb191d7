------------------------------ MODULE Asignacion ------------------------------
(***************************************************************************)
(* Planificacion with a history variable: the units of each mate semaphore *)
(* a carpincho really holds.  It takes one when its wait finds a unit or   *)
(* when a post, a close or a kill hands it one, and gives one back with a  *)
(* post.  recursos_usados is the kernel's record of the same thing.        *)
(***************************************************************************)
EXTENDS Planificacion

VARIABLE tiene      \* units of s that p holds

varsA == <<vars, tiene>>

InitA == Init /\ tiene = [p \in PIDs |-> [s \in Semaforos |-> 0]]

\* The step gives p a unit of s.
Recibe(p, s) ==
    \/ \E t \in Cpus : WaitTomar(t) /\ lugar[t] = p /\ pedido[t].obj = s
    \/ /\ \/ \E t \in Cpus : PostDespertar(t) /\ pedido[t].obj = s
          \/ \E t \in Ejecutores : UnidadDespertar(t) /\ vuelta[t].sem = s
       /\ p = Head(cola[s])

\* The step takes a unit of s from p: its own post, or the release of what it
\* used, at its close or its death.
Entrega(p, s) ==
    \/ \E t \in Cpus : /\ PostSumar(t) \/ PostDespertar(t)
                       /\ lugar[t] = p /\ pedido[t].obj = s
    \/ \E t \in Ejecutores : /\ UnidadSumar(t) \/ UnidadDespertar(t)
                             /\ lugar[t] = p /\ vuelta[t].sem = s

\* A post by somebody who holds nothing creates a unit.
NextA ==
    /\ Next
    /\ tiene' = [p \in PIDs |-> [s \in Semaforos |->
                    LET quedan == tiene[p][s] + Uno(Recibe(p, s))
                    IN  IF Entrega(p, s) /\ quedan > 0 THEN quedan - 1 ELSE quedan]]

SpecA == InitA /\ [][NextA]_varsA

\* "Al matar un carpincho hay que liberar los semaforos que tiene asignados
\* (para eso la lista de recursos usados)" (planificacion.c:862): mate_close
\* and a kill release units their carpincho holds, and no others.
SoloSeLiberaLoAsignado ==
    [][\A t \in Ejecutores : UnidadSumar(t) \/ UnidadDespertar(t)
           => tiene[lugar[t]][vuelta[t].sem] > 0]_varsA
=============================================================================
