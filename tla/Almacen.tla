-------------------------------- MODULE Almacen --------------------------------
(***************************************************************************)
(* What swamp promises to memoria, without files, frames or counters: a    *)
(* store of pages.  A reservation either gives a process its next page     *)
(* numbers or is refused and changes nothing; a page that is brought back  *)
(* is the one last thrown; a page that is released is forgotten.  What a   *)
(* page holds before it is first thrown is not specified.                  *)
(***************************************************************************)
EXTENDS Integers

CONSTANTS
    Procesos,       \* PIDs
    Datos,          \* what a page may hold
    MaxPedido       \* bound: pages asked for at once

VARIABLES
    paginas,        \* set of [pid, pag, dato]
    respuesta       \* the answer memoria has not read yet, or Nada

Nada == [op |-> "NINGUNA"]

PaginasDe(p) == {e.pag : e \in {x \in paginas : x.pid = p}}

\* The highest page of p, or -1.
Ultima(p, u) == u \in PaginasDe(p) \cup {-1} /\ \A g \in PaginasDe(p) : g <= u

RespuestaReserva(p, n, ok) ==
    [op |-> "RESERVAR_ESPACIO", pid |-> p, cant |-> n, ok |-> ok]
RespuestaTraer(p, g, d) ==
    [op |-> "TRAER_DE_SWAP", pid |-> p, pag |-> g, dato |-> d]

Init == paginas = {} /\ respuesta = Nada

Reservar(p, n) ==
    /\ respuesta = Nada
    /\ \E u \in PaginasDe(p) \cup {-1}, d \in [1 .. n -> Datos] :
          /\ Ultima(p, u)
          /\ paginas' = paginas \cup
                { [pid |-> p, pag |-> u + i, dato |-> d[i]] : i \in 1 .. n }
    /\ respuesta' = RespuestaReserva(p, n, TRUE)

Rechazar(p, n) ==
    /\ respuesta = Nada
    /\ respuesta' = RespuestaReserva(p, n, FALSE)
    /\ UNCHANGED paginas

Tirar(e, d) ==
    /\ paginas' = (paginas \ {e}) \cup {[e EXCEPT !.dato = d]}
    /\ UNCHANGED respuesta

Traer(e) ==
    /\ respuesta = Nada
    /\ respuesta' = RespuestaTraer(e.pid, e.pag, e.dato)
    /\ UNCHANGED paginas

Liberar(e) ==
    /\ paginas' = paginas \ {e}
    /\ UNCHANGED respuesta

Leer ==
    /\ respuesta # Nada
    /\ respuesta' = Nada
    /\ UNCHANGED paginas

Next ==
    \/ \E p \in Procesos, n \in 1 .. MaxPedido : Reservar(p, n) \/ Rechazar(p, n)
    \/ \E e \in paginas : Traer(e) \/ Liberar(e) \/ \E d \in Datos : Tirar(e, d)
    \/ Leer

Spec == Init /\ [][Next]_<<paginas, respuesta>>
=============================================================================
