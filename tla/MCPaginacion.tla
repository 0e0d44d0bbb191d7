------------------------------ MODULE MCPaginacion ------------------------------
(* Instances of Paginacion for TLC. *)
EXTENDS Paginacion, TLC

CONSTANTS a, b

\* Room for both processes; one page more than frames for a.
Fija2 == [tipo |-> "FIJA", mmu |-> "CLOCK-M", tlb |-> "FIFO", entradas |-> 2,
          frames |-> 4, marcos |-> 2, hilos |-> 2, maxSwap |-> 4,
          tope |-> (a :> 3 @@ b :> 1), llamadas |-> {"memalloc", "leer", "escribir"}]
Dinamica1 == [Fija2 EXCEPT !.tipo = "DINAMICA", !.entradas = 0, !.frames = 2, !.marcos = 0,
                           !.hilos = 1, !.tope = (a :> 2 @@ b :> 1)]

ConfiguracionesFijas ==
    { \* replacement with requests that overlap, and one at a time
      [Fija2 EXCEPT !.llamadas = {"memalloc", "leer"}],
      [Fija2 EXCEPT !.hilos = 1],
      [Fija2 EXCEPT !.mmu = "LRU", !.tlb = "LRU", !.entradas = 1, !.llamadas = {"memalloc", "escribir"}],
      \* headers over two pages
      [Fija2 EXCEPT !.entradas = 1, !.llamadas = {"memalloc", "guardar"}],
      [Fija2 EXCEPT !.entradas = 1, !.hilos = 1, !.llamadas = {"memalloc", "escribir", "cabecera"}],
      \* pages given back
      [Fija2 EXCEPT !.entradas = 1, !.hilos = 1, !.llamadas = {"memalloc", "liberar"}],
      \* suspensions, with frames for both and with frames for one
      [Fija2 EXCEPT !.entradas = 1, !.tope = (a :> 2 @@ b :> 1),
                    !.llamadas = {"memalloc", "escribir", "suspender"}],
      [Fija2 EXCEPT !.frames = 2, !.entradas = 1, !.hilos = 1, !.tope = (a :> 2 @@ b :> 1),
                    !.llamadas = {"memalloc", "escribir", "suspender"}],
      \* pages given back by a process that is suspended
      [Fija2 EXCEPT !.entradas = 1, !.llamadas = {"memalloc", "liberar", "suspender"}],
      \* not enough frames for the second process
      [Fija2 EXCEPT !.frames = 3, !.llamadas = {"memalloc", "leer"}] }

ConfiguracionesDinamicas ==
    { [Dinamica1 EXCEPT !.llamadas = Llamadas \ {"suspender"}],
      [Dinamica1 EXCEPT !.frames = 3, !.tope = (a :> 3 @@ b :> 1), !.llamadas = {"memalloc", "leer"}],
      [Dinamica1 EXCEPT !.mmu = "LRU", !.tope = (a :> 3 @@ b :> 1),
                        !.llamadas = {"memalloc", "escribir", "liberar"}],
      [Dinamica1 EXCEPT !.entradas = 1, !.tope = (a :> 3 @@ b :> 1),
                        !.llamadas = {"memalloc", "escribir"}],
      \* two requests that look for a victim at once
      [Dinamica1 EXCEPT !.hilos = 2, !.llamadas = {"memalloc", "escribir"}],
      [Dinamica1 EXCEPT !.hilos = 2, !.tope = (a :> 3 @@ b :> 1),
                        !.llamadas = {"memalloc", "liberar"}],
      [Dinamica1 EXCEPT !.frames = 1, !.hilos = 2, !.entradas = 1, !.tope = (a :> 1 @@ b :> 1),
                        !.llamadas = {"memalloc", "escribir", "suspender"}] }

ConfiguracionesMemoria == ConfiguracionesFijas \union ConfiguracionesDinamicas
=============================================================================
