------------------------------- MODULE MCConexion -------------------------------
(* Instances of Conexion for TLC. *)
EXTENDS Conexion

CONSTANTS a, b

\* One client and its heap: blocks that split, join, grow and empty pages.
Uno == [kernel |-> FALSE, clientes |-> {a}, tamanios |-> {2, 4, 7}, bloques |-> 3, particiones |-> 1,
        pedidos |-> {"memalloc", "memfree"}]
\* Two clients and their connections.
Dos == [kernel |-> FALSE, clientes |-> {a, b}, tamanios |-> {3}, bloques |-> 2, particiones |-> 2,
        pedidos |-> Pedidos]

ConfiguracionesDePrueba ==
    { Uno,
      [Uno EXCEPT !.tamanios = {2, 10}, !.bloques = 4],
      [Uno EXCEPT !.tamanios = {1, 11}, !.pedidos = @ \union {"memread", "memwrite"}],
      Dos,
      [Dos EXCEPT !.particiones = 1, !.bloques = 1],
      [Dos EXCEPT !.kernel = TRUE, !.pedidos = Pedidos \ {"otro", "morir"}] }
=============================================================================
