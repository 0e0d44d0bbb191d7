--------------------------- MODULE MCPlanificacion ---------------------------
(***************************************************************************)
(* Planificacion on small instances; the .cfg files choose the constants,  *)
(* here are the sets they name: which operations the clients of a run use, *)
(* and the initial values they give to semaphores.                         *)
(***************************************************************************)
EXTENDS Planificacion

LlamadasEspera == {"INICIALIZAR_SEM", "ESPERAR_SEM"}
LlamadasSemaforos == LlamadasEspera \cup {"POST_SEM", "CLOSE"}
LlamadasSinClose == LlamadasEspera \cup {"POST_SEM", "DESTROY_SEM"}
LlamadasSinIO == LlamadasSemaforos \cup {"DESTROY_SEM"}
LlamadasIO == {"CALL_IO", "MEM", "CLOSE"}

ValoresUno == {1}
ValoresCeroUno == {0, 1}
=============================================================================
