---------------------------- MODULE MCAsignacion ----------------------------
(***************************************************************************)
(* Asignacion on a small instance.                                         *)
(***************************************************************************)
EXTENDS Asignacion

LlamadasSemaforos == {"INICIALIZAR_SEM", "ESPERAR_SEM", "POST_SEM", "CLOSE"}
=============================================================================
