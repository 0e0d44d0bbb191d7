-------------------------------- MODULE MCSwamp --------------------------------
(* Instances of Swamp for TLC. *)
EXTENDS Swamp, TLC

\* MARCOS_POR_CARPINCHO: negative and positive; and the value of swamp.config.
DinamicaYFija == {-1, 3}
ConfiguracionEntregada == {0}

\* No definition tells one process from another.
ProcesosIguales == Permutations(Procesos)
=============================================================================
