---------------------------- MODULE MCMusicTraces ----------------------------
(* The corpus, synchronized in every receiver order of three replicas.       *)
EXTENDS MusicTraces

MCOrders == {<<1, 2, 3>>, <<1, 3, 2>>, <<2, 1, 3>>, <<2, 3, 1>>, <<3, 1, 2>>, <<3, 2, 1>>}

\* What the theorems about the corpus suppose.
ASSUME MCMusicTracesAssumption == LabConstants
=============================================================================
