--------------------------- MODULE MCAsyncWriter ---------------------------
(***************************************************************************)
(* Instances of AsyncWriter for TLC: batches of two readings and one alert *)
(* stand for a hundred and fifty.                                          *)
(***************************************************************************)
EXTENDS AsyncWriter

MCEntries == [k \in Queues |-> CASE k = "data" -> 3 [] k = "alert" -> 1 [] k = "message" -> 2]
MCLimit == [k \in Queues |-> IF k = "data" THEN 2 ELSE 1]
=============================================================================
