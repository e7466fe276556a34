----------------------------- MODULE MCAlertHub -----------------------------
(***************************************************************************)
(* Two connections of which one at a time is admitted, two spike alerts,   *)
(* one malformed alert of an edit war, one alert of a stream in an answer. *)
(***************************************************************************)
EXTENDS AlertHub

MCClients == {"a", "b"}
MCMaxAlerts == [s \in Streams |-> IF s = "spikes" THEN 2 ELSE 1]
MCMalformed == {<<"editwars", 1>>}
=============================================================================
