------------------------------- MODULE Faults -------------------------------
(***************************************************************************)
(* Calls to other programs (Redis, Elasticsearch, Kafka, Wikipedia, the    *)
(* mail service) fail, with or without their effect.  A behaviour has at   *)
(* most MaxFaults failed calls.                                            *)
(***************************************************************************)
EXTENDS Naturals

CONSTANT MaxFaults

ASSUME FaultsAssumption == MaxFaults \in Nat

VARIABLE faults   \* calls that may still fail

Works == UNCHANGED faults
Fails == faults > 0 /\ faults' = faults - 1

=============================================================================
