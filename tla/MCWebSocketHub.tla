--------------------------- MODULE MCWebSocketHub ---------------------------
(***************************************************************************)
(* Two clients behind one address.  Client b's filter lets no edit through.*)
(* Every channel holds one element.                                        *)
(***************************************************************************)
EXTENDS WebSocketHub

MCClients == {"a", "b"}
MCIp == [c \in MCClients |-> 1]
MCWants == [c \in MCClients |->
              IF c = "a" THEN Messages ELSE {m \in Messages : m[1] = "alert"}]
=============================================================================
