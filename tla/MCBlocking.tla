------------------------------- MODULE MCBlocking -------------------------------
(* Two modules: side by side, or the one feeding the other. *)
EXTENDS Blocking

CONSTANTS a, b

SideBySide == [m \in Mods |-> System]
InAChain   == [m \in Mods |-> IF m = a THEN b ELSE System]

(* Either a session manager makes its requests, or the UI and the modules *)
(* send what they have to send, but not both: see AssertsHold.            *)
ApartInit ==
  /\ Init
  /\ \/ nsmLeft = 0
     \/ uiLeft = 0 /\ comLeft = 0

ApartSpec == ApartInit /\ [][Next]_vars /\ Fairness
===============================================================================
