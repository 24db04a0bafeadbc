------------------------------ MODULE MCLading ------------------------------
EXTENDS Lading

CONSTANTS g1, g2

Targets == {"none", "pid", "docker", "binary"}

(* One generator with every choice of telemetry and duration, two with the *)
(* capture file, or one with an inspector.                                 *)
MCConfigs ==
  [target : Targets, telemetry : {"log", "prometheus"}, infinite : BOOLEAN,
   inspector : {FALSE}, generators : {{g1}}]
  \cup
  [target : {"none", "binary"}, telemetry : {"log"}, infinite : {FALSE},
   inspector : {FALSE}, generators : {{g1, g2}}]
  \cup
  [target : {"none", "binary"}, telemetry : {"log"}, infinite : {FALSE},
   inspector : {TRUE}, generators : {{g1}}]
=============================================================================
