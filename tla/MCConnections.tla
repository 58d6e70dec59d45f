---------------------------- MODULE MCConnections ----------------------------
(* TLC instance of Connections: three blocks as sources, two as sinks      *)
EXTENDS Connections

MCBlock == {"A", "B", "C", "D"}

MCOwner == [x \in {"start", "real", "plugA"} |-> "A"] @@
           [x \in {"any", "plugB"} |-> "B"] @@
           [x \in {"init", "int", "generic", "socketC"} |-> "C"] @@
           [x \in {"req", "text", "socketD"} |-> "D"]

MCPortType == [real |-> "REAL", any |-> "ANY",
               int |-> "INT", generic |-> "ANY", text |-> "STRING",
               plugA |-> "AUnidir", plugB |-> "ATimeOut",
               socketC |-> "AUnidir", socketD |-> "ANY_ADAPTER"]

MCPlans == {
  {"start"} \X {"init", "req"},
  {"real", "any"} \X {"int", "generic", "text"},
  {"plugA", "plugB"} \X {"socketC", "socketD"} }
=============================================================================
