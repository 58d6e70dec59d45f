---------------------------- MODULE MCLocalComm ----------------------------
(* Values for model-checking LocalComm. *)
EXTENDS LocalComm, TLC

CONSTANTS p1, p2, s1, s2, r1, r2, g1, g2

MCBlock == {p1, p2, s1, s2}
MCResource == {r1, r2}
MCGroup == {g1, g2}

OneGroup == [b \in MCBlock |-> g1]

(* one publisher with two subscribers in another resource                  *)
FanOut == [home |-> p1 :> r1 @@ p2 :> r1 @@ s1 :> r2 @@ s2 :> r2, group |-> OneGroup,
           publishers |-> {p1}, subscribers |-> {s1, s2}]

(* two resources that publish to a block in one of them                    *)
Merge == [home |-> p1 :> r1 @@ p2 :> r2 @@ s1 :> r2 @@ s2 :> r2, group |-> OneGroup,
          publishers |-> {p1, p2}, subscribers |-> {s1}]

(* two resources that publish to each other                                *)
Mutual == [home |-> p1 :> r1 @@ p2 :> r2 @@ s1 :> r1 @@ s2 :> r2,
           group |-> p1 :> g1 @@ s2 :> g1 @@ p2 :> g2 @@ s1 :> g2,
           publishers |-> {p1, p2}, subscribers |-> {s1, s2}]

MCApplications == {FanOut, Merge, Mutual}
MCManaged == {s1}
=============================================================================
