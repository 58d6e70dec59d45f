---------------------------- MODULE MCEventChain ----------------------------
(* TLC instance of EventChain: small rings, so that both fill and wrap; e1  *)
(* comes from handlers, e2 from FBs that execute                           *)
EXTENDS EventChain

CONSTANTS h1, h2, e1, e2

MCHandler == {h1, h2}
MCOneHandler == {h1}
MCEvent == {e1, e2}
MCStarted == {e1}
MCSent == {e2}
=============================================================================
