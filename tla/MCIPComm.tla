------------------------------ MODULE MCIPComm ------------------------------
(* Values for model-checking IPComm. *)
EXTENDS IPComm

MCServices == {"server", "client"}
MCServer == {"server"}
MCClient == {"client"}
=============================================================================
