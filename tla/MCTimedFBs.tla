----------------------------- MODULE MCTimedFBs -----------------------------
(* Values for model-checking TimedFBs. *)
EXTENDS TimedFBs, TLC

CONSTANTS f1, f2

MCBlocks == {f1, f2}

(* two delays; a delay beside a cycle; a delay beside a restartable one;   *)
(* STOP and the commands come to f2, which is of each type in turn         *)
MCApplications == {f1 :> "E_DELAY" @@ f2 :> "E_DELAY",
                   f1 :> "E_DELAY" @@ f2 :> "E_CYCLE",
                   f1 :> "E_DELAY" @@ f2 :> "E_RDELAY"}
MCRestarted == {f1 :> "E_RDELAY" @@ f2 :> "E_DELAY"}
MCRestartable == {"E_RDELAY"}
MCOneBlock == {f2}
MCInterval == {0, 2}
=============================================================================
