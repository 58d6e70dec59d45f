---------------------------- MODULE MCFBLifecycle ----------------------------
(* Values for model-checking FBLifecycle. *)
EXTENDS FBLifecycle

CONSTANTS start, outer, inner, internal

MCStart == <<start>>
MCPath == {<<>>, <<start>>, <<outer>>, <<outer, inner>>}

(* all commands to the resource, some to an FB alone                       *)
MCCommands ==
  [cmd : Command, path : {<<>>}] \cup [cmd : {"Start", "Stop"}, path : {<<start>>}]
    \cup [cmd : {"Start", "Kill"}, path : {<<outer, inner>>}]

(* outer may be an FB or the container of inner                            *)
MCCreations ==
  {[path |-> <<outer>>, type |-> "plain"], [path |-> <<outer>>, type |-> "unknown"],
   [path |-> <<outer, inner>>, type |-> "composite"], [path |-> <<start>>, type |-> "E_RESTART"]}
=============================================================================
