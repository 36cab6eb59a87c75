---------------------------- MODULE MCPatchBatch ----------------------------
(* A CLI batch over two browsers beside a daemon's patch of one of them.   *)
EXTENDS PatchBatch, TLC

\* The flows.
CONSTANTS cli, daemon

Plain == [force |-> FALSE, replace |-> FALSE, dry |-> FALSE]

MCBatches ==
    {(cli :> [option |-> o, selected |-> s]) @@ (daemon :> [option |-> Plain, selected |-> {1}]) :
        <<o, s>> \in {<<Plain, {1, 2}>>,
                      <<[Plain EXCEPT !.force = TRUE], {1, 2}>>,
                      <<[Plain EXCEPT !.replace = TRUE], {1}>>,
                      <<[Plain EXCEPT !.replace = TRUE], {1, 2}>>,
                      <<[Plain EXCEPT !.dry = TRUE], {1, 2}>>}}

MCInstalls == {<<"missing", "external">>, <<"external", "missing">>, <<"invalid", "managed">>}
=============================================================================
