--------------------------- MODULE MCContextLifecycle ---------------------------
(* One request of each host over a result of two blocks, with an object in one of   *)
(* them, against up to three publications, judgments or rewrites and a new input.   *)
EXTENDS ContextLifecycle

TwoBlocks == {<<1, 1>>, <<1, 2>>}
OneUse == {<<1, 1, 1>>}

=============================================================================
