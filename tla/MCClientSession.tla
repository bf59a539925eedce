-------------------------- MODULE MCClientSession ---------------------------
(***************************************************************************)
(* ClientSession with the chunks the runs type: a key on its own, the quit *)
(* sequence in one piece, and the two after a key.                         *)
(***************************************************************************)
EXTENDS ClientSession

MCChunks == {<<"esc">>, <<"dot">>, <<"char">>, <<"esc", "dot">>,
             <<"char", "esc", "dot">>}

=============================================================================
