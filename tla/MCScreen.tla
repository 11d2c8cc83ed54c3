------------------------------ MODULE MCScreen ------------------------------
(***************************************************************************)
(* A small window for TLC.                                                  *)
(***************************************************************************)
EXTENDS Screen

\* A printed line, and a long piece without a newline.
SmallChunks == {<<"o", Newline>>, <<"p", "p", "p", "p">>}

\* Narrower than a full input line, wider, and a window of the input line alone.
SmallSizes == {<<3, 3>>, <<5, 2>>, <<5, 1>>}

=============================================================================
