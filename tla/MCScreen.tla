------------------------------ MODULE MCScreen ------------------------------
(* Small instances of Screen.                                              *)
EXTENDS Screen

MCStrings == {<<"a">>, <<"a", "LF">>, <<"BS">>, <<"CR">>}
=============================================================================
