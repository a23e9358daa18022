-------------------------------- MODULE MCBuffer --------------------------------
(* Buffer for TLC: bytes that differ within a string, so that an order can be lost. *)
EXTENDS Buffer

MCStrings == {<<>>, <<"a">>, <<"b", "c">>, <<"c", "a", "b">>}
===============================================================================
