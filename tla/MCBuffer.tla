------------------------------- MODULE MCBuffer --------------------------------
(* The instance of Buffer that TLC explores: strings of up to two bytes, and
   buffers that are interchangeable. *)
EXTENDS Buffer, TLC

MCStrings == {<<"x">>, <<"x", "y">>}
Interchangeable == Permutations(Bufs)
===============================================================================
