-------------------------------- MODULE MCPage ---------------------------------
(* The instance of Page that TLC explores: the top of the document and the two
   positions on either side of the navbar's threshold. *)
EXTENDS Page
===============================================================================
