----------------------------- MODULE MCFtpTransfer -----------------------------
(* Two files: one that ends with a short packet in its second burst, and an
   empty one. *)
EXTENDS FtpTransfer

MCSize == [f \in Files |-> IF f = "long" THEN 7 ELSE 0]
================================================================================
