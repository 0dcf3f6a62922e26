--------------------------- MODULE MCOpenConnect ---------------------------
(***************************************************************************)
(* Instances of OpenConnect for TLC: a request and a user over two         *)
(* processes.  The proofs cover every number of each.                      *)
(***************************************************************************)
EXTENDS OpenConnect

=============================================================================
