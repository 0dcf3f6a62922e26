------------------------------ MODULE MCChain ------------------------------
(***************************************************************************)
(* Instances of Chain for TLC: an ssh upstream that goes through a VPN.    *)
(***************************************************************************)
EXTENDS Chain

CONSTANTS s1, v

MCConnNames == <<s1, v>>
MCVia == [u \in {s1, v} |-> IF u = v THEN NoVia ELSE v]

=============================================================================
