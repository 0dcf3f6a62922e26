----------------------------- MODULE MCTunnels -----------------------------
(***************************************************************************)
(* Instances of Tunnels for TLC.                                           *)
(***************************************************************************)
EXTENDS Tunnels

CONSTANTS up1, t3

\* Every tunnel but t3 is pinned to the same upstream; t3 routes by rules.
MCPin == [t \in TunnelNames |-> IF t = t3 THEN None ELSE up1]

=============================================================================
