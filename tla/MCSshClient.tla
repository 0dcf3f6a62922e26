---------------------------- MODULE MCSshClient ----------------------------
(***************************************************************************)
(* The instance of SshClient for TLC: a request and a user over two        *)
(* connections, so that one can die and be dialled again.  The proofs      *)
(* cover every number of each.                                             *)
(***************************************************************************)
EXTENDS SshClient

=============================================================================
