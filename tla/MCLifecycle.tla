---------------------------- MODULE MCLifecycle ----------------------------
(***************************************************************************)
(* Instances of Lifecycle for TLC: boot starts the proxy when the          *)
(* application has started, ui is the user's click, and quit stops the     *)
(* proxy at shutdown.                                                      *)
(***************************************************************************)
EXTENDS Lifecycle

=============================================================================
