---------------------------- MODULE MCXapiEvents ----------------------------
(* Instances of XapiEvents for TLC. *)
EXTENDS XapiEvents
=============================================================================
