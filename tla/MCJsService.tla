----------------------------- MODULE MCJsService -----------------------------
(* Instances of one JavaScript service for TLC.                             *)
EXTENDS JsServiceProperties
CONSTANTS r1, r2, call, remote
=============================================================================
