------------------------------- MODULE MCGate -------------------------------
(* An instance of the gate for TLC: three clients where two are admitted,   *)
(* bytes of radix 2, frames of no byte and of one byte, and a ring of two   *)
(* slots at first.                                                          *)
EXTENDS GateProperties
CONSTANTS f1, f2, f3
Clients == {f1, f2, f3}
Streams == (f1 :> <<<<1>>, <<>>, <<0>>>>) @@ (f2 :> <<<<1>>>>) @@ (f3 :> <<>>)
=============================================================================
