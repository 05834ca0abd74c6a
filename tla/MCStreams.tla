------------------------------ MODULE MCStreams ------------------------------
(* An instance for TLC.  The kernel and the Node classes share no state: a  *)
(* behaviour exercises one of them, which the other's idle state tells.     *)
EXTENDS StreamProperties
CONSTANTS r1, pipe1, user1, any, none
SourceChunks == <<<<1, 2, 3>>, <<4>>>>
VARIABLE exercised
Init == exercised \in {"core", "node"} /\ CoreInit /\ NodeInit
Next ==
    /\ UNCHANGED exercised
    /\ \/ exercised = "core" /\ CoreNext /\ UNCHANGED nodeVars
       \/ exercised = "node" /\ NodeNext /\ UNCHANGED coreVars
vars == <<exercised, coreVars, nodeVars>>
\* The event loop runs every continuation, and sources and sinks answer.
Core(A) == exercised = "core" /\ A /\ UNCHANGED <<exercised, nodeVars>>
Node(A) == exercised = "node" /\ A /\ UNCHANGED <<exercised, coreVars>>
Spec ==
    /\ Init /\ [][Next]_vars
    /\ WF_vars(Core(PipeSteps)) /\ WF_vars(Core(Pulled))
    /\ WF_vars(Core(SinkWrite)) /\ WF_vars(Core(SinkAnswers))
    /\ \A t \in {pipe1, user1} : WF_vars(Core(EndCloses(t)))
    /\ \A t \in {r1, pipe1} : WF_vars(Core(ReadOn(t) \/ Take(t)))
    /\ WF_vars(Node(Produce \/ ProduceEnd))
    /\ \A i \in 2 .. K : WF_vars(Node(Run(i))) /\ WF_vars(Node(Finish(i)))
    /\ WF_vars(Node(SinkDone)) /\ \A i \in 2 .. K - 1 : WF_vars(Node(TransformDone(i)))
=============================================================================
