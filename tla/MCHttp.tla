------------------------------- MODULE MCHttp -------------------------------
EXTENDS HttpProperties, TLC
SomeCalls == <<{<<"request", "http">>},
               {<<"request", "http">>, <<"stream", "http">>, <<"request", "https">>},
               {<<"request", "">>, <<"head", "http">>, <<"stream", "http">>, <<"request", "ftp">>}>>
BesideOne == <<0, 1, 0>>
Shapes == {[mode |-> "length", n |-> 1, keep |-> TRUE], [mode |-> "length", n |-> 2, keep |-> TRUE],
           [mode |-> "chunked", n |-> 1, keep |-> TRUE],
           [mode |-> "close", n |-> 1, keep |-> FALSE]}
Spec ==
    /\ HttpInit /\ [][HttpNext]_httpVars
    /\ WF_httpVars(\E q \in Task : Job(q)) /\ WF_httpVars(Handle)
    /\ \A fd \in Fd : WF_httpVars(NetStep(fd)) /\ WF_httpVars(Serve(fd))
=============================================================================
