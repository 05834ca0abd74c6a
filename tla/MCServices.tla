------------------------------ MODULE MCServices ------------------------------
(* An instance for TLC.  The two owners and the module loader share no      *)
(* state: a behaviour is of one of them.                                    *)
EXTENDS ServiceProperties, LoaderProperties
CONSTANTS k1, k2, fileA, fileB, w1, w2, c1, c2, none
VARIABLE owner
Programs == {<<"err">>, <<"missing">>, <<"err", "out">>, <<"out", "out", "in">>,
             <<"in", "out", "out", "out">>}
Contents == {<<1>>, <<2, 2>>}
Whole == [roots |-> {}, max |-> 3, readOnly |-> FALSE]
Policies == {[roots |-> {fileA}, max |-> 3, readOnly |-> FALSE],
             [roots |-> {}, max |-> 1, readOnly |-> FALSE],
             [roots |-> {}, max |-> 3, readOnly |-> TRUE]}
Allowances == {<<4, 0>>, <<2, 1>>}
AllowanceOf == {[k \in Kid |-> IF k = k1 THEN n[1] ELSE n[2]] : n \in Allowances}
At(place, depth, name, form) == [place |-> place, depth |-> depth, name |-> name, form |-> form]
MainFile == At("dir", 1, "main", "js")
FileOfA == At("dir", 1, "a", "js")
FileOfB == At("dir", 2, "b", "index")
Near == At("modules", 1, "p", "main")
Ws == At("packages", 1, "ws", "main")
Fs_js == At("builtins", 1, "fs", "js")
Data == At("dir", 2, "data", "json")
Files == {MainFile, FileOfA, FileOfB, Near, Ws, Fs_js, Data,
          At("modules", 0, "p", "index"), At("internal", 1, "core", "js")}
Asked(kind, name, down) == [kind |-> kind, name |-> name, down |-> down]
Step_(kind, name, down) == [request |-> Asked(kind, name, down), caught |-> FALSE]
Try(step) == [step EXCEPT !.caught = TRUE]
B_of_A == Step_("relative", "b", 1)
A_of_B == Step_("relative", "a", -1)
SourcesOfA == {<<B_of_A, Throws>>, <<B_of_A>>, <<Try(B_of_A), Step_("builtin", "fs", 0)>>}
SourcesOfB == {<<A_of_B, Throws>>, <<A_of_B>>, <<Try(A_of_B), Throws>>,
               <<Try(Step_("internal", "core", 0)), Step_("builtin", "p", 0), Step_("relative", "data", 0)>>}
SomeScripts ==
    {[f \in Files |->
        CASE f = MainFile -> <<Try(Step_("relative", "a", 0)), B_of_A>>
          [] f = FileOfA  -> a
          [] f = FileOfB  -> b
          [] f = Near     -> <<Step_("skyjs", "ws", 0)>>
          [] f = Ws       -> w
          [] f = Fs_js    -> <<Step_("internal", "core", 0)>>
          [] f = Data     -> d
          [] OTHER        -> <<>>] :
        a \in SourcesOfA, b \in SourcesOfB, d \in {<<>>, <<Throws>>},
        w \in {<<Step_("skyjs", "fs", 0)>>, <<Throws>>}}
LateRequests == {Asked("builtin", "p", 0), Asked("relative", "a", 0), Asked("scope", "q", 0),
                 Asked("strict", "fs", 0)}
vars == <<owner, subprocessVars, fsVars, loaderVars>>
Init ==
    /\ owner \in {"subprocess", "fs", "loader"} /\ SubprocessInit /\ FsInit /\ LoaderInit
    /\ owner # "fs" => \A p \in Path : files[p] = Absent
    /\ owner # "subprocess" => \A k \in Kid : proc[k].left = <<"missing">>
    /\ owner # "loader" => script = CHOOSE s \in Scripts : TRUE
    /\ owner # "subprocess" => files[fileB] = Absent /\ calls[k1] = 4
    /\ proc[k2].left = IF calls[k2] = 0 THEN <<"missing">> ELSE <<"err">>
Sub(A) == owner = "subprocess" /\ A /\ UNCHANGED <<owner, fsVars, loaderVars>>
Fs(A) == owner = "fs" /\ A /\ UNCHANGED <<owner, subprocessVars, loaderVars>>
Loads(A) == owner = "loader" /\ A /\ UNCHANGED <<owner, subprocessVars, fsVars>>
Next == Sub(SubprocessNext) \/ Fs(FsNext) \/ Loads(LoaderNext)
\* Both services handle their mail and their timers, processes run, and the
\* caller's continuations do.
Spec ==
    /\ Init /\ [][Next]_vars
    /\ WF_vars(Sub(Mail)) /\ WF_vars(Sub(OnReply)) /\ WF_vars(Sub(Named))
    /\ \A w \in Wait : WF_vars(Sub(Wake(w)))
    /\ \A k \in Kid : WF_vars(Sub(Tick(k))) /\ WF_vars(Sub(ProcSteps(k)))
=============================================================================
