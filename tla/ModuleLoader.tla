----------------------------- MODULE ModuleLoader -----------------------------
(* require: the resolution of a request to a file, and the cache of modules,  *)
(* which the modules of a cycle and a module that throws share (loader.js,    *)
(* internal/module-registry.js).  All of it is synchronous: a frame of the    *)
(* stack is a module whose source runs.  A file is named by its place, the    *)
(* depth of its directory below the root, its name, and the form it was found *)
(* in; realpath is done by that, and reads never fail.  The bootstrap, which  *)
(* is before it, and native packages are left out.                            *)
EXTENDS Integers, Sequences

CONSTANTS
    Disk,        \* the files
    Cwd,         \* the depth of the working directory
    Main,        \* the script of the service
    Scripts,     \* what the sources may do: a set of [Disk -> sequences of steps]
    Late,        \* what callbacks of modules require after that
    MaxLate,     \* bound: requires by callbacks
    MaxModule    \* bound: modules ever made

Place == {"internal", "builtins", "packages", "scoped", "modules", "dir"}
Form == {"file", "js", "json", "main", "index"}
File == [place : Place, depth : Nat, name : STRING, form : Form]
\* A step of a source is a request, caught or not, or an exception.
Requests == [kind : {"internal", "builtin", "strict", "skyjs", "scope", "relative", "none"},
            name : STRING, down : Int]
Step == [request : Requests, caught : BOOLEAN]
Throws == [request |-> [kind |-> "none", name |-> "none", down |-> 0], caught |-> FALSE]

ASSUME LoaderAssumption ==
    /\ Disk \subseteq File /\ Main \in Disk /\ Late \subseteq Requests
    /\ Cwd \in Nat /\ MaxLate \in Nat /\ MaxModule \in Nat
    /\ Scripts \subseteq [Disk -> Seq(Step)]
ASSUME JsonAssumption ==
    \A s \in Scripts, f \in Disk : f.form = "json" => s[f] \in {<<>>, <<Throws>>}

VARIABLES
    script,     \* the source of each file
    cache,      \* Module._cache: the module of each file, 0 for none
    made,       \* how many modules were made
    module,     \* each of them: its file, its state, and got, the modules it was given, and
                \* whether they were loaded then
    stack,      \* the modules whose source, or a callback of theirs, runs, the innermost
                \* last: what is left to do, and whether it is a callback
    thrown,     \* an exception is on its way to the innermost frame
    late
loaderVars == <<script, cache, made, module, stack, thrown, late>>

Id == 1 .. MaxModule
NoFile(code) == [place |-> "none", depth |-> 0, name |-> code, form |-> "none"]
NotFound == NoFile("MODULE_NOT_FOUND")
Denied == NoFile("ERR_PERMISSION")
LoaderInit ==
    /\ script \in Scripts /\ cache = [f \in Disk |-> 0] /\ made = 0
    /\ module = [id \in Id |-> [file |-> NotFound, state |-> "none", got |-> {}]]
    /\ stack = <<>> /\ thrown = FALSE /\ late = 0
-----------------------------------------------------------------------------
(* Resolution: a file, or the reason why there is none.                    *)

Exists(f) == f \notin {NotFound, Denied}
Or(f, g) == IF Exists(f) THEN f ELSE g
TryFile(place, depth, name, form) ==
    LET f == [place |-> place, depth |-> depth, name |-> name, form |-> form]
    IN  IF f \in Disk THEN f ELSE NotFound
TryExtensions(place, depth, name) ==
    Or(TryFile(place, depth, name, "file"),
       Or(TryFile(place, depth, name, "js"), TryFile(place, depth, name, "json")))
TryDirectory(place, depth, name) ==
    Or(TryFile(place, depth, name, "main"), TryFile(place, depth, name, "index"))
TryPathOrDirectory(place, depth, name) ==
    Or(TryExtensions(place, depth, name), TryDirectory(place, depth, name))
TryEngineModule(place, name) ==
    Or(TryFile(place, Cwd, name, "file"),
       Or(TryFile(place, Cwd, name, "js"), TryFile(place, Cwd, name, "index")))

\* node_modules of the directory, and of those above it, up to the root.
SearchNodeModules(place, depth, name) ==
    LET at == {d \in 0 .. depth : Exists(TryPathOrDirectory(place, d, name))}
    IN  IF at = {} THEN NotFound
        ELSE TryPathOrDirectory(place, CHOOSE d \in at : \A e \in at : e <= d, name)

\* Only the engine's modules may name an internal one.
IsInternalAllowed(parent) == parent.place \in {"internal", "builtins"}
\* Builtins come before packages of the same name, and the packages of the
\* workspace before installed ones; strict names are those without a fallback:
\* with the prefix node:, and some of the engine's.
ResolveFilename(r, parent) ==
    CASE r.kind = "internal" ->
            IF IsInternalAllowed(parent) THEN TryEngineModule("internal", r.name) ELSE Denied
      [] r.kind = "strict"  -> TryEngineModule("builtins", r.name)
      [] r.kind = "builtin" ->
            Or(TryEngineModule("builtins", r.name), SearchNodeModules("modules", parent.depth, r.name))
      [] r.kind = "skyjs" ->
            Or(TryEngineModule("builtins", r.name),
               Or(TryPathOrDirectory("packages", Cwd, r.name),
                  Or(TryPathOrDirectory("scoped", Cwd, r.name),
                     SearchNodeModules("scoped", parent.depth, r.name))))
      [] r.kind = "scope"    -> SearchNodeModules("scoped", parent.depth, r.name)
      [] r.kind = "relative" -> TryPathOrDirectory(parent.place, parent.depth + r.down, r.name)
-----------------------------------------------------------------------------
(* _load.                                                                  *)

Top == stack[Len(stack)]
Below == SubSeq(stack, 1, Len(stack) - 1)
\* The frame has done its next step.
Advanced(frames) ==
    [i \in 1 .. Len(frames) |->
        IF i = Len(frames) THEN [frames[i] EXCEPT !.todo = Tail(@)] ELSE frames[i]]

\* What a module keeps of the one it required.
Given(parent, id, whole) ==
    [module[parent] EXCEPT !.got = @ \cup {[id |-> id, whole |-> whole]}]
\* A module is in the cache before its source runs.
Begins(f, frames) ==
    /\ made < MaxModule /\ made' = made + 1
    /\ module' = [module EXCEPT ![made + 1] = [file |-> f, state |-> "runs", got |-> {}]]
    /\ cache' = [cache EXCEPT ![f] = made + 1]
    /\ stack' = Append(frames, [id |-> made + 1, todo |-> script[f], callback |-> FALSE])

RunMain ==
    /\ made = 0 /\ Begins(Main, <<>>)
    /\ UNCHANGED <<script, thrown, late>>
\* A callback of a module requires something and catches what is thrown.  The
\* service whose script threw has ended.
Callback(id, r) ==
    /\ stack = <<>> /\ module[1].state = "loaded" /\ late < MaxLate /\ late' = late + 1
    /\ stack' = <<[id |-> id, todo |-> <<[request |-> r, caught |-> TRUE]>>, callback |-> TRUE]>>
    /\ UNCHANGED <<script, cache, made, module, thrown>>

Executes == stack # <<>> /\ ~thrown
HasStep == Executes /\ Top.todo # <<>>
\* What was required is told of in the cache, or made; or there is no such file.
Finds(f) ==
    /\ f \in Disk /\ cache[f] # 0
    /\ module' = [module EXCEPT ![Top.id] =
                    Given(Top.id, cache[f], module[cache[f]].state = "loaded")]
    /\ stack' = Advanced(stack)
    /\ UNCHANGED <<cache, made, thrown>>
Makes(f) == f \in Disk /\ cache[f] = 0 /\ Begins(f, stack) /\ UNCHANGED thrown
Misses(f) == f \notin Disk /\ thrown' = TRUE /\ UNCHANGED <<cache, made, module, stack>>
Load(f) == Finds(f) \/ Makes(f) \/ Misses(f)
Require ==
    /\ HasStep /\ Head(Top.todo) # Throws
    /\ Load(ResolveFilename(Head(Top.todo).request, module[Top.id].file))
    /\ UNCHANGED <<script, late>>
Throw ==
    /\ HasStep /\ Head(Top.todo) = Throws
    /\ thrown' = TRUE /\ UNCHANGED <<script, cache, made, module, stack, late>>

\* The source has ended: its exports go to the module that required it.
Loaded ==
    /\ Executes /\ Top.todo = <<>> /\ ~Top.callback
    /\ LET done == [module EXCEPT ![Top.id].state = "loaded"]
           parent == Below[Len(Below)].id
       IN  module' = IF Below = <<>> THEN done
                     ELSE [done EXCEPT ![parent] = Given(parent, Top.id, TRUE)]
    /\ stack' = Advanced(Below) /\ UNCHANGED <<script, cache, made, thrown, late>>
Returns ==
    /\ Executes /\ Top.todo = <<>> /\ Top.callback /\ stack' = Below
    /\ UNCHANGED <<script, cache, made, module, thrown, late>>

\* The exception is caught around the require, or leaves the module, which is
\* forgotten; those it had been given to keep it.
\* BUG: a module that threw stays in the cache.
Forgets_Not(f) == cache
Forgets(f) == [cache EXCEPT ![f] = 0]
Caught ==
    /\ stack # <<>> /\ thrown /\ Head(Top.todo).caught
    /\ thrown' = FALSE /\ stack' = Advanced(stack)
    /\ UNCHANGED <<script, cache, made, module, late>>
Fails ==
    /\ stack # <<>> /\ thrown /\ ~Head(Top.todo).caught
    /\ cache' = Forgets(module[Top.id].file)
    /\ module' = [module EXCEPT ![Top.id].state = "dead"]
    /\ stack' = Below /\ thrown' = (Below # <<>>)
    /\ UNCHANGED <<script, made, late>>

LoaderNext ==
    \/ RunMain \/ Require \/ Throw \/ Loaded \/ Returns \/ Caught \/ Fails
    \/ \E id \in 1 .. made, r \in Late : Callback(id, r)
=============================================================================
