--------------------------- MODULE LoaderProperties ---------------------------
(* What require is checked for: a file has one module, though modules run in  *)
(* cycles, throw, and are required again later.                               *)
EXTENDS ModuleLoader

LoaderSpec == LoaderInit /\ [][LoaderNext]_loaderVars

\* A file has at most one module that runs or is loaded, and it is the cached
\* one, so that state kept in a module is not kept twice; who was given a loaded
\* module has the one everyone else gets; and a module is given before it is
\* loaded only to those its own source had run, in a cycle.  A module that threw
\* is nobody's from then on, except of those in the cycle that hold it.
Alive(id) == module[id].state \in {"runs", "loaded"}
OneModule ==
    /\ \A id \in Id : Alive(id) => cache[module[id].file] = id
    /\ \A f \in Disk : cache[f] # 0 => Alive(cache[f]) /\ module[cache[f]].file = f
    /\ \A id \in Id : \A g \in module[id].got :
          /\ g.whole => module[g.id].state = "loaded"
          /\ ~g.whole => g.id <= id
=============================================================================
