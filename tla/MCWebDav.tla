------------------------------- MODULE MCWebDav -------------------------------
(***************************************************************************)
(* A small instance of WebDav: two names in the root, two requests at a    *)
(* time.                                                                   *)
(***************************************************************************)
EXTENDS WebDav, TLC

CONSTANTS a, b

RootPaths == {<<a>>, <<b>>}

\* A file comes and goes at a, or is moved to b if no directory has been made there.
SomeRequests ==
    {[op |-> op, path |-> <<a>>, dst |-> <<a>>, overwrite |-> FALSE] : op \in {"PUT", "DELETE"}}
        \cup {[op |-> "MKCOL", path |-> <<b>>, dst |-> <<b>>, overwrite |-> FALSE],
              [op |-> "MOVE", path |-> <<a>>, dst |-> <<b>>, overwrite |-> FALSE],
              [op |-> "GC", path |-> GcLease, dst |-> GcLease, overwrite |-> FALSE]}

Symmetry == Permutations(Threads)
=============================================================================
