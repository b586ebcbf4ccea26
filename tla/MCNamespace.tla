----------------------------- MODULE MCNamespace -----------------------------
(***************************************************************************)
(* Small instances of Namespace.  The names are not interchangeable when   *)
(* one of them has an underscore, so no symmetry is used.                  *)
(***************************************************************************)
EXTENDS Namespace

CONSTANTS a, b, c, x

\* Three directories side by side, two of them with a child and one level more.
Trees == {<<a>>, <<b>>, <<c>>, <<a, x>>, <<c, x>>, <<a, x, x>>, <<c, x, x>>}

\* Two directories with a child each.
TwoTrees == {<<a>>, <<b>>, <<a, x>>, <<b, x>>}
=============================================================================
