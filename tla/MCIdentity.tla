----------------------------- MODULE MCIdentity -----------------------------
(***************************************************************************)
(* A caller on the node and one on the command line, two actors.  `all`    *)
(* holds the registry's mutex, so two calls of one process differ from     *)
(* calls of two processes in the watermark only.  The two callers may be   *)
(* exchanged with their processes, and the two actors.                     *)
(***************************************************************************)
EXTENDS Identity

CONSTANTS ann, bob, node, cli

MCHome == (ann :> node) @@ (bob :> cli)

Symmetry ==
  {(ann :> bob) @@ (bob :> ann) @@ (node :> cli) @@ (cli :> node)}
    \cup Permutations(Actor) \cup Permutations(Key)
=============================================================================
