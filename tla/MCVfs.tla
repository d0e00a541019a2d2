------------------------------- MODULE MCVfs -------------------------------
(***************************************************************************)
(* Small instances of Vfs for TLC.                                         *)
(***************************************************************************)
EXTENDS VfsProperties, TLC

CONSTANTS c1, c2, c3,      \* sessions
          a, ab, h,        \* the names "a", "ab" and ".h"
          dot, dotdot, none

MCNames  == {a, ab, h, dot, dotdot, none}
MCPrefix == {<<n, n>> : n \in MCNames} \cup {<<none, n>> : n \in MCNames}
            \cup {<<a, ab>>, <<dot, dotdot>>, <<dot, h>>}

Rel(comps) == [abs |-> FALSE, comps |-> comps]
Abs(comps) == [abs |-> TRUE, comps |-> comps]

\* Up and down the tree, a prefix, a file or a folder in the middle of a path,
\* a missing one, doubled slashes and the root.
WalkPaths == {Rel(<<a>>), Rel(<<a, dotdot>>), Abs(<<none, ab>>), Abs(<< >>)}
OnePath   == {Rel(<<a>>)}
DotPaths  == {Rel(<<a>>), Rel(<<dot, dotdot>>), Abs(<<none, ab>>), Abs(<< >>)}

Symmetry == Permutations(Clients)
=============================================================================
