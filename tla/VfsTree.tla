------------------------------ MODULE VfsTree ------------------------------
(***************************************************************************)
(* What the virtual file system promises its clients: one tree, in which a *)
(* creation adds one entry with an id of its own, at once, in a directory  *)
(* that is there, and in which nothing is lost or changed.  The promise    *)
(* lasts until an id is handed out twice.                                  *)
(***************************************************************************)
CONSTANT Root

VARIABLES
  tree,     \* the entries: [dir, kind, id, name]
  unique    \* no id has been handed out twice

vars == <<tree, unique>>

Init == tree = {} /\ unique = TRUE

IsDirectory(d) == d = Root \/ \E e \in tree : e.kind = "dir" /\ e.id = d

Create ==
  \E e \in tree' \ tree :
    /\ tree' = tree \cup {e}
    /\ IsDirectory(e.dir)
    /\ e.id # Root
    /\ \A f \in tree : f.id # e.id

Next == \/ unique' = unique /\ unique /\ Create
        \/ unique' = FALSE

Spec == Init /\ [][Next]_vars
=============================================================================
