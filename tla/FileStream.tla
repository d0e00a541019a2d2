----------------------------- MODULE FileStream -----------------------------
(***************************************************************************)
(* What a download promises its caller: the bytes of the file, in order    *)
(* and each once, in parts that are not empty, and then zero for ever.     *)
(***************************************************************************)
EXTENDS Naturals, Sequences

VARIABLES
  file,    \* the bytes the server has for the caller
  cut,     \* the server went away before it sent all of them
  out,     \* the bytes the caller has got
  ended    \* the caller has been told that there are no more

vars == <<file, cut, out, ended>>

Init == out = << >> /\ ended = FALSE /\ cut = FALSE

Deliver ==
  /\ ~ended /\ Len(out) < Len(file)
  /\ \E n \in Len(out) + 1..Len(file) : out' = SubSeq(file, 1, n)
  /\ UNCHANGED <<file, cut, ended>>

End ==
  /\ out = file \/ cut
  /\ ended' = TRUE
  /\ UNCHANGED <<file, cut, out>>

Cut == cut' = TRUE /\ UNCHANGED <<file, out, ended>>

Next == Deliver \/ End \/ Cut

Spec == Init /\ [][Next]_vars
=============================================================================
