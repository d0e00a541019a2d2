------------------------- MODULE RangeReadProperties -------------------------
(***************************************************************************)
(* What should hold of a read of a part of an uploaded file.  Apart from   *)
(* the types, the properties are about a build that decrypts.              *)
(***************************************************************************)
EXTENDS TransferProperties, RangeRead

\* The types of the variables; the cipher context has room for one block.
RangeTypeOK ==
  /\ reading \in {"idle", "raw", "iv", "extra", "fetch", "ended", "cut", "crashed"}
  /\ offset \in Nat /\ size \in Nat /\ counted \in Nat /\ decrypted \in Nat
  /\ stream \in Seq(-1..MaxSize) /\ iv \in Seq(-1..MaxSize)
  /\ kept \in Seq(-1..MaxSize) /\ Len(kept) <= BlockSize
  /\ got \in Seq(-1..MaxSize) /\ Len(got) <= size

\* The read decrypts, and only that counts; it is of blocks that Google has; and
\* recv did not cut the vector.  When it did, the loop that gets the vector counts
\* its first part twice (fileTransfer.c:135), may stop with too little, and what is
\* decrypted with that is not the file: the properties say nothing of such a read.
Readable == counted > 0 /\ EncStart(offset) < Len(body) /\ Aligned

\* However recv cuts the response behind the vector, a read that got the whole
\* vector (Readable) returns bytes of the file from the offset on, in order:
\* nothing before the range, no padding, nothing twice.
OnlyRange == Readable => IsPrefixOf(got, After(file, offset))

Minimum(a, b) == IF a < b THEN a ELSE b

\* A read that has received all of the response, of a file that was stored
\* whole, has all that it wanted of the file's whole blocks.
ReadWhole ==
  Readable /\ reading = "ended" /\ stream = << >> /\ message = "whole"
    => Len(got) >= Minimum(size, Complete(file) - offset)

\* trimBottom is more than there is when nothing of what was decrypted is in the
\* range, and a negative length is moved.  Reads that start at a block's start,
\* as those of whole pages do, are safe but for the second block, which is
\* fetched without a vector.
BlocksSafe ==
  Readable /\ offset % BlockSize = 0 /\ offset # BlockSize => reading # "crashed"
=============================================================================
