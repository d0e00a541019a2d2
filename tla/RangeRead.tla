------------------------------ MODULE RangeRead ------------------------------
(***************************************************************************)
(* A FUSE read of a part of a file that STOR has uploaded (fileTransfer.c, *)
(* read_callback).  The blocks that overlap the range are fetched, with    *)
(* the block before them as the initialisation vector, decrypted, and      *)
(* trimmed at both ends.                                                   *)
(*                                                                         *)
(* The read is composed with Transfer: `body` is what Google kept.  A read *)
(* has a cipher context of its own, `kept`.                                *)
(***************************************************************************)
EXTENDS Transfer

VARIABLES
  reading,   \* "idle", the next step of the read, or how it ended
  offset,    \* rangeStart
  size,      \* how many bytes read_callback wants
  stream,    \* of the response, what has not been received
  iv,        \* encryptedPacketBuffer, from which the vector is taken
  counted,   \* encryptedDataDownloaded
  kept,      \* what the cipher context has taken in and not given out
  decrypted, \* amountOfFileDecrypted
  got        \* buf up to dataCopied

rangeVars == <<reading, offset, size, stream, iv, counted, kept, decrypted, got>>
allVars   == <<vars, rangeVars>>

Cipher == INSTANCE Transfer WITH held <- kept

RangeInit ==
  /\ Init
  /\ reading = "idle" /\ offset = 0 /\ size = 0
  /\ stream = << >> /\ iv = << >> /\ counted = 0 /\ kept = << >>
  /\ decrypted = 0 /\ got = << >>

AtMost(s, n) == First(s, IF Len(s) < n THEN Len(s) ELSE n)

-----------------------------------------------------------------------------
(* The range.  Both of its ends are inclusive.                              *)

EncStart(start) ==
  IF start < BlockSize THEN 0 ELSE start - (start % BlockSize) - BlockSize

RoundedUp(n) == IF n % BlockSize = 0 THEN n ELSE n + (BlockSize - (n % BlockSize))

EncEndLow(end) == end - (end % BlockSize)   \* mutant: the last block is left out

EncEnd(end) == RoundedUp(end)

DecryptedStartNoVector == EncStart(offset)   \* mutant: the vector is data

\* Where the first byte that is decrypted belongs in the file.
DecryptedStart == IF EncStart(offset) = 0 THEN 0 ELSE EncStart(offset) + BlockSize

\* The last byte is the one after those that were asked for.
RangeEnd == offset + size

\* How many bytes are too many at the end and at the start of the `length`
\* bytes that were decrypted last, `amount` being all that were so far.
trimTop(amount) ==
  IF DecryptedStart + amount - 1 > RangeEnd THEN DecryptedStart + amount - 1 - RangeEnd ELSE 0

trimBottomOver(amount, length) ==   \* mutant: the byte at the offset goes too
  IF DecryptedStart + amount - length < offset
  THEN length - (DecryptedStart + amount - offset) + 1
  ELSE 0

trimBottom(amount, length) ==
  IF DecryptedStart + amount - length < offset
  THEN length - (DecryptedStart + amount - offset)
  ELSE 0

\* Nobody looks at the status of the response, and the message of an error is
\* taken for data.
Refusal == [i \in 1..2 * BlockSize |-> Junk]

Response(start, end) ==
  IF start < Len(body) THEN After(AtMost(body, end + 1), start) ELSE Refusal

-----------------------------------------------------------------------------

\* startEncryptedFileDownload and the request.  With DISABLE_ENCRYPTION, as the
\* repository has it, what the driver returns is passed on ("raw").
ReadStart ==
  /\ reading = "idle" /\ pc = "stored"
  /\ \E o \in 0..Len(file) - 1, n \in 1..MaxSize :
       /\ offset' = o /\ size' = n
       /\ stream' = Response(EncStart(o), EncEnd(o + n))
       /\ reading' \in {"raw", IF EncStart(o) < BlockSize THEN "fetch" ELSE "iv"}
  /\ UNCHANGED <<vars, iv, counted, kept, decrypted, got>>

CopyAll(data) ==   \* mutant: it does not stop at the end of its buffer
  /\ got' = got \o data
  /\ reading' = IF data = << >> \/ Len(got') >= size THEN "ended"
              ELSE IF reading = "raw" THEN "raw" ELSE "fetch"

\* read_callback takes what updateFileDownload returned.  It stops when it has
\* enough, and at a 0.
Copy(data) ==
  /\ got' = AtMost(got \o data, size)
  /\ reading' = IF data = << >> \/ Len(got') = size THEN "ended"
              ELSE IF reading = "raw" THEN "raw" ELSE "fetch"

\* The part of the decrypted bytes that is in the range.  Less than none are
\* moved when the range starts after them.
Trimmed(out) ==
  LET bottom == trimBottom(decrypted + Len(out), Len(out))
      length == Len(out) - bottom - trimTop(decrypted + Len(out))
  IN  /\ decrypted' = decrypted + Len(out)
      /\ IF length < 0 THEN reading' = "crashed" /\ UNCHANGED got
         ELSE Copy(SubSeq(out, bottom + 1, bottom + length))

\* The cipher makes sense of whole blocks in their places only: without the
\* whole vector it starts inside of one.
Aligned == iv = << >> \/ Len(iv) >= BlockSize

Taken(data) == kept \o (IF Aligned THEN data ELSE [i \in DOMAIN data |-> Junk])

\* The loop that gets the vector.  The first part is counted again with every
\* one that follows.
ReadVector ==
  /\ reading = "iv" /\ stream # << >>
  /\ \E n \in 1..Len(stream) :
       /\ n <= ReadMax
       /\ stream' = After(stream, n) /\ iv' = iv \o First(stream, n)
  /\ counted' = counted + Len(iv')
  /\ reading' = IF counted' < BlockSize THEN "iv" ELSE "extra"
  /\ UNCHANGED <<vars, offset, size, kept, decrypted, got>>

\* What came with the vector is decrypted; when that gives nothing, the same
\* call goes on and fetches more.
ReadExtra ==
  LET extra == After(iv, BlockSize)
      given == Len(extra) - Kept(extra)
  IN  /\ reading = "extra"
      /\ kept' = After(extra, given)
      /\ IF given = 0 THEN reading' = "fetch" /\ UNCHANGED <<decrypted, got>>
         ELSE Trimmed(First(extra, given))
      /\ UNCHANGED <<vars, offset, size, stream, iv, counted>>

\* One downloadUpdate with the decryption of what it returned.
ReadFetch ==
  /\ reading = "fetch" /\ stream # << >>
  /\ \E n \in 1..Len(stream) :
       LET taken == Taken(First(stream, n))
           given == Len(taken) - Kept(taken)
       IN  /\ n <= ReadMax
           /\ stream' = After(stream, n) /\ counted' = counted + n
           /\ kept' = After(taken, given)
           /\ Trimmed(First(taken, given))
  /\ UNCHANGED <<vars, offset, size, iv>>

ReadRaw ==
  /\ reading = "raw" /\ stream # << >>
  /\ \E n \in 1..Len(stream) :
       n <= ReadMax /\ stream' = After(stream, n) /\ Copy(First(stream, n))
  /\ UNCHANGED <<vars, offset, size, iv, counted, kept, decrypted>>

\* The size that a file with a vector at its start would have.
EndOfEncrypted == RoundedUp(Len(file)) + BlockSize

Finishes == reading = "fetch" /\ EncStart(offset) + counted = EndOfEncrypted

\* The driver returns 0 at the end of the response.
ReadEnd ==
  /\ reading \in {"raw", "iv", "fetch"} /\ stream = << >> /\ ~Finishes
  /\ reading' = "ended"
  /\ UNCHANGED <<vars, offset, size, stream, iv, counted, kept, decrypted, got>>

\* What finishDecryption gives out is not trimmed.  When it fails,
\* finalDataLength is not initialised, and so much is copied.
ReadFinish ==
  /\ stream = << >> /\ Finishes
  /\ IF Cipher!MayFail THEN reading' = "crashed" /\ UNCHANGED <<decrypted, got>>
     ELSE /\ reading' = "ended"
          /\ \E n \in Cipher!PaddingLengths :
               /\ got' = AtMost(got \o First(kept, BlockSize - n), size)
               /\ decrypted' = decrypted + BlockSize - n
  /\ UNCHANGED <<vars, offset, size, stream, iv, counted, kept>>

\* The server closes the connection before the end.
ReadCut ==
  /\ reading \in {"raw", "iv", "fetch"} /\ stream # << >>
  /\ reading' = "cut"
  /\ UNCHANGED <<vars, offset, size, stream, iv, counted, kept, decrypted, got>>

-----------------------------------------------------------------------------

Read == ReadStart \/ ReadVector \/ ReadExtra \/ ReadFetch \/ ReadRaw
          \/ ReadEnd \/ ReadFinish \/ ReadCut

\* FUSE reads after STOR; RETR changes nothing that a read looks at.
RangeNext ==
  \/ reading = "idle" /\ Next /\ UNCHANGED rangeVars
  \/ Read

RangeSpec == RangeInit /\ [][RangeNext]_allVars
=============================================================================
