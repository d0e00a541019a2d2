------------------------------ MODULE Transfer ------------------------------
(***************************************************************************)
(* The data of one file: STOR encrypts it and sends it to Google in the    *)
(* chunks of one HTTP request, RETR decrypts what Google kept              *)
(* (ftpServer.c, crypto.c, googleUpload.c).  FtpSession has the            *)
(* connections of the two commands, HttpDownload how a body comes back.    *)
(*                                                                         *)
(* Ciphertext has the bytes of the plaintext in it: what counts here is    *)
(* which bytes the cipher holds back, and for how long.                    *)
(***************************************************************************)
EXTENDS Integers, Sequences

CONSTANTS BlockSize, \* AES_BLOCK_SIZE
          ReadMax,   \* DECRYPTED_BUFFER_LEN, ENCRYPTED_BUFFER_LEN
          MaxSize    \* bound: the longest file

ASSUME BlockAssumption == BlockSize \in Nat \ {0} /\ ReadMax \in Nat \ {0} /\ MaxSize \in Nat

Pad  == 0    \* a byte of padding; the bytes of the file are numbered from 1
Junk == -1   \* a byte that was never written

VARIABLES
  file,     \* what the client uploads
  pc,
  unread,   \* of it, what the session has not received
  held,     \* what the cipher context has taken in and not given out
  body,     \* the media part of the request, as Google decodes its chunks
  message,  \* the request: "open", "whole", or "short" if it ended too early
  rest,     \* of the file that Google kept, what RETR has not received
  piece,    \* decryptedDataBuffer up to tempOutputSize
  sent      \* what RETR has sent to the client

vars == <<file, pc, unread, held, body, message, rest, piece, sent>>

Init ==
  /\ file \in {[i \in 1..n |-> i] : n \in 0..MaxSize}
  /\ pc = "stor" /\ unread = file /\ held = << >>
  /\ body = << >> /\ message = "open"
  /\ rest = << >> /\ piece = << >> /\ sent = << >>

First(s, n) == SubSeq(s, 1, n)
After(s, n) == SubSeq(s, n + 1, Len(s))

-----------------------------------------------------------------------------
(* STOR                                                                     *)

\* EVP_EncryptUpdate gives out the blocks that are complete.
Complete(taken) == Len(taken) - (Len(taken) % BlockSize)

Padding(taken) == [i \in 1..(BlockSize - (Len(taken) % BlockSize)) |-> Pad]

\* googleUpload_update sends what the cipher gave out as a chunk, whatever its
\* length; the chunk of length 0 is the end of an HTTP message.
Upload(data) ==
  /\ body' = IF message = "open" THEN body \o data ELSE body
  /\ message' = IF message = "open" /\ data = << >> THEN "short" ELSE message

StorRead ==
  /\ pc = "stor" /\ unread # << >>
  /\ \E n \in 1..Len(unread) :
       LET taken == held \o First(unread, n) IN
       /\ n <= ReadMax
       /\ unread' = After(unread, n)
       /\ held' = After(taken, Complete(taken))
       /\ Upload(First(taken, Complete(taken)))
  /\ UNCHANGED <<file, pc, rest, piece, sent>>

StorEndUnpadded ==   \* mutant: what the cipher holds is not padded
  /\ pc = "stor" /\ unread = << >> /\ pc' = "answer"
  /\ held' = << >>
  /\ body' = IF message = "open" THEN body \o held ELSE body
  /\ message' = IF message = "open" THEN "whole" ELSE message
  /\ UNCHANGED <<file, unread, rest, piece, sent>>

\* finishEncryption pads, also when nothing is held; the boundary and the last
\* chunk of googleUpload_end follow.
StorEnd ==
  /\ pc = "stor" /\ unread = << >> /\ pc' = "answer"
  /\ held' = << >>
  /\ body' = IF message = "open" THEN body \o held \o Padding(held) ELSE body
  /\ message' = IF message = "open" THEN "whole" ELSE message
  /\ UNCHANGED <<file, unread, rest, piece, sent>>

\* Google answers a request that ended too early as well: with the id of a file,
\* or with an error, and then vfs_createFile formats a NULL as a string.
StorCreate ==
  /\ pc = "answer"
  /\ pc' \in (IF message = "short" THEN {"stored", "dead"} ELSE {"stored"})
  /\ UNCHANGED <<file, unread, held, body, message, rest, piece, sent>>

\* Google closes the connection before the end of its answer:
\* utils_recvNextHttpPacket parses packets of no length for ever.
StorNoAnswer ==
  /\ pc = "answer" /\ pc' = "stuck"
  /\ UNCHANGED <<file, unread, held, body, message, rest, piece, sent>>

-----------------------------------------------------------------------------
(* RETR                                                                     *)

\* tempOutputSize is not initialised.
Retr ==
  /\ pc = "stored" /\ pc' = "retr" /\ rest' = body
  /\ piece' \in {<< >>, <<Junk>>}
  /\ UNCHANGED <<file, unread, held, body, message, sent>>

KeptAll(taken)  == Len(taken)               \* mutant: all is held until the end

\* EVP_DecryptUpdate holds back the last block, which may be padding.
Kept(taken) == IF taken = << >> THEN 0 ELSE ((Len(taken) - 1) % BlockSize) + 1

RetrReadStale ==   \* mutant: the piece before is sent again
  /\ pc = "retr" /\ rest # << >>
  /\ \E n \in 1..Len(rest) :
       LET taken == held \o First(rest, n)
           given == Len(taken) - Kept(taken)
       IN  /\ n <= ReadMax
           /\ rest' = After(rest, n)
           /\ held' = After(taken, given)
           /\ piece' = IF given = 0 THEN piece ELSE First(taken, given)
  /\ sent' = sent \o piece'
  /\ UNCHANGED <<file, pc, unread, body, message>>

RetrRead ==
  /\ pc = "retr" /\ rest # << >>
  /\ \E n \in 1..Len(rest) :
       LET taken == held \o First(rest, n)
           given == Len(taken) - Kept(taken)
       IN  /\ n <= ReadMax
           /\ rest' = After(rest, n)
           /\ held' = After(taken, given)
           /\ piece' = First(taken, given)
  /\ sent' = sent \o piece'
  /\ UNCHANGED <<file, pc, unread, body, message>>

\* How many bytes EVP_DecryptFinal may take for padding.  Data at the end of a
\* block may look like it.
PaddingLengths ==
  IF Len(held) # BlockSize THEN {}
  ELSE IF held[BlockSize] = Pad
  THEN {n \in 1..BlockSize : \A i \in 1..BlockSize : held[i] = Pad <=> i > BlockSize - n}
  ELSE 1..BlockSize

MayFail == \A i \in DOMAIN held : i = BlockSize => held[i] # Pad

RetrEndDrops ==   \* mutant: what finishDecryption gives out is not sent
  /\ pc = "retr" /\ rest = << >> /\ pc' = "done" /\ held' = << >>
  /\ UNCHANGED <<file, unread, body, message, rest, piece, sent>>

\* When finishDecryption fails tempOutputSize keeps its value, and the last
\* piece is sent once more.
RetrFinish ==
  /\ held' = << >>
  /\ \/ \E n \in PaddingLengths : piece' = First(held, BlockSize - n)
     \/ MayFail /\ UNCHANGED piece
  /\ sent' = sent \o piece'
  /\ UNCHANGED <<file, unread, body, message, rest>>

RetrEnd == pc = "retr" /\ rest = << >> /\ pc' = "done" /\ RetrFinish

\* Google closes the connection early: the driver returns 0 as at the end, and
\* what was received is finished as if it were all.
RetrCut == pc = "retr" /\ rest # << >> /\ pc' = "cut" /\ RetrFinish

-----------------------------------------------------------------------------

Next == StorRead \/ StorEnd \/ StorCreate \/ StorNoAnswer
          \/ Retr \/ RetrRead \/ RetrEnd \/ RetrCut

Spec == Init /\ [][Next]_vars
=============================================================================
