------------------------- MODULE TransferProperties -------------------------
(***************************************************************************)
(* What should hold of a file that is uploaded and downloaded again.       *)
(***************************************************************************)
EXTENDS Transfer

\* The types of the variables; the cipher context has room for one block.
TypeOK ==
  /\ pc \in {"stor", "answer", "stored", "retr", "done", "cut", "stuck", "dead"}
  /\ message \in {"open", "whole", "short"}
  /\ file \in Seq(1..MaxSize) /\ unread \in Seq(1..MaxSize)
  /\ held \in Seq(0..MaxSize) /\ Len(held) <= BlockSize
  /\ body \in Seq(0..MaxSize) /\ rest \in Seq(0..MaxSize)
  /\ piece \in Seq(-1..MaxSize) /\ sent \in Seq(-1..MaxSize)

IsPrefixOf(s, t) == Len(s) <= Len(t) /\ s = First(t, Len(s))

Encrypted == file \o Padding(file)

\* However recv cuts the upload, Google decodes whole blocks of the encrypted
\* file in order, and all of them when the request ends where it should.
StoredInOrder ==
  /\ IsPrefixOf(body, Encrypted) /\ Len(body) % BlockSize = 0
  /\ message = "whole" => body = Encrypted

\* RETR sends no padding and nothing out of order while it is receiving, also
\* when Google has only a part of the file.  Nothing is said of the last piece:
\* when finishDecryption fails on a file or a download that was cut, the piece
\* before it goes out again.
SentInOrder == pc = "retr" => IsPrefixOf(sent, file)

\* A file that was stored whole and received whole comes back as it was uploaded,
\* however recv cuts it on its two ways.
RoundTrip == pc = "done" /\ message = "whole" => sent = file

\* ftpServer.c: STOR answers "226 Transfer complete.": Google has the whole file.
StoredWhole == pc = "stored" => body = Encrypted
=============================================================================
