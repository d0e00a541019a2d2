----------------------- MODULE HttpDownloadProperties -----------------------
(***************************************************************************)
(* What should hold of a download.                                         *)
(***************************************************************************)
EXTENDS HttpDownload

\* The types of the parser's state, of the buffers and of the connection.
TypeOK ==
  /\ response \in Responses /\ wire \in Seq(Chars) /\ cut \in BOOLEAN
  /\ link \in {"open", "closed", "reset"}
  /\ parser \in
       [state : {"getHTTPStatusLine", "finishedHTTPStatusLine", "getHeaderName", "getHeaderValue",
                 "finishedHeaderValue", "finishedHeaderValue_2", "getChunkLength", "getChunkData",
                 "finishedChunkData", "getContentLengthData", "packetEnd"},
        pos : 0..1, type : {"empty", "chunked", "length"}, remaining : Nat,
        name : Seq(Chars), value : Seq(Chars), length : Seq(Chars)]
  /\ mode \in {"update", "whole"} /\ pc \in {"idle", "recv", "parse", "overrun", "segv"}
  /\ packet \in Seq(Chars) /\ buf \in Seq(Chars) /\ out \in Seq(Chars)
  /\ result \in Nat \cup {NoResult}

IsPrefixOf(s, t) == Len(s) <= Len(t) /\ s = SubSeq(t, 1, Len(s))

\* However recv cuts the response, and whatever bytes its body is made of, what
\* the parser has written is a beginning of the body, without the chunk lengths
\* and line ends between its parts, and all of it when the parser is at the end
\* of the packet.
EndIsWhole ==
  /\ IsPrefixOf(out \o buf, Body(response))
  /\ AtEnd => out \o buf = Body(response)

\* process_data never looks at the length of its output: what bounds a call is
\* that recv is asked for no more than the caller's buffer holds.  That bounds the
\* data and not the NUL after it, so a call writes up to one byte more than the
\* size it was given, and never two.  RETR has a spare block behind its buffer, the
\* FUSE read passes a size that leaves no room.
OneBytePast == mode = "update" => Len(Written) <= BufferMax + 1

\* fileTransfer.c: "if this returns 0 then every call after wil return 0 //FIXME:
\* test that this is true".  The comment is updateFileDownload's, and what it says
\* is shown of gdrive_downloadUpdate: with DISABLE_ENCRYPTION, as the repository is
\* built, updateFileDownload returns what that returns.
ZeroIsFinal == [][mode = "update" /\ result = 0 => result' = 0]_vars

Stream == INSTANCE FileStream WITH file <- Body(response),
                                  ended <- mode = "update" /\ result = 0

\* The driver keeps the promise of a stream: parts of the file in order, each
\* once, and zero only after the last one or when the server went away.
StreamSpec == Stream!Spec

\* A response that says its body is empty leaves the parser waiting for a byte.
EmptyBody == response.framing = "length" /\ Body(response) = << >>

\* No call of downloadUpdate waits for ever, even when the server goes away in
\* the middle; utils_recvNextHttpPacket needs all of the response.
CallsReturn ==
  pc # "idle" ~> pc = "idle" \/ (mode = "whole" /\ cut) \/ EmptyBody

\* A response that arrives whole is returned whole.
FileArrives == <>(out = Body(response) \/ cut)

\* fileTransfer.c: "returns the amount of file data returned in the buffer": a
\* caller gets nothing but bytes of the file.
OnlyFileData == IsPrefixOf(out, Body(response))
=============================================================================
