--------------------------- MODULE MCHttpDownload ---------------------------
(***************************************************************************)
(* Small instances of HttpDownload for TLC.                                *)
(***************************************************************************)
EXTENDS HttpDownloadProperties

Framed(framing, bodies) == {[framing |-> framing, parts |-> ps] : ps \in bodies}

\* Bodies with bytes that mean something elsewhere in a response.
MCResponses ==
  Framed("chunked", {<< >>, <<<<"x">>>>, <<<<"x", CR>>, <<LF>>>>, <<<<"1">>, <<CR, LF, "0">>>>})
  \cup Framed("length", {<< >>, <<<<"x", CR, LF, "y", "z">>>>, <<<<"0">>>>})
  \cup Framed("none", {<< >>})

ResetResponses == Framed("length", {<<<<"x", "y", "z">>>>})

\* What a packet buffer holds from the header.
MCStale == {<<"HTTP", CR, LF>>}
=============================================================================
