---------------------------- MODULE MCFtpSession ----------------------------
(***************************************************************************)
(* Small instances of FtpSession for TLC.                                  *)
(***************************************************************************)
EXTENDS FtpSessionProperties

Short  == <<"p">>
Long   == <<"p", "q">>
Accent == <<"p", "accent">>

Command(verbs, param) == {[verb |-> v, param |-> param] : v \in verbs}

\* Two names, one longer than the other, and one that does not parse: then the
\* command before it runs again, with a mixture of the two names.
MCCommands == Command({"PASV", "LIST", "RETR", "QUIT"}, << >>)
              \cup Command({"USER", "STOR"}, Short)
              \cup Command({"PASS"}, Long)
              \cup Command({"USER"}, Accent)
=============================================================================
