------------------------ MODULE AccessTokenProperties ------------------------
(***************************************************************************)
(* What should hold of the tokens of the servers.                          *)
(***************************************************************************)
EXTENDS AccessToken

\* The types of the files and of the tokens in memory.
TypeOK ==
  /\ refreshFile \in {Absent, Empty} \cup Grants
  /\ accessFile \in {Absent, Empty} \cup Grants
  /\ pc \in [Servers -> {"down", "load", "refresh", "link", "saveAccess", "writeAccess",
                         "saveRefresh", "writeRefresh", "serving", "stuck"}]
  /\ refreshTokenStr \in [Servers -> {NoToken} \cup Grants]
  /\ accessTokenStr \in [Servers -> {NoToken} \cup Grants]
  /\ shouldSaveToFile \in [Servers -> BOOLEAN]
  /\ disturbed \in [Servers -> BOOLEAN] /\ cutShort \in BOOLEAN

\* googleAccessToken.c: "after this function we can be sure there'll be a
\* refresh token in the refresh token file", one in RAM, and an access token in
\* RAM.  Whatever was refused, left out of an answer or killed before, they are
\* of one grant, and the file's is the server's own unless another server wrote
\* the file since this one was started.
InitPromise ==
  \A s \in Servers : pc[s] = "serving" =>
    /\ refreshTokenStr[s] \in Grants /\ accessTokenStr[s] = refreshTokenStr[s]
    /\ refreshFile = refreshTokenStr[s] \/ disturbed[s]

\* A server that finds refresh.token empty dies when it loads it, and so does every
\* later one: the file is not removed.  Servers that are refused, save and start in
\* any order never leave it so by themselves.  It is empty while one of them is
\* between the fopen and the fclose of saveRefreshTokenToFile, and it stays empty
\* only when the last one that was there was killed.
EmptyOnlyByKill ==
  refreshFile = Empty => cutShort \/ \E s \in Servers : pc[s] = "writeRefresh"
=============================================================================
