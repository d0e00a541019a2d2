----------------------------- MODULE AccessToken -----------------------------
(***************************************************************************)
(* How a server gets its tokens when it starts (googleAccessToken.c), and  *)
(* the files it keeps them in.  The FTP and the HTTP server are started in *)
(* one directory, and a server may be killed at any time.                  *)
(*                                                                         *)
(* A grant is what the user allows once; Google makes a refresh token and  *)
(* access tokens of it, and all of these are the grant here.               *)
(***************************************************************************)
CONSTANTS Servers, Grants, NoToken, Absent, Empty

ASSUME TokenAssumption ==
  /\ NoToken \notin Grants /\ Absent \notin Grants /\ Empty \notin Grants
  /\ Absent # Empty

VARIABLES
  refreshFile,       \* refresh.token
  accessFile,        \* access.token
  pc,
  refreshTokenStr,
  accessTokenStr,
  shouldSaveToFile,
  disturbed,         \* history: another server wrote refresh.token meanwhile
  cutShort           \* history: a kill left refresh.token empty

vars == <<refreshFile, accessFile, pc, refreshTokenStr, accessTokenStr, shouldSaveToFile, disturbed,
          cutShort>>
ram  == <<refreshTokenStr, accessTokenStr, shouldSaveToFile>>

Init ==
  /\ refreshFile \in {Absent} \cup Grants /\ accessFile = Absent
  /\ pc = [s \in Servers |-> "down"]
  /\ refreshTokenStr = [s \in Servers |-> NoToken]
  /\ accessTokenStr = [s \in Servers |-> NoToken]
  /\ shouldSaveToFile = [s \in Servers |-> FALSE]
  /\ disturbed = [s \in Servers |-> FALSE] /\ cutShort = FALSE

Goto(s, from, to) == pc[s] = from /\ pc' = [pc EXCEPT ![s] = to]

Disturb(s) == disturbed' = [t \in Servers |-> disturbed[t] \/ t # s]

-----------------------------------------------------------------------------

newAccessTokenState(s) ==
  /\ Goto(s, "down", "load")
  /\ disturbed' = [disturbed EXCEPT ![s] = FALSE]
  /\ refreshTokenStr' = [refreshTokenStr EXCEPT ![s] = NoToken]
  /\ accessTokenStr' = [accessTokenStr EXCEPT ![s] = NoToken]
  /\ shouldSaveToFile' = [shouldSaveToFile EXCEPT ![s] = FALSE]
  /\ UNCHANGED <<refreshFile, accessFile, cutShort>>

LoadNothingCreates(s) ==   \* mutant: fopen makes the file when there is none
  /\ refreshFile = Absent /\ Goto(s, "load", "refresh")
  /\ refreshFile' = Empty
  /\ shouldSaveToFile' = [shouldSaveToFile EXCEPT ![s] = TRUE]
  /\ UNCHANGED <<accessFile, refreshTokenStr, accessTokenStr, disturbed, cutShort>>

\* Without the file an invalid refresh token is used.
LoadNothing(s) ==
  /\ refreshFile = Absent /\ Goto(s, "load", "refresh")
  /\ shouldSaveToFile' = [shouldSaveToFile EXCEPT ![s] = TRUE]
  /\ UNCHANGED <<refreshFile, accessFile, refreshTokenStr, accessTokenStr, disturbed, cutShort>>

LoadEmptyUsed(s) ==   \* mutant: an empty token is used
  /\ refreshFile = Empty /\ Goto(s, "load", "refresh")
  /\ refreshTokenStr' = [refreshTokenStr EXCEPT ![s] = Empty]
  /\ UNCHANGED <<refreshFile, accessFile, accessTokenStr, shouldSaveToFile, disturbed, cutShort>>

\* getline returns -1 on an empty file, and so many bytes are copied.
LoadEmpty(s) ==
  /\ refreshFile = Empty /\ Goto(s, "load", "down")
  /\ UNCHANGED <<refreshFile, accessFile, ram, disturbed, cutShort>>

loadFromFile(s) ==
  /\ refreshFile \in Grants /\ Goto(s, "load", "refresh")
  /\ refreshTokenStr' = [refreshTokenStr EXCEPT ![s] = refreshFile]
  /\ UNCHANGED <<refreshFile, accessFile, accessTokenStr, shouldSaveToFile, disturbed, cutShort>>

-----------------------------------------------------------------------------
(* getAccessTokenWithRefreshToken                                           *)

RefreshGranted(s) ==
  /\ refreshTokenStr[s] \in Grants
  /\ Goto(s, "refresh", IF shouldSaveToFile[s] THEN "saveAccess" ELSE "serving")
  /\ accessTokenStr' = [accessTokenStr EXCEPT ![s] = refreshTokenStr[s]]
  /\ UNCHANGED <<refreshFile, accessFile, refreshTokenStr, shouldSaveToFile, disturbed, cutShort>>

\* The token was revoked, or Google has an error: any answer without a token.
RefreshRefused(s) ==
  /\ Goto(s, "refresh", "link")
  /\ shouldSaveToFile' = [shouldSaveToFile EXCEPT ![s] = TRUE]
  /\ UNCHANGED <<refreshFile, accessFile, refreshTokenStr, accessTokenStr, disturbed, cutShort>>

\* The connection is lost: utils_recvNextHttpPacket never returns.
NoAnswer(s) ==
  /\ \E at \in {"refresh", "link"} : Goto(s, at, "stuck")
  /\ UNCHANGED <<refreshFile, accessFile, ram, disturbed, cutShort>>

-----------------------------------------------------------------------------
(* getNewTokensWithLink: the user pastes a code.  One that Google refuses   *)
(* changes nothing, and the user is asked again.                            *)

LinkPartialEnds(s) ==   \* mutant: an access token is enough
  /\ Goto(s, "link", "saveAccess")
  /\ \E g \in Grants : accessTokenStr' = [accessTokenStr EXCEPT ![s] = g]
  /\ UNCHANGED <<refreshFile, accessFile, refreshTokenStr, shouldSaveToFile, disturbed, cutShort>>

\* An answer without a refresh token has changed the access token all the same.
LinkPartial(s) ==
  /\ Goto(s, "link", "link")
  /\ \E g \in Grants : accessTokenStr' = [accessTokenStr EXCEPT ![s] = g]
  /\ UNCHANGED <<refreshFile, accessFile, refreshTokenStr, shouldSaveToFile, disturbed, cutShort>>

LinkGranted(s) ==
  /\ Goto(s, "link", IF shouldSaveToFile[s] THEN "saveAccess" ELSE "serving")
  /\ \E g \in Grants :
       /\ accessTokenStr' = [accessTokenStr EXCEPT ![s] = g]
       /\ refreshTokenStr' = [refreshTokenStr EXCEPT ![s] = g]
  /\ UNCHANGED <<refreshFile, accessFile, shouldSaveToFile, disturbed, cutShort>>

-----------------------------------------------------------------------------
(* The files.  fopen empties one, fclose writes the token.                  *)

OpenAccess(s) ==
  /\ Goto(s, "saveAccess", "writeAccess") /\ accessFile' = Empty
  /\ UNCHANGED <<refreshFile, ram, disturbed, cutShort>>

saveAccessTokenToFile(s) ==
  /\ Goto(s, "writeAccess", "saveRefresh") /\ accessFile' = accessTokenStr[s]
  /\ UNCHANGED <<refreshFile, ram, disturbed, cutShort>>

OpenRefresh(s) ==
  /\ Goto(s, "saveRefresh", "writeRefresh") /\ refreshFile' = Empty
  /\ Disturb(s)
  /\ UNCHANGED <<accessFile, ram, cutShort>>

saveRefreshTokenToFile(s) ==
  /\ Goto(s, "writeRefresh", "serving") /\ refreshFile' = refreshTokenStr[s]
  /\ Disturb(s) /\ cutShort' = FALSE
  /\ UNCHANGED <<accessFile, ram>>

\* The server is killed, or its machine stops.
Crash(s) ==
  /\ pc[s] # "down" /\ pc' = [pc EXCEPT ![s] = "down"]
  /\ cutShort' = (cutShort \/ (pc[s] = "writeRefresh" /\ refreshFile = Empty))
  /\ UNCHANGED <<refreshFile, accessFile, ram, disturbed>>

-----------------------------------------------------------------------------

Load(s) == LoadNothing(s) \/ LoadEmpty(s) \/ loadFromFile(s)

Refresh(s) == RefreshGranted(s) \/ RefreshRefused(s)

Save(s) == OpenAccess(s) \/ saveAccessTokenToFile(s)
             \/ OpenRefresh(s) \/ saveRefreshTokenToFile(s)

gat_init(s) == newAccessTokenState(s) \/ Load(s) \/ Refresh(s) \/ NoAnswer(s)
                 \/ LinkPartial(s) \/ LinkGranted(s) \/ Save(s)

Next == \E s \in Servers : gat_init(s) \/ Crash(s)

Spec == Init /\ [][Next]_vars
=============================================================================
