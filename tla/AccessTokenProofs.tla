-------------------------- MODULE AccessTokenProofs --------------------------
(***************************************************************************)
(* What a server has after its start, for any number of servers in one     *)
(* directory and any way to kill them.                                     *)
(***************************************************************************)
EXTENDS AccessTokenProperties, TLAPS

\* The file has the server's token, if no other server has written it.
Own(s) == refreshFile = refreshTokenStr[s] \/ disturbed[s]

Tokens(s) == refreshTokenStr[s] \in Grants /\ accessTokenStr[s] = refreshTokenStr[s]

\* A token that was loaded is the file's; one that is not in the file will be
\* saved, and until then the flag says so.
Starting(s) ==
  /\ pc[s] = "load" => refreshTokenStr[s] = NoToken /\ ~shouldSaveToFile[s]
  /\ pc[s] = "refresh" =>
       IF shouldSaveToFile[s] THEN refreshTokenStr[s] = NoToken ELSE Own(s)
  /\ pc[s] = "link" => shouldSaveToFile[s]
  /\ pc[s] \in {"saveAccess", "writeAccess", "saveRefresh", "writeRefresh"} => Tokens(s)
  /\ pc[s] = "serving" => Tokens(s) /\ Own(s)

IInv == TypeOK /\ \A s \in Servers : Starting(s)

LEMMA InitIInv == Init => IInv
BY DEF Init, IInv, TypeOK, Starting

\* Only tokens that were granted are written to the files.
LEMMA TypeStep == IInv /\ [Next]_vars => TypeOK'
<1> SUFFICES ASSUME IInv, [Next]_vars PROVE TypeOK'
  OBVIOUS
<1>0. TypeOK  BY DEF IInv
<1> USE <1>0 DEF TypeOK, Goto, ram
<1>1. ASSUME NEW s \in Servers, newAccessTokenState(s) PROVE TypeOK'
  BY <1>1 DEF newAccessTokenState
<1>2. ASSUME NEW s \in Servers, Load(s) PROVE TypeOK'
  BY <1>2, ZenonT(30) DEF Load, LoadNothing, LoadEmpty, loadFromFile
<1>3. ASSUME NEW s \in Servers, Refresh(s) \/ NoAnswer(s) PROVE TypeOK'
  BY <1>3 DEF Refresh, RefreshGranted, RefreshRefused, NoAnswer
<1>4. ASSUME NEW s \in Servers, LinkPartial(s) PROVE TypeOK'
  BY <1>4 DEF LinkPartial
<1>5. ASSUME NEW s \in Servers, LinkGranted(s) PROVE TypeOK'
  BY <1>5 DEF LinkGranted
<1>6. ASSUME NEW s \in Servers, Save(s) PROVE TypeOK'
  <2>1. CASE OpenAccess(s)  BY <2>1 DEF OpenAccess
  <2>2. CASE saveAccessTokenToFile(s)
    <3>1. accessTokenStr[s] \in Grants
      BY <2>2 DEF IInv, Starting, Tokens, saveAccessTokenToFile
    <3> QED BY <2>2, <3>1 DEF saveAccessTokenToFile
  <2>3. CASE OpenRefresh(s)  BY <2>3 DEF OpenRefresh, Disturb
  <2>4. CASE saveRefreshTokenToFile(s)
    <3>1. refreshTokenStr[s] \in Grants
      BY <2>4 DEF IInv, Starting, Tokens, saveRefreshTokenToFile
    <3> QED BY <2>4, <3>1 DEF saveRefreshTokenToFile, Disturb
  <2> QED BY <1>6, <2>1, <2>2, <2>3, <2>4 DEF Save
<1>7. ASSUME NEW s \in Servers, Crash(s) PROVE TypeOK'
  BY <1>7 DEF Crash
<1>8. CASE UNCHANGED vars
  BY <1>8 DEF vars
<1> QED
  BY <1>1, <1>2, <1>3, <1>4, <1>5, <1>6, <1>7, <1>8 DEF Next, gat_init

\* What a step of one server does to itself.
LEMMA OwnStep ==
  ASSUME IInv, NEW s \in Servers, gat_init(s) \/ Crash(s)
  PROVE  Starting(s)'
<1> USE DEF IInv, TypeOK, Goto, Starting, Tokens, Own, ram
<1>1. CASE newAccessTokenState(s)  BY <1>1 DEF newAccessTokenState
<1>2. CASE LoadNothing(s)  BY <1>2 DEF LoadNothing
<1>3. CASE LoadEmpty(s)  BY <1>3 DEF LoadEmpty
<1>4. CASE loadFromFile(s)
  <2>1. shouldSaveToFile[s] = FALSE \/ shouldSaveToFile[s] = TRUE  OBVIOUS
  <2> QED BY <1>4 DEF loadFromFile
<1>5. CASE RefreshGranted(s)  BY <1>5, TokenAssumption DEF RefreshGranted
<1>6. CASE RefreshRefused(s)  BY <1>6 DEF RefreshRefused
<1>7. CASE NoAnswer(s)  BY <1>7 DEF NoAnswer
<1>8. CASE LinkPartial(s)  BY <1>8 DEF LinkPartial
<1>9. CASE LinkGranted(s)  BY <1>9 DEF LinkGranted
<1>10. CASE OpenAccess(s)  BY <1>10 DEF OpenAccess
<1>11. CASE saveAccessTokenToFile(s)  BY <1>11 DEF saveAccessTokenToFile
<1>12. CASE OpenRefresh(s)  BY <1>12 DEF OpenRefresh, Disturb
<1>13. CASE saveRefreshTokenToFile(s)  BY <1>13 DEF saveRefreshTokenToFile, Disturb
<1>14. CASE Crash(s)  BY <1>14 DEF Crash
<1> QED
  BY <1>1, <1>2, <1>3, <1>4, <1>5, <1>6, <1>7, <1>8, <1>9, <1>10, <1>11, <1>12, <1>13, <1>14
  DEF gat_init, Load, Refresh, Save

\* What it does to another one: a write of the file is remembered there.
LEMMA OtherStep ==
  ASSUME IInv, NEW s \in Servers, gat_init(s) \/ Crash(s), NEW t \in Servers, t # s
  PROVE  Starting(t)'
<1> USE DEF IInv, TypeOK, Goto, ram
<1>1. /\ pc'[t] = pc[t] /\ refreshTokenStr'[t] = refreshTokenStr[t]
      /\ accessTokenStr'[t] = accessTokenStr[t] /\ shouldSaveToFile'[t] = shouldSaveToFile[t]
  <2>1. CASE newAccessTokenState(s)  BY <2>1 DEF newAccessTokenState
  <2>2. CASE Load(s)  BY <2>2 DEF Load, LoadNothing, LoadEmpty, loadFromFile
  <2>3. CASE Refresh(s) \/ NoAnswer(s)
    BY <2>3 DEF Refresh, RefreshGranted, RefreshRefused, NoAnswer
  <2>4. CASE LinkPartial(s) \/ LinkGranted(s)  BY <2>4 DEF LinkPartial, LinkGranted
  <2>5. CASE Save(s)
    BY <2>5 DEF Save, OpenAccess, saveAccessTokenToFile, OpenRefresh, saveRefreshTokenToFile
  <2>6. CASE Crash(s)  BY <2>6 DEF Crash
  <2> QED BY <2>1, <2>2, <2>3, <2>4, <2>5, <2>6 DEF gat_init
<1>2. (refreshFile' = refreshFile /\ disturbed'[t] = disturbed[t]) \/ disturbed'[t] = TRUE
  <2>1. CASE newAccessTokenState(s)  BY <2>1 DEF newAccessTokenState
  <2>2. CASE Load(s)  BY <2>2 DEF Load, LoadNothing, LoadEmpty, loadFromFile
  <2>3. CASE Refresh(s) \/ NoAnswer(s)
    BY <2>3 DEF Refresh, RefreshGranted, RefreshRefused, NoAnswer
  <2>4. CASE LinkPartial(s) \/ LinkGranted(s)  BY <2>4 DEF LinkPartial, LinkGranted
  <2>5. CASE Save(s)
    BY <2>5 DEF Save, OpenAccess, saveAccessTokenToFile, OpenRefresh, saveRefreshTokenToFile,
       Disturb
  <2>6. CASE Crash(s)  BY <2>6 DEF Crash
  <2> QED BY <2>1, <2>2, <2>3, <2>4, <2>5, <2>6 DEF gat_init
<1> QED BY <1>1, <1>2 DEF Starting, Tokens, Own

LEMMA IInvNext == IInv /\ [Next]_vars => IInv'
<1> SUFFICES ASSUME IInv, [Next]_vars PROVE IInv'
  OBVIOUS
<1>1. TypeOK'  BY TypeStep
<1>2. ASSUME NEW t \in Servers PROVE Starting(t)'
  <2>1. CASE UNCHANGED vars  BY <2>1 DEF IInv, Starting, Tokens, Own, vars
  <2>2. ASSUME NEW s \in Servers, gat_init(s) \/ Crash(s) PROVE Starting(t)'
    BY <2>2, OwnStep, OtherStep
  <2> QED BY <2>1, <2>2 DEF Next
<1> QED BY <1>1, <1>2 DEF IInv

LEMMA IInvHolds == Spec => []IInv
BY InitIInv, IInvNext, PTL DEF Spec

\* The types of the files and of the tokens.
THEOREM TokensTyped == Spec => []TypeOK
<1>1. IInv => TypeOK  BY DEF IInv
<1> QED BY <1>1, IInvHolds, PTL

\* An empty file has a server that writes it, or that was killed writing it.
LEMMA EmptyStep ==
  ASSUME IInv, EmptyOnlyByKill, NEW s \in Servers, gat_init(s) \/ Crash(s)
  PROVE  EmptyOnlyByKill'
<1> SUFFICES ASSUME refreshFile' = Empty
             PROVE  cutShort' \/ \E t \in Servers : pc'[t] = "writeRefresh"
  BY DEF EmptyOnlyByKill
<1> USE DEF IInv, TypeOK, Goto, ram
\* The server that writes it goes on doing so if the step is not its own.
<1>1. ASSUME refreshFile = Empty, cutShort' = cutShort, \A t \in Servers \ {s} : pc'[t] = pc[t],
             pc[s] # "writeRefresh"
      PROVE  cutShort' \/ \E t \in Servers : pc'[t] = "writeRefresh"
  BY <1>1 DEF EmptyOnlyByKill
<1>2. CASE newAccessTokenState(s)  BY <1>1, <1>2 DEF newAccessTokenState
<1>3. CASE Load(s)  BY <1>1, <1>3 DEF Load, LoadNothing, LoadEmpty, loadFromFile
<1>4. CASE Refresh(s) \/ NoAnswer(s)
  BY <1>1, <1>4 DEF Refresh, RefreshGranted, RefreshRefused, NoAnswer
<1>5. CASE LinkPartial(s) \/ LinkGranted(s)  BY <1>1, <1>5 DEF LinkPartial, LinkGranted
<1>6. CASE OpenAccess(s) \/ saveAccessTokenToFile(s)
  BY <1>1, <1>6 DEF OpenAccess, saveAccessTokenToFile
<1>7. CASE OpenRefresh(s)
  <2>1. pc'[s] = "writeRefresh"  BY <1>7 DEF OpenRefresh
  <2> QED BY <2>1
<1>8. CASE saveRefreshTokenToFile(s)
  <2>1. refreshFile' \in Grants  BY <1>8 DEF saveRefreshTokenToFile, Starting, Tokens
  <2> QED BY <2>1, TokenAssumption
<1>9. CASE Crash(s)
  <2>1. refreshFile = Empty /\ cutShort' = (cutShort \/ pc[s] = "writeRefresh")
        /\ \A t \in Servers \ {s} : pc'[t] = pc[t]
    BY <1>9 DEF Crash
  <2>2. CASE pc[s] = "writeRefresh"  BY <2>1, <2>2
  <2>3. CASE pc[s] # "writeRefresh"  BY <2>1, <2>3 DEF EmptyOnlyByKill
  <2> QED BY <2>2, <2>3
<1> QED BY <1>2, <1>3, <1>4, <1>5, <1>6, <1>7, <1>8, <1>9 DEF gat_init, Save

\* However many servers start, save and are killed, refresh.token is empty only
\* while one of them writes it or because the last one was killed there.
THEOREM EmptyFileExplained == Spec => []EmptyOnlyByKill
<1>1. Init => EmptyOnlyByKill
  BY TokenAssumption DEF Init, EmptyOnlyByKill
<1>2. IInv /\ EmptyOnlyByKill /\ [Next]_vars => EmptyOnlyByKill'
  <2> SUFFICES ASSUME IInv, EmptyOnlyByKill, [Next]_vars PROVE EmptyOnlyByKill'
    OBVIOUS
  <2>1. CASE UNCHANGED vars  BY <2>1 DEF EmptyOnlyByKill, vars
  <2>2. ASSUME NEW s \in Servers, gat_init(s) \/ Crash(s) PROVE EmptyOnlyByKill'
    BY <2>2, EmptyStep
  <2> QED BY <2>1, <2>2 DEF Next
<1> QED BY <1>1, <1>2, IInvHolds, PTL DEF Spec

\* gat_init_googleAccessToken keeps what its comment promises, for any number of
\* servers that start, write and are killed in any order.
THEOREM InitKeepsPromise == Spec => []InitPromise
<1>1. IInv => InitPromise  BY DEF IInv, Starting, Tokens, Own, InitPromise
<1> QED BY <1>1, IInvHolds, PTL
=============================================================================
