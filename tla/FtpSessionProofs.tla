-------------------------- MODULE FtpSessionProofs --------------------------
(***************************************************************************)
(* The descriptors of an FTP session, its login, its uploads and what it   *)
(* takes for commands, for any limit on descriptors and any client.        *)
(***************************************************************************)
EXTENDS FtpSessionProperties, SequenceTheorems, FiniteSetTheorems, TLAPS

\* Every set of numbers that is not empty has a least member.
LEMMA LeastInSet ==
  ASSUME NEW S \in SUBSET Nat, S # {}
  PROVE  Least(S) \in S /\ \A y \in S : Least(S) <= y
<1>1. PICK n \in S : TRUE  OBVIOUS
<1> DEFINE U == 0..n
           below(x) == S \cap (0..x)
           T == {below(x) : x \in S \cap U}
<1>2. IsWellFoundedOn(StrictSubsetOrdering(U), FiniteSubsetsOf(U))
  BY FS_StrictSubsetOrderingWellFounded
<1>3. T \subseteq FiniteSubsetsOf(U) /\ T # {}
  <2>1. IsFiniteSet(U)  BY FS_Interval
  <2>2. \A V \in SUBSET U : IsFiniteSet(V)  BY <2>1, FS_Subset
  <2>3. \A x \in S \cap U : below(x) \in SUBSET U  OBVIOUS
  <2>4. n \in S \cap U  OBVIOUS
  <2> QED BY <2>2, <2>3, <2>4 DEF FiniteSubsetsOf
<1>4. PICK m \in S \cap U :
        \A y \in S \cap U : ~ (<<below(y), below(m)>> \in StrictSubsetOrdering(U))
  <2> HIDE DEF T
  <2>1. PICK t \in T : \A v \in T : ~ (<<v, t>> \in StrictSubsetOrdering(U))
    BY <1>2, <1>3, WFMin
  <2> QED BY <2>1 DEF T
<1>5. \A y \in S : m <= y
  <2> SUFFICES ASSUME NEW y \in S, y < m PROVE FALSE  OBVIOUS
  <2>1. y \in S \cap U  BY <1>4
  <2>2. below(y) \subseteq below(m) /\ m \in below(m) /\ m \notin below(y)  BY <1>4
  <2>3. below(y) # below(m) /\ below(y) \in SUBSET U /\ below(m) \in SUBSET U
    BY <2>1, <2>2, <1>4
  <2> QED BY <1>4, <2>1, <2>2, <2>3 DEF StrictSubsetOrdering
<1> QED BY <1>4, <1>5 DEF Least

-----------------------------------------------------------------------------
(* The descriptors                                                          *)

Own          == 4..6
Transferring == {"retr", "stor", "create"}
Sockets      == {"listen", "data"}

FdTypes ==
  /\ fds \in [Fds -> Kinds]
  /\ dataFd \in Fds \cup {NoFd} /\ dataFd2 \in Fds \cup {NoFd}
  /\ dataOpen \in BOOLEAN
  /\ pc \in {"recv", "run", "accept", "retr", "stor", "create", "gone"}

\* The data connection never has the number of the control connection or of
\* Redis, and those are as they were.
OwnKept ==
  /\ dataFd \notin Own /\ dataFd2 \notin Own
  /\ pc # "gone" => \A d \in Own : fds[d] = FirstFds[d]

\* Before the first PASV, and without a process.
Unopened ==
  (pc # "accept" /\ ~dataOpen) \/ pc = "gone" =>
    /\ ~dataOpen /\ dataFd = NoFd /\ dataFd2 = NoFd
    /\ \A d \in Fds : fds[d] \notin Sockets

\* In accept the listening socket is the only socket of the data connection,
\* and every free number is above it.
Accepting ==
  pc = "accept" =>
    /\ ~dataOpen /\ dataFd2 \in Fds
    /\ \A d \in Fds : fds[d] \in Sockets => d = dataFd2
    /\ fds[dataFd2] = "listen" => \A d \in Fds : fds[d] = "free" => dataFd2 < d

\* Afterwards the two numbers are both open, or both closed: then the kernel
\* gives the lower one, the listening socket's, to a connection to Google first.
Pair ==
  dataFd \in Fds =>
    /\ dataFd2 < dataFd
    /\ \/ fds[dataFd] = "data" /\ fds[dataFd2] = "listen"
       \/ /\ fds[dataFd] = "free"
          /\ fds[dataFd2] = "free" \/ (pc \in Transferring /\ fds[dataFd2] = "google")

Opened ==
  pc # "accept" /\ dataOpen =>
    /\ dataFd2 \in Fds
    /\ \A d \in Fds : fds[d] \in Sockets => d \in {dataFd, dataFd2}
    /\ Pair

DescriptorInv == FdTypes /\ OwnKept /\ Unopened /\ Accepting /\ Opened

LEMMA FdFacts ==
  /\ Fds \subseteq Nat /\ NoFd \notin Fds /\ NoFd \in Int /\ Own \subseteq Fds /\ Stderr \in Fds
  /\ Stderr \notin Own
  /\ FirstFds \in [Fds -> Kinds]
  /\ \A d \in Fds : FirstFds[d] \notin Sockets
  /\ \A d \in Fds : FirstFds[d] \in {"control", "redis"} => d \in Own
BY BoundsAssumption DEF Fds, NoFd, Own, Stderr, FirstFds, Kinds, Sockets, BoundsAssumption

LEMMA LowestFree ==
  ASSUME NEW f \in [Fds -> Kinds], Free(f) # {}
  PROVE  /\ Lowest(f) \in Fds /\ f[Lowest(f)] = "free"
         /\ \A d \in Fds : f[d] = "free" => Lowest(f) <= d
<1>1. Free(f) \in SUBSET Nat  BY FdFacts DEF Free
<1>2. Least(Free(f)) \in Free(f) /\ \A y \in Free(f) : Least(Free(f)) <= y
  BY <1>1, LeastInSet
<1> QED BY <1>2 DEF Free, Lowest

LEMMA CloseOne ==
  ASSUME NEW f \in [Fds -> Kinds], NEW d \in Int
  PROVE  /\ Close(f, d) \in [Fds -> Kinds]
         /\ d \in Fds => Close(f, d)[d] = "free"
         /\ \A e \in Fds : e # d => Close(f, d)[e] = f[e]
         /\ \A e \in Fds : Close(f, d)[e] \in {f[e], "free"}
BY DEF Close, Kinds

\* Closing both numbers of the data connection leaves the others alone.
LEMMA CloseBoth ==
  ASSUME NEW f \in [Fds -> Kinds], NEW d1 \in Int, NEW d2 \in Int
  PROVE  LET g == Close(Close(f, d1), d2) IN
         /\ g \in [Fds -> Kinds]
         /\ \A e \in Fds : e \in {d1, d2} => g[e] = "free"
         /\ \A e \in Fds : e \notin {d1, d2} => g[e] = f[e]
<1>1. Close(f, d1) \in [Fds -> Kinds]  BY CloseOne
<1> QED BY <1>1, CloseOne

LEMMA DescriptorsInit == Init => DescriptorInv
<1> SUFFICES ASSUME Init PROVE DescriptorInv  OBVIOUS
<1> USE FdFacts DEF Init, FirstDataFd
<1>1. FdTypes  BY DEF FdTypes
<1>2. OwnKept  BY DEF OwnKept, Own, NoFd
<1>3. Unopened  BY DEF Unopened
<1>4. Accepting /\ Opened  BY DEF Accepting, Opened
<1> QED BY <1>1, <1>2, <1>3, <1>4 DEF DescriptorInv

\* A step that opens and closes nothing.
LEMMA QuietStep ==
  ASSUME DescriptorInv, UNCHANGED descriptors, FdTypes',
         \/ pc' = pc
         \/ /\ pc \notin {"accept", "gone"} /\ pc' \notin {"accept", "gone"}
            /\ pc \in Transferring => pc' \in Transferring
  PROVE  DescriptorInv'
<1> USE DEF descriptors
<1>1. OwnKept'  BY DEF DescriptorInv, OwnKept
<1>2. Unopened'  BY DEF DescriptorInv, Unopened
<1>3. Accepting'  BY DEF DescriptorInv, Accepting
<1>4. Opened'  BY DEF DescriptorInv, Opened, Pair
<1> QED BY <1>1, <1>2, <1>3, <1>4 DEF DescriptorInv

LEMMA GoneStep ==
  ASSUME Gone
  PROVE  DescriptorInv'
<1> USE FdFacts DEF Gone, FirstDataFd
<1>1. FdTypes'  BY DEF FdTypes, Kinds
<1>2. OwnKept'  BY DEF OwnKept, Own, NoFd
<1>3. Unopened'  BY DEF Unopened, Sockets
<1>4. Accepting' /\ Opened'  BY DEF Accepting, Opened
<1> QED BY <1>1, <1>2, <1>3, <1>4 DEF DescriptorInv

LEMMA ForkStep ==
  ASSUME DescriptorInv, Fork
  PROVE  DescriptorInv'
<1> USE FdFacts DEF Fork
<1>1. ~dataOpen /\ dataFd = NoFd /\ dataFd2 = NoFd  BY DEF DescriptorInv, Unopened
<1>2. FdTypes'  BY DEF DescriptorInv, FdTypes
<1>3. OwnKept'  BY <1>1 DEF OwnKept, Own, NoFd
<1>4. Unopened'  BY <1>1 DEF Unopened
<1>5. Accepting' /\ Opened'  BY <1>1 DEF Accepting, Opened
<1> QED BY <1>2, <1>3, <1>4, <1>5 DEF DescriptorInv

\* The end of LIST, STOR and RETR: both numbers are closed, whatever they are.
LEMMA FinishStep ==
  ASSUME DescriptorInv, pc \notin {"accept", "gone"}, Finish
  PROVE  DescriptorInv' /\ \A d \in Fds : fds'[d] \notin Sockets
<1> USE FdFacts
<1>1. /\ dataFd' = dataFd /\ dataFd2' = dataFd2 /\ dataOpen' = dataOpen /\ pc' = "recv"
      /\ fds' = Close(Close(fds, dataFd), dataFd2)
  BY DEF Finish, CloseData
<1>2. dataFd \in Int /\ dataFd2 \in Int /\ fds \in [Fds -> Kinds] /\ dataOpen \in BOOLEAN
      /\ dataFd \in Fds \cup {NoFd} /\ dataFd2 \in Fds \cup {NoFd}
  BY DEF DescriptorInv, FdTypes
<1>3. /\ fds' \in [Fds -> Kinds]
      /\ \A e \in Fds : e \in {dataFd, dataFd2} => fds'[e] = "free"
      /\ \A e \in Fds : e \notin {dataFd, dataFd2} => fds'[e] = fds[e]
  BY <1>1, <1>2, CloseBoth
<1>4. \A d \in Fds : fds'[d] \notin Sockets
  BY <1>3 DEF DescriptorInv, Unopened, Opened, Sockets
<1>5. FdTypes'  BY <1>1, <1>2, <1>3 DEF FdTypes
<1>6. OwnKept'  BY <1>1, <1>3 DEF DescriptorInv, OwnKept
<1>7. Unopened'  BY <1>1, <1>4 DEF DescriptorInv, Unopened
<1>8. Accepting'  BY <1>1 DEF Accepting
<1>9. Opened'
  <2>1. dataOpen => dataFd2 \in Fds /\ (dataFd \in Fds => dataFd2 < dataFd)
    BY DEF DescriptorInv, Opened, Pair
  <2> QED BY <1>1, <1>3, <1>4, <2>1 DEF Opened, Pair
<1> QED BY <1>4, <1>5, <1>6, <1>7, <1>8, <1>9 DEF DescriptorInv

\* PASV closes an old data connection and opens a listening socket at the
\* lowest free number, or takes stderr's number for one.
LEMMA PasvStep ==
  ASSUME DescriptorInv, Pasv
  PROVE  DescriptorInv'
<1> USE FdFacts
<1> DEFINE old == DropOld(fds)
<1>1. /\ pc = "run" /\ pc' = "accept" /\ dataOpen' = FALSE /\ dataFd' = dataFd
      /\ dataFd2' = ListenFd(old)
      /\ fds' = IF Lowest(old) = NoFd THEN old ELSE Open(old, Lowest(old), "listen")
  BY DEF Pasv, Run
<1>2. dataFd \in Int /\ dataFd2 \in Int /\ fds \in [Fds -> Kinds] /\ dataOpen \in BOOLEAN
      /\ dataFd \in Fds \cup {NoFd} /\ dataFd2 \in Fds \cup {NoFd}
  BY DEF DescriptorInv, FdTypes
<1>3. /\ old \in [Fds -> Kinds] /\ \A d \in Fds : old[d] \notin Sockets
      /\ \A d \in Own : old[d] = FirstFds[d]
  <2>1. CASE dataOpen
    <3>1. /\ old \in [Fds -> Kinds]
          /\ \A e \in Fds : e \in {dataFd, dataFd2} => old[e] = "free"
          /\ \A e \in Fds : e \notin {dataFd, dataFd2} => old[e] = fds[e]
      BY <1>2, <2>1, CloseBoth DEF DropOld
    <3> QED BY <1>1, <2>1, <3>1 DEF DescriptorInv, OwnKept, Opened, Sockets
  <2>2. CASE ~dataOpen
    BY <1>1, <1>2, <2>2 DEF DropOld, DescriptorInv, OwnKept, Unopened
  <2> QED BY <2>1, <2>2
<1> HIDE DEF old
<1>4. CASE Free(old) = {}
  <2>1. dataFd2' = Stderr /\ fds' = old  BY <1>1, <1>4 DEF ListenFd, Lowest
  <2>2. FdTypes'  BY <1>1, <1>2, <1>3, <2>1 DEF FdTypes
  <2>3. OwnKept'  BY <1>1, <1>3, <2>1 DEF DescriptorInv, OwnKept
  <2>4. Unopened' /\ Opened'  BY <1>1 DEF Unopened, Opened
  <2>5. Accepting'  BY <1>1, <1>3, <2>1 DEF Accepting, Sockets
  <2> QED BY <2>2, <2>3, <2>4, <2>5 DEF DescriptorInv
<1>5. CASE Free(old) # {}
  <2>1. /\ Lowest(old) \in Fds /\ old[Lowest(old)] = "free"
        /\ \A d \in Fds : old[d] = "free" => Lowest(old) <= d
    BY <1>3, <1>5, LowestFree
  <2>2. dataFd2' = Lowest(old) /\ fds' = [old EXCEPT ![Lowest(old)] = "listen"]
    BY <1>1, <2>1 DEF ListenFd, Open
  <2>3. Lowest(old) \notin Own
    BY <1>3, <2>1, BoundsAssumption DEF Own, FirstFds, Fds, Stderr, BoundsAssumption
  <2>4. FdTypes'
    <3>1. fds' \in [Fds -> Kinds]  BY <1>3, <2>1, <2>2 DEF Kinds
    <3>2. dataFd2' \in Fds \cup {NoFd}  BY <2>1, <2>2
    <3> QED BY <1>1, <1>2, <3>1, <3>2 DEF FdTypes
  <2>5. OwnKept'  BY <1>1, <1>3, <2>2, <2>3 DEF DescriptorInv, OwnKept
  <2>6. Unopened' /\ Opened'  BY <1>1 DEF Unopened, Opened
  <2>7. Accepting'
    <3>1. \A d \in Fds : fds'[d] \in Sockets => d = dataFd2'  BY <1>3, <2>1, <2>2
    <3>2. \A d \in Fds : fds'[d] = "free" => dataFd2' < d
      <4> SUFFICES ASSUME NEW d \in Fds, fds'[d] = "free" PROVE Lowest(old) < d  BY <2>2
      <4>1. d # Lowest(old) /\ old[d] = "free"  BY <1>3, <2>1, <2>2
      <4>2. Lowest(old) \in Nat /\ d \in Nat  BY <2>1
      <4> QED BY <2>1, <4>1, <4>2
    <3> QED BY <1>1, <2>1, <2>2, <3>1, <3>2 DEF Accepting
  <2> QED BY <2>4, <2>5, <2>6, <2>7 DEF DescriptorInv
<1> QED BY <1>4, <1>5

\* accept gives the lowest free number, which is above the listening socket's.
LEMMA AcceptStep ==
  ASSUME DescriptorInv, Accept
  PROVE  DescriptorInv'
<1> USE FdFacts
<1>1. PICK ok \in BOOLEAN :
        /\ ok => fds[dataFd2] = "listen" /\ Free(fds) # {}
        /\ dataFd' = IF ok THEN Lowest(fds) ELSE NoFd
        /\ fds' = IF ok THEN Open(fds, Lowest(fds), "data") ELSE fds
  BY DEF Accept
<1>2. pc = "accept" /\ pc' = "recv" /\ dataOpen' = TRUE /\ dataFd2' = dataFd2
  BY DEF Accept
<1>3. /\ fds \in [Fds -> Kinds] /\ dataFd2 \in Fds /\ dataFd2 \notin Own
      /\ \A d \in Fds : fds[d] \in Sockets => d = dataFd2
      /\ \A d \in Own : fds[d] = FirstFds[d]
      /\ fds[dataFd2] = "listen" => \A d \in Fds : fds[d] = "free" => dataFd2 < d
  BY <1>2 DEF DescriptorInv, FdTypes, Accepting, OwnKept
<1>4. CASE ok
  <2>1. /\ Lowest(fds) \in Fds /\ fds[Lowest(fds)] = "free"
    BY <1>1, <1>3, <1>4, LowestFree
  <2>2. dataFd' = Lowest(fds) /\ fds' = [fds EXCEPT ![Lowest(fds)] = "data"]
    BY <1>1, <1>4, <2>1 DEF Open
  <2>3. Lowest(fds) \notin Own
    BY <1>3, <2>1, BoundsAssumption DEF Own, FirstFds, Fds, Stderr, BoundsAssumption
  <2>4. dataFd2 < Lowest(fds)  BY <1>1, <1>3, <1>4, <2>1
  <2>5. FdTypes'  BY <1>2, <1>3, <2>1, <2>2 DEF FdTypes, Kinds
  <2>6. OwnKept'  BY <1>2, <1>3, <2>2, <2>3 DEF OwnKept
  <2>7. Unopened' /\ Accepting'  BY <1>2 DEF Unopened, Accepting
  <2>8. Pair'  BY <1>1, <1>2, <1>3, <1>4, <2>1, <2>2, <2>4 DEF Pair
  <2>9. Opened'  BY <1>2, <1>3, <2>1, <2>2, <2>8 DEF Opened
  <2> QED BY <2>5, <2>6, <2>7, <2>9 DEF DescriptorInv
<1>5. CASE ~ok
  <2>1. dataFd' = NoFd /\ fds' = fds  BY <1>1, <1>5
  <2>2. FdTypes'  BY <1>2, <1>3, <2>1 DEF FdTypes
  <2>3. OwnKept'  BY <1>2, <1>3, <2>1 DEF OwnKept, Own, NoFd
  <2>4. Unopened' /\ Accepting'  BY <1>2 DEF Unopened, Accepting
  <2>5. Opened'  BY <1>2, <1>3, <2>1 DEF Opened, Pair
  <2> QED BY <2>2, <2>3, <2>4, <2>5 DEF DescriptorInv
<1> QED BY <1>4, <1>5

\* A transfer takes the lowest free number: never data_fd's, because
\* data_fd2's is free as well and lower.
LEMMA TransferStep ==
  ASSUME DescriptorInv, NEW type, NEW next \in Transferring, Transfer(type, next)
  PROVE  DescriptorInv'
<1> USE FdFacts
<1>0. /\ pc = "run" /\ pc' = next
      /\ fds' = Open(fds, Lowest(fds), "google")
      /\ dataFd' = dataFd /\ dataFd2' = dataFd2 /\ dataOpen' = dataOpen
  BY DEF Transfer, Run
<1>1. CASE Free(fds) = {}
  <2>1. UNCHANGED descriptors  BY <1>0, <1>1 DEF Open, Lowest, descriptors
  <2>2. FdTypes'  BY <1>0, <2>1 DEF DescriptorInv, FdTypes, Transferring, descriptors
  <2> QED BY <1>0, <2>1, <2>2, QuietStep DEF Transferring
<1>2. CASE Free(fds) # {}
  <2>1. /\ pc = "run" /\ pc' = next
        /\ fds' = Open(fds, Lowest(fds), "google")
        /\ dataFd' = dataFd /\ dataFd2' = dataFd2 /\ dataOpen' = dataOpen
    BY <1>0
  <2>2. fds \in [Fds -> Kinds]  BY DEF DescriptorInv, FdTypes
  <2>3. /\ Lowest(fds) \in Fds /\ fds[Lowest(fds)] = "free"
        /\ \A d \in Fds : fds[d] = "free" => Lowest(fds) <= d
    BY <1>2, <2>2, LowestFree
  <2>4. fds' = [fds EXCEPT ![Lowest(fds)] = "google"]  BY <2>1, <2>3 DEF Open
  <2>5. FdTypes'
    BY <2>1, <2>2, <2>3, <2>4 DEF DescriptorInv, FdTypes, Kinds, Transferring
  <2>6. OwnKept'
    <3>1. \A d \in Own : fds[d] = FirstFds[d]  BY <2>1 DEF DescriptorInv, OwnKept
    <3>2. Lowest(fds) \notin Own
      BY <2>3, <3>1, BoundsAssumption DEF Own, FirstFds, Fds, Stderr, BoundsAssumption
    <3> QED BY <2>1, <2>2, <2>4, <3>1, <3>2 DEF DescriptorInv, OwnKept
  <2>7. Unopened'  BY <2>1, <2>2, <2>4 DEF DescriptorInv, Unopened, Sockets, Transferring
  <2>8. Accepting'  BY <2>1 DEF Accepting, Transferring
  <2>9. Opened'
    <3> SUFFICES ASSUME dataOpen PROVE Opened'  BY <2>1 DEF Opened
    <3>1. dataFd2 \in Fds /\ Pair /\ \A d \in Fds : fds[d] \in Sockets => d \in {dataFd, dataFd2}
      BY <2>1 DEF DescriptorInv, Opened
    <3>2. Pair'
      <4> SUFFICES ASSUME dataFd \in Fds PROVE Pair'  BY <2>1 DEF Pair
      <4>1. dataFd2 < dataFd /\ dataFd2 \in Nat /\ dataFd \in Nat /\ Lowest(fds) \in Nat
        BY <2>3, <3>1 DEF Pair
      <4>2. CASE fds[dataFd] = "data" /\ fds[dataFd2] = "listen"
        BY <2>1, <2>2, <2>3, <2>4, <3>1, <4>1, <4>2 DEF Pair
      <4>3. CASE fds[dataFd] = "free" /\ fds[dataFd2] = "free"
        <5>1. Lowest(fds) # dataFd  BY <2>3, <3>1, <4>1, <4>3
        <5> QED BY <2>1, <2>2, <2>4, <3>1, <4>1, <4>3, <5>1 DEF Pair
      <4> QED BY <2>1, <3>1, <4>2, <4>3 DEF Pair, Transferring
    <3> QED BY <2>1, <2>2, <2>3, <2>4, <3>1, <3>2 DEF Opened, Sockets
  <2> QED BY <2>5, <2>6, <2>7, <2>8, <2>9 DEF DescriptorInv
<1> QED BY <1>1, <1>2

\* Every step keeps the descriptors as described.
LEMMA DescriptorsNext ==
  ASSUME DescriptorInv, [Next]_vars
  PROVE  DescriptorInv'
<1>1. CASE UNCHANGED vars
  BY <1>1, QuietStep DEF vars, descriptors, DescriptorInv, FdTypes
<1>2. CASE Client
  <2> USE DEF descriptors
  <2>1. UNCHANGED <<pc, descriptors>>
    BY <1>2 DEF Client, ClientSend, ClientHangUp, ClientDial, ClientData, ClientDataEnd
  <2> QED BY <2>1, QuietStep DEF DescriptorInv, FdTypes
<1>3. CASE Receive \/ ReceiveError
  <2>1. UNCHANGED descriptors /\ pc = "recv" /\ pc' = "run"
    BY <1>3 DEF Receive, ReceiveError
  <2> QED BY <2>1, QuietStep DEF descriptors, DescriptorInv, FdTypes, Transferring
<1>4. CASE User \/ Pass \/ Plain \/ RetrNoFile
  <2>1. UNCHANGED descriptors /\ pc = "run" /\ pc' = "recv"
    BY <1>4 DEF User, Pass, Plain, RetrNoFile, Back, Run
  <2> QED BY <2>1, QuietStep DEF descriptors, DescriptorInv, FdTypes, Transferring
<1>5. CASE StorRead \/ StorEnd
  <2>1. UNCHANGED descriptors /\ pc = "stor" /\ pc' \in {"stor", "create"}
    BY <1>5 DEF StorRead, StorEnd, descriptors
  <2> QED BY <2>1, QuietStep DEF descriptors, DescriptorInv, FdTypes, Transferring
<1>6. CASE ReceiveEnd \/ Quit \/ Crash
  BY <1>6, GoneStep DEF ReceiveEnd, Quit, Crash
<1>7. CASE Pasv  BY <1>7, PasvStep
<1>8. CASE Accept  BY <1>8, AcceptStep
<1>9. CASE Retr \/ Stor
  BY <1>9, TransferStep DEF Retr, Stor, Transferring
<1>10. CASE List \/ RetrEnd \/ StorCreate
  <2>1. Finish /\ pc \in {"run", "retr", "create"}
    BY <1>10 DEF List, RetrEnd, StorCreate, Run
  <2> QED BY <2>1, FinishStep
<1>11. CASE Fork  BY <1>11, ForkStep
<1> QED BY <1>1, <1>2, <1>3, <1>4, <1>5, <1>6, <1>7, <1>8, <1>9, <1>10, <1>11
        DEF Next, Session, Handle

\* The inductive invariant implies the three safety properties.
LEMMA DescriptorsImply ==
  DescriptorInv => DataFdIsData /\ NoDescriptorLeak /\ ControlKept
<1> SUFFICES ASSUME DescriptorInv PROVE DataFdIsData /\ NoDescriptorLeak /\ ControlKept
  OBVIOUS
<1> USE FdFacts
<1>1. dataOpen \in BOOLEAN  BY DEF DescriptorInv, FdTypes
<1>2. DataFdIsData
  BY <1>1 DEF DataFdIsData, DescriptorInv, Unopened, Opened, Pair
<1>3. NoDescriptorLeak
  BY <1>1 DEF NoDescriptorLeak, DescriptorInv, Unopened, Accepting, Opened, Sockets
<1>4. ControlKept
  BY DEF ControlKept, Alive, DescriptorInv, OwnKept
<1> QED BY <1>2, <1>3, <1>4

LEMMA DescriptorsAlways == Spec => []DescriptorInv
<1>1. Init => DescriptorInv  BY DescriptorsInit
<1>2. DescriptorInv /\ [Next]_vars => DescriptorInv'  BY DescriptorsNext
<1> QED BY <1>1, <1>2, PTL DEF Spec

\* data_fd never names the control connection, Redis, Google or stderr: LIST,
\* STOR and RETR (ftpServer.c) use it long after they closed it.
THEOREM DataFdSound == Spec => []DataFdIsData
BY DescriptorsAlways, DescriptorsImply, PTL

\* Every listening socket and data connection is still known to the session,
\* however many PASVs, transfers and failed accepts came before.
THEOREM NoLeak == Spec => []NoDescriptorLeak
BY DescriptorsAlways, DescriptorsImply, PTL

\* Closing stale numbers never closes the control connection or Redis.
THEOREM ControlSound == Spec => []ControlKept
BY DescriptorsAlways, DescriptorsImply, PTL

-----------------------------------------------------------------------------
(* The login                                                                *)

\* A session is logged in only after PASS with the password of the user it has,
\* and USER logs it out.
THEOREM LoginSound == Spec => []LoggedInIsValid
<1>1. Init => LoggedInIsValid  BY DEF Init, LoggedInIsValid
<1>2. LoggedInIsValid /\ [Next]_vars => LoggedInIsValid'
  <2> SUFFICES ASSUME LoggedInIsValid, [Next]_vars PROVE LoggedInIsValid'  OBVIOUS
  <2> USE DEF LoggedInIsValid
  <2>1. CASE UNCHANGED <<user, loggedIn>>  BY <2>1
  <2>2. CASE User  BY <2>2 DEF User
  <2>3. CASE Pass  BY <2>3 DEF Pass
  <2>4. CASE Gone  BY <2>4 DEF Gone
  <2>5. CASE UNCHANGED vars  BY <2>5, <2>1 DEF vars, session
  <2>6. CASE Client
    <3>1. UNCHANGED session
      BY <2>6 DEF Client, ClientSend, ClientHangUp, ClientDial, ClientData, ClientDataEnd
    <3> QED BY <3>1, <2>1 DEF session
  <2>7. CASE Receive \/ ReceiveError \/ Plain \/ RetrNoFile
    BY <2>7, <2>1 DEF Receive, ReceiveError, Plain, RetrNoFile
  <2>8. CASE Pasv \/ Accept \/ StorRead \/ StorEnd \/ Fork
    BY <2>8, <2>1 DEF Pasv, Accept, StorRead, StorEnd, Fork, session
  <2>9. CASE List \/ RetrEnd \/ StorCreate
    BY <2>9, <2>1 DEF List, RetrEnd, StorCreate, Finish, session
  <2>10. CASE Retr \/ Stor
    BY <2>10, <2>1 DEF Retr, Stor, Transfer, session
  <2>11. CASE ReceiveEnd \/ Quit \/ Crash
    BY <2>11, <2>4 DEF ReceiveEnd, Quit, Crash
  <2> QED BY <2>2, <2>3, <2>5, <2>6, <2>7, <2>8, <2>9, <2>10, <2>11
          DEF Next, Session, Handle
<1> QED BY <1>1, <1>2, PTL DEF Spec

-----------------------------------------------------------------------------
(* The uploads                                                              *)

Storing == {"stor", "create"}

DataTypes == bytes \in Seq(Nat) /\ sentUp \in Seq(Nat) /\ upload \in Seq(Nat)

\* Nothing is lost between the client and Google, except what a reset drops;
\* and once STOR has seen the end, nothing is left to read.
UploadInv ==
  /\ DataTypes
  /\ pc \notin Storing => upload = << >>
  /\ peer # "reset" => upload \o bytes = sentUp
  /\ pc = "create" /\ HasData => bytes = << >> /\ peer \in {"closed", "reset"}

LEMMA ConcatNat ==
  \A u, v, w \in Seq(Nat) : (u \o v) \o w = u \o (v \o w)
<1> SUFFICES ASSUME NEW u \in Seq(Nat), NEW v \in Seq(Nat), NEW w \in Seq(Nat)
             PROVE  (u \o v) \o w = u \o (v \o w)
  OBVIOUS
<1> QED BY ConcatAssociative, SMTT(30)

\* A sequence that was cut in two is what it was.
LEMMA CutSeq ==
  ASSUME NEW S, NEW b \in Seq(S), NEW n \in 1..Len(b)
  PROVE  SubSeq(b, 1, n) \o SubSeq(b, n + 1, Len(b)) = b
<1>1. Len(b) \in Nat  BY LenProperties
<1>2. 1 \in 1..Len(b)+1 /\ n \in 1-1..Len(b) /\ Len(b) \in n..Len(b)  BY <1>1
<1>3. SubSeq(b, 1, n) \o SubSeq(b, n + 1, Len(b)) = SubSeq(b, 1, Len(b))
  BY <1>2, ConcatAdjacentSubSeq
<1> QED BY <1>3, SubSeqFull

\* What STOR read and what it has not read are what it had.
LEMMA ReadSplits ==
  ASSUME NEW u \in Seq(Nat), NEW b \in Seq(Nat), NEW n \in 1..Len(b)
  PROVE  LET r == SubSeq(b, 1, n)
             t == SubSeq(b, n + 1, Len(b)) IN
         r \in Seq(Nat) /\ t \in Seq(Nat) /\ (u \o r) \o t = u \o b
<1> DEFINE r == SubSeq(b, 1, n)
           t == SubSeq(b, n + 1, Len(b))
<1>1. Len(b) \in Nat /\ \A i \in 1..Len(b) : b[i] \in Nat
  BY LenProperties, ElementOfSeq
<1>2. r \in Seq(Nat)  BY <1>1, SubSeqProperties
<1>3. t \in Seq(Nat)  BY <1>1, SubSeqProperties
<1>4. r \o t = b  BY CutSeq DEF r, t
<1> HIDE DEF r, t
<1>5. (u \o r) \o t = u \o (r \o t)  BY <1>2, <1>3, ConcatNat, ZenonT(30)
<1> QED BY <1>2, <1>3, <1>4, <1>5 DEF r, t

LEMMA UploadClient ==
  ASSUME UploadInv, Client
  PROVE  UploadInv'
<1> USE DEF UploadInv, DataTypes
<1>0. upload' = upload /\ pc' = pc /\ (HasData' <=> HasData)
  BY DEF Client, ClientSend, ClientHangUp, ClientDial, ClientData, ClientDataEnd,
         descriptors, HasData
<1>1. CASE UNCHANGED data  BY <1>0, <1>1 DEF data
<1>2. CASE ClientDial
  <2>1. peer = "invited" /\ peer' = "open" /\ bytes' = bytes /\ sentUp' = sentUp
    BY <1>2 DEF ClientDial
  <2> QED BY <1>0, <2>1
<1>3. CASE ClientData
  <2>1. peer = "open" /\ peer' = peer  BY <1>3 DEF ClientData
  <2>2. PICK x \in Nat : bytes' = Append(bytes, x) /\ sentUp' = Append(sentUp, x)
    <3>1. Len(sentUp) + 1 \in Nat  BY LenProperties
    <3> QED BY <1>3, <3>1 DEF ClientData
  <2>3. /\ bytes' \in Seq(Nat) /\ sentUp' \in Seq(Nat)
        /\ bytes' = bytes \o <<x>> /\ sentUp' = sentUp \o <<x>>
    BY <2>2, AppendProperties, AppendIsConcat
  <2>4. upload \o (bytes \o <<x>>) = (upload \o bytes) \o <<x>>
    <3>1. <<x>> \in Seq(Nat)  OBVIOUS
    <3> QED BY <3>1, ConcatNat
  <2> QED BY <1>0, <2>1, <2>3, <2>4
<1>4. CASE ClientDataEnd
  <2>1. peer = "open" /\ sentUp' = sentUp  BY <1>4 DEF ClientDataEnd
  <2>2. \/ peer' = "closed" /\ bytes' = bytes
        \/ peer' = "reset" /\ bytes' = << >>
    BY <1>4 DEF ClientDataEnd
  <2> QED BY <1>0, <2>1, <2>2, EmptySeq
<1> QED BY <1>1, <1>2, <1>3, <1>4 DEF Client, ClientSend, ClientHangUp

LEMMA UploadGone ==
  ASSUME Gone
  PROVE  UploadInv'
<1>1. << >> \in Seq(Nat) /\ << >> \o << >> = << >>  BY EmptySeq, ConcatEmptySeq
<1> QED BY <1>1 DEF Gone, UploadInv, DataTypes, Storing

LEMMA UploadFinish ==
  ASSUME DescriptorInv, UploadInv, pc \notin {"accept", "gone"}, Finish
  PROVE  UploadInv'
<1>1. << >> \in Seq(Nat) /\ << >> \o << >> = << >>  BY EmptySeq, ConcatEmptySeq
<1>2. \A d \in Fds : fds'[d] \notin Sockets  BY FinishStep
<1>3. peer' = "none" /\ bytes' = << >> /\ sentUp' = << >>
  BY <1>2 DEF Finish, Hear, Sockets
<1> QED BY <1>1, <1>3 DEF Finish, UploadInv, DataTypes, Storing

LEMMA UploadNext ==
  ASSUME DescriptorInv, UploadInv, [Next]_vars
  PROVE  UploadInv'
<1> USE DEF UploadInv, DataTypes, Storing
<1>1. CASE UNCHANGED vars  BY <1>1 DEF vars, data, descriptors, HasData
<1>2. CASE Client  BY <1>2, UploadClient
<1>3. CASE Receive \/ ReceiveError
  <2>1. UNCHANGED <<upload, data>> /\ pc = "recv" /\ pc' = "run"
    BY <1>3 DEF Receive, ReceiveError
  <2> QED BY <2>1 DEF data
<1>4. CASE User \/ Pass \/ Plain \/ RetrNoFile
  <2>1. UNCHANGED <<upload, data>> /\ pc = "run" /\ pc' = "recv"
    BY <1>4 DEF User, Pass, Plain, RetrNoFile, Back, Run
  <2> QED BY <2>1 DEF data
<1>5. CASE ReceiveEnd \/ Quit \/ Crash
  BY <1>5, UploadGone DEF ReceiveEnd, Quit, Crash
<1>6. CASE Pasv
  <2>1. bytes' = << >> /\ sentUp' = << >> /\ upload' = upload /\ pc = "run" /\ pc' = "accept"
    BY <1>6 DEF Pasv, Run
  <2>2. << >> \in Seq(Nat) /\ << >> \o << >> = << >>  BY EmptySeq, ConcatEmptySeq
  <2> QED BY <2>1, <2>2
<1>7. CASE Accept
  <2>1. UNCHANGED <<upload, data>> /\ pc = "accept" /\ pc' = "recv"  BY <1>7 DEF Accept
  <2> QED BY <2>1 DEF data
<1>8. CASE List \/ RetrEnd \/ StorCreate
  <2>1. Finish /\ pc \in {"run", "retr", "create"}
    BY <1>8 DEF List, RetrEnd, StorCreate, Run
  <2> QED BY <2>1, UploadFinish
<1>9. CASE Retr \/ Stor
  <2>1. pc = "run" /\ upload' = << >> /\ UNCHANGED data /\ pc' \in {"retr", "stor"}
    BY <1>9 DEF Retr, Stor, Transfer, Run
  <2> QED BY <2>1 DEF data
<1>10. CASE StorRead
  <2>1. PICK n \in 1..Len(bytes) : /\ upload' = upload \o SubSeq(bytes, 1, n)
                                   /\ bytes' = SubSeq(bytes, n + 1, Len(bytes))
    BY <1>10 DEF StorRead
  <2>2. pc = "stor" /\ pc' = pc /\ peer' = peer /\ sentUp' = sentUp  BY <1>10 DEF StorRead
  <2>3. /\ SubSeq(bytes, 1, n) \in Seq(Nat) /\ bytes' \in Seq(Nat)
        /\ upload' \o bytes' = upload \o bytes
    BY <2>1, ReadSplits
  <2>4. upload' \in Seq(Nat)  BY <2>1, <2>3, ConcatProperties
  <2> QED BY <2>2, <2>3, <2>4
<1>11. CASE StorEnd
  <2>1. /\ UNCHANGED <<descriptors, data, upload>> /\ pc = "stor" /\ pc' = "create"
        /\ HasData => bytes = << >> /\ peer \in {"closed", "reset"}
    BY <1>11 DEF StorEnd
  <2> QED BY <2>1 DEF data, descriptors, HasData
<1>12. CASE Fork
  <2>1. UNCHANGED <<data, upload>> /\ pc = "gone" /\ pc' = "recv"  BY <1>12 DEF Fork
  <2> QED BY <2>1 DEF data
<1> QED BY <1>1, <1>2, <1>3, <1>4, <1>5, <1>6, <1>7, <1>8, <1>9, <1>10, <1>11, <1>12
        DEF Next, Session, Handle

\* When vfs_createFile runs after an upload that its client ended in order, what
\* went to the cipher is all that the client sent, however recv cut it.
THEOREM UploadsWhole == Spec => []UploadWhole
<1>1. Init => UploadInv
  BY EmptySeq, ConcatEmptySeq DEF Init, UploadInv, DataTypes, Storing
<1>2. DescriptorInv /\ UploadInv /\ [Next]_vars => UploadInv'  BY UploadNext
<1>3. UploadInv => UploadWhole
  BY ConcatEmptySeq DEF UploadInv, DataTypes, UploadWhole
<1> QED BY <1>1, <1>2, <1>3, DescriptorsAlways, PTL DEF Spec

-----------------------------------------------------------------------------
(* The parser                                                               *)

LEMMA SeqMembers ==
  ASSUME NEW s \in Seq(Chars)
  PROVE  Len(s) \in Nat /\ \A i \in 1..Len(s) : s[i] \in Chars
BY LenProperties, ElementOfSeq

LEMMA PartOf ==
  ASSUME NEW s \in Seq(Chars), NEW m \in Nat \ {0}, NEW n \in Nat, n <= Len(s)
  PROVE  /\ SubSeq(s, m, n) \in Seq(Chars)
         /\ Len(SubSeq(s, m, n)) = IF m <= n THEN n - m + 1 ELSE 0
         /\ \A i \in 1..(n - m + 1) : SubSeq(s, m, n)[i] = s[m + i - 1]
<1>1. Len(s) \in Nat /\ \A i \in m..n : s[i] \in Chars  BY SeqMembers
<1> QED BY <1>1, SubSeqProperties

\* getFtpParam never reads past the packet.
LEMMA ParamEndInside ==
  ASSUME NEW rest \in Seq(Chars)
  PROVE  /\ ParamEnd(rest) \in ParamEnds(rest) \cup {Len(rest)}
         /\ ParamEnd(rest) \in Nat /\ ParamEnd(rest) <= Len(rest)
         /\ \A i \in ParamEnds(rest) : ParamEnd(rest) <= i
<1> DEFINE S == ParamEnds(rest) \cup {Len(rest)}
<1>1. Len(rest) \in Nat  BY SeqMembers
<1>2. S \in SUBSET Nat /\ S # {} /\ Len(rest) \in S  BY <1>1 DEF ParamEnds
<1> HIDE DEF S
<1>3. Least(S) \in S /\ \A y \in S : Least(S) <= y  BY <1>2, LeastInSet
<1> QED BY <1>1, <1>2, <1>3 DEF S, ParamEnd

\* getFtpCommand neither.
LEMMA CommandEndInside ==
  ASSUME NEW pkt \in Seq(Chars), CommandEnds(pkt) # {}
  PROVE  /\ Least(CommandEnds(pkt)) \in CommandEnds(pkt)
         /\ Least(CommandEnds(pkt)) \in 1..(Len(pkt) - 1)
         /\ \A i \in CommandEnds(pkt) : Least(CommandEnds(pkt)) <= i
<1>1. Len(pkt) \in Nat  BY SeqMembers
<1>2. CommandEnds(pkt) \in SUBSET Nat /\ CommandEnds(pkt) \subseteq 1..(Len(pkt) - 1)
  BY <1>1 DEF CommandEnds
<1> QED BY <1>2, LeastInSet

Parsers == [type : Verbs \cup {"ERROR"}, param : [1..ParamSize -> Chars]]

LEMMA ParamBytesTyped ==
  ASSUME NEW old \in [1..ParamSize -> Chars], NEW rest \in Seq(Chars)
  PROVE  ParamBytes(old, rest) \in [1..ParamSize -> Chars]
<1> DEFINE end == ParamEnd(rest)
<1>1. end \in Nat /\ end <= Len(rest)  BY ParamEndInside
<1>2. Len(rest) \in Nat /\ \A i \in 1..Len(rest) : rest[i] \in Chars  BY SeqMembers
<1> HIDE DEF end
<1>3. \A i \in 1..ParamSize : i < end => rest[i] \in Chars
  BY <1>1, <1>2, BoundsAssumption DEF BoundsAssumption
<1>4. Nul \in Chars  BY DEF Chars
<1> QED BY <1>3, <1>4 DEF ParamBytes, end

\* Whatever bytes arrive, the parser's state stays a type and a full buffer.
LEMMA ParseTyped ==
  ASSUME NEW old \in Parsers, NEW pkt \in Seq(Chars)
  PROVE  Parse(old, pkt) \in Parsers
<1>1. CASE CommandEnds(pkt) = {}
  <2>1. Parse(old, pkt) = [old EXCEPT !.type = "ERROR"]  BY <1>1 DEF Parse
  <2> QED BY <2>1 DEF Parsers
<1>2. CASE CommandEnds(pkt) # {}
  <2> DEFINE end   == Least(CommandEnds(pkt))
             word  == SubSeq(pkt, 1, end - 1)
             type  == TypeOf(word)
             rest  == SubSeq(pkt, end + 1, Len(pkt))
             empty == [old.param EXCEPT ![1] = Nul]
             param == ParamBytes(old.param, rest)
             ok    == LineEnds(rest, ParamEnd(rest)) \/ Text(param) = << >>
  <2>1. Parse(old, pkt) = IF pkt[end] = CR \/ rest[1] = CR
                          THEN [type |-> type, param |-> empty]
                          ELSE [type |-> IF ok THEN type ELSE old.type, param |-> param]
    BY <1>2 DEF Parse
  <2>2. end \in Nat /\ end + 1 \in Nat \ {0} /\ Len(pkt) \in Nat
    BY <1>2, CommandEndInside, SeqMembers
  <2>3. rest \in Seq(Chars)
    <3> HIDE DEF end
    <3> QED BY <2>2, PartOf
  <2>4. type \in Verbs \cup {"ERROR"}
    <3> HIDE DEF word
    <3> QED BY DEF TypeOf
  <2>5. old.param \in [1..ParamSize -> Chars] /\ old.type \in Verbs \cup {"ERROR"}  BY DEF Parsers
  <2>6. empty \in [1..ParamSize -> Chars]  BY <2>5 DEF Chars
  <2>7. param \in [1..ParamSize -> Chars]
    <3> HIDE DEF rest
    <3> QED BY <2>3, <2>5, ParamBytesTyped
  <2> HIDE DEF end, word, type, rest, empty, param, ok
  <2> QED BY <2>1, <2>4, <2>5, <2>6, <2>7 DEF Parsers
<1> QED BY <1>1, <1>2

LEMMA TextTyped ==
  ASSUME NEW b \in [1..ParamSize -> Chars]
  PROVE  Text(b) \in Seq(Chars)
<1> DEFINE nuls == {i \in 1..ParamSize : b[i] = Nul}
<1>1. ParamSize \in Nat  BY BoundsAssumption DEF BoundsAssumption
<1>2. b \in Seq(Chars) /\ Len(b) = ParamSize
  <2>1. b \in Seq(Chars)  BY <1>1, SeqDef
  <2>2. DOMAIN b = 1..Len(b) /\ Len(b) \in Nat  BY <2>1, LenProperties
  <2>3. DOMAIN b = 1..ParamSize  OBVIOUS
  <2> QED BY <1>1, <2>1, <2>2, <2>3
<1>3. CASE nuls = {}
  <2>1. Text(b) = SubSeq(b, 1, ParamSize)  BY <1>3 DEF Text
  <2> QED BY <1>1, <1>2, <2>1, PartOf
<1>4. CASE nuls # {}
  <2>1. Text(b) = SubSeq(b, 1, Least(nuls) - 1)  BY <1>4 DEF Text
  <2>2. nuls \in SUBSET Nat /\ nuls \subseteq 1..ParamSize  BY <1>1
  <2>3. Least(nuls) \in nuls  BY <1>4, <2>2, LeastInSet
  <2>4. PICK k \in Nat : Text(b) = SubSeq(b, 1, k) /\ k <= Len(b)
    <3> HIDE DEF nuls
    <3>1. \A m \in 1..ParamSize : m - 1 \in Nat /\ m - 1 <= Len(b)  BY <1>1, <1>2
    <3>2. Least(nuls) \in 1..ParamSize  BY <2>2, <2>3
    <3> QED BY <2>1, <3>1, <3>2
  <2> QED BY <1>2, <2>4, PartOf
<1> QED BY <1>3, <1>4

\* The bytes of a command's line.
LEMMA LineBytes ==
  ASSUME NEW c \in Commands
  PROVE  LET pkt == Line(c.verb, c.param)
             n   == Len(c.param) IN
         /\ pkt \in Seq(Chars) /\ n \in Nat
         /\ pkt[1] = c.verb
         /\ n = 0 => Len(pkt) = 3 /\ pkt[2] = CR /\ pkt[3] = LF
         /\ n > 0 => /\ Len(pkt) = n + 4 /\ pkt[2] = SP
                     /\ \A i \in 1..n : pkt[i + 2] = c.param[i]
                     /\ pkt[n + 3] = CR /\ pkt[n + 4] = LF
<1> DEFINE v   == c.verb
           a   == c.param
           n   == Len(a)
           mid == IF a = << >> THEN << >> ELSE <<SP>> \o a
           eol == <<CR, LF>>
           one == <<v>>
           low == one \o mid
<1>1. v \in Verbs /\ a \in Seq(Letters)  BY CommandsAssumption DEF CommandsAssumption
<1>2. a \in Seq(Chars) /\ n \in Nat /\ (a = << >> <=> n = 0)
  <2>1. Letters \subseteq Chars  BY DEF Chars
  <2> QED BY <1>1, <2>1, SeqMonotonic, LenProperties, EmptySeq
<1>3. /\ one \in Seq(Chars) /\ Len(one) = 1 /\ one[1] = v
      /\ eol \in Seq(Chars) /\ Len(eol) = 2 /\ eol[1] = CR /\ eol[2] = LF
      /\ <<SP>> \in Seq(Chars) /\ Len(<<SP>>) = 1 /\ <<SP>>[1] = SP
  <2>1. v \in Chars /\ SP \in Chars /\ CR \in Chars /\ LF \in Chars  BY <1>1 DEF Chars
  <2> HIDE DEF v
  <2> QED BY <2>1
<1>4. /\ mid \in Seq(Chars)
      /\ n = 0 => Len(mid) = 0
      /\ n > 0 => Len(mid) = n + 1 /\ mid[1] = SP /\ \A i \in 1..n : mid[i + 1] = a[i]
  <2>1. CASE n = 0  BY <1>2, <2>1, EmptySeq
  <2>2. CASE n > 0
    <3>1. mid = <<SP>> \o a  BY <1>2, <2>2
    <3> HIDE DEF mid, a
    <3>2. /\ mid \in Seq(Chars) /\ Len(mid) = 1 + n
          /\ \A i \in 1..1 + n : mid[i] = IF i <= 1 THEN <<SP>>[i] ELSE a[i - 1]
      BY <1>2, <1>3, <3>1, ConcatProperties
    <3> QED BY <1>2, <1>3, <2>2, <3>2
  <2> QED BY <1>2, <2>1, <2>2
<1>5. Line(v, a) = low \o eol  BY DEF Line
<1> HIDE DEF one, mid, eol
<1>6. /\ low \in Seq(Chars) /\ Len(low) = 1 + Len(mid)
      /\ \A i \in 1..1 + Len(mid) : low[i] = IF i <= 1 THEN one[i] ELSE mid[i - 1]
  <2>1. /\ low \in Seq(Chars) /\ Len(low) = Len(one) + Len(mid)
        /\ \A i \in 1..Len(one) + Len(mid) :
             low[i] = IF i <= Len(one) THEN one[i] ELSE mid[i - Len(one)]
    BY <1>3, <1>4, ConcatProperties
  <2> HIDE DEF low
  <2> QED BY <1>3, <2>1
<1> HIDE DEF low
<1>7. /\ Line(v, a) \in Seq(Chars) /\ Len(Line(v, a)) = Len(low) + 2
      /\ \A i \in 1..Len(low) + 2 : Line(v, a)[i] = IF i <= Len(low) THEN low[i] ELSE eol[i - Len(low)]
  <2>1. /\ low \o eol \in Seq(Chars) /\ Len(low \o eol) = Len(low) + Len(eol)
        /\ \A i \in 1..Len(low) + Len(eol) :
             (low \o eol)[i] = IF i <= Len(low) THEN low[i] ELSE eol[i - Len(low)]
    BY <1>3, <1>6, ConcatProperties
  <2> QED BY <1>3, <1>5, <2>1
<1> HIDE DEF v, n
<1>8. CASE n = 0
  <2>1. Len(low) = 1  BY <1>4, <1>6, <1>8
  <2> QED BY <1>2, <1>3, <1>4, <1>6, <1>7, <1>8, <2>1 DEF n, v
<1>9. CASE n > 0
  <2>1. Len(low) = n + 2 /\ Len(mid) = n + 1  BY <1>2, <1>4, <1>6, <1>9
  <2>2. low[1] = v /\ low[2] = SP  BY <1>2, <1>3, <1>4, <1>6, <1>9, <2>1
  <2>3. \A i \in 1..n : low[i + 2] = a[i]  BY <1>2, <1>4, <1>6, <1>9, <2>1
  <2>4. Line(v, a)[n + 3] = CR /\ Line(v, a)[n + 4] = LF  BY <1>2, <1>3, <1>7, <1>9, <2>1
  <2>5. \A i \in 1..n + 2 : Line(v, a)[i] = low[i]  BY <1>2, <1>7, <2>1
  <2> QED BY <1>2, <1>7, <1>9, <2>1, <2>2, <2>3, <2>4, <2>5 DEF n, v
<1> QED BY <1>2, <1>8, <1>9 DEF n

\* A parameter that ends at byte n of the buffer is read back up to there.
LEMMA TextUpTo ==
  ASSUME NEW b \in [1..ParamSize -> Chars], NEW n \in Nat, n < ParamSize,
         b[n + 1] = Nul, \A i \in 1..n : b[i] # Nul
  PROVE  Text(b) = SubSeq(b, 1, n)
<1> DEFINE nuls == {i \in 1..ParamSize : b[i] = Nul}
<1>1. ParamSize \in Nat  BY BoundsAssumption DEF BoundsAssumption
<1>2. n + 1 \in nuls /\ nuls \in SUBSET Nat /\ \A i \in nuls : i > n  BY <1>1
<1>3. Text(b) = IF nuls = {} THEN SubSeq(b, 1, ParamSize) ELSE SubSeq(b, 1, Least(nuls) - 1)
  BY DEF Text
<1> HIDE DEF nuls
<1>4. Least(nuls) \in nuls /\ Least(nuls) <= n + 1  BY <1>2, LeastInSet
<1>5. \A m \in Nat : m > n /\ m <= n + 1 => m - 1 = n  OBVIOUS
<1>6. Least(nuls) - 1 = n  BY <1>2, <1>4, <1>5
<1> QED BY <1>2, <1>3, <1>6

\* getFtpCommand and getFtpParam, on the line of a command: the command's word
\* is found, the parameter's end is the end of the line, and it is terminated.
LEMMA ParsesAsSent ==
  ASSUME NEW old \in Parsers, NEW c \in Commands, Printable(c.param)
  PROVE  LET p == Parse(old, Line(c.verb, c.param)) IN
         p.type = c.verb /\ Text(p.param) = c.param
<1> DEFINE v   == c.verb
           a   == c.param
           n   == Len(a)
           pkt == Line(v, a)
<1>1. v \in Verbs /\ a \in Seq(Letters) /\ n < ParamSize /\ ParamSize \in Nat \ {0}
  BY CommandsAssumption, BoundsAssumption DEF CommandsAssumption, BoundsAssumption
<1>2. v \notin {CR, LF, SP, Nul} /\ SP # CR /\ SP # LF /\ CR # LF
  BY <1>1 DEF Verbs, HandlerVerbs, TreeVerbs, PlainVerbs, OtherVerbs, CR, LF, SP, Nul
<1>3. TypeOf(<<v>>) = v  BY <1>1 DEF TypeOf
<1>4. old.param \in [1..ParamSize -> Chars]  BY DEF Parsers
<1>5. n \in Nat /\ \A i \in 1..n : a[i] \notin Unprintable \cup {CR, LF, SP, Nul}
  <2>1. n \in Nat /\ DOMAIN a = 1..n /\ \A i \in 1..n : a[i] \in Letters
    BY <1>1, LenProperties, ElementOfSeq
  <2> HIDE DEF a
  <2> QED BY <2>1, LettersAssumption DEF LettersAssumption, Printable, a
<1>6. /\ pkt \in Seq(Chars) /\ pkt[1] = v
      /\ n = 0 => Len(pkt) = 3 /\ pkt[2] = CR /\ pkt[3] = LF
      /\ n > 0 => /\ Len(pkt) = n + 4 /\ pkt[2] = SP
                  /\ \A i \in 1..n : pkt[i + 2] = a[i]
                  /\ pkt[n + 3] = CR /\ pkt[n + 4] = LF
  BY LineBytes
<1> DEFINE parsed == Parse(old, pkt)
<1> SUFFICES parsed.type = v /\ Text(parsed.param) = a  OBVIOUS
<1>7. n = 0 => a = << >>  BY <1>1, EmptySeq
<1> HIDE DEF v, a, n, pkt
<1>8. Len(pkt) \in Nat /\ Len(pkt) >= 3  BY <1>5, <1>6
<1>9. 2 \in CommandEnds(pkt) /\ 1 \notin CommandEnds(pkt)
  BY <1>2, <1>5, <1>6, <1>8 DEF CommandEnds
<1>10. Least(CommandEnds(pkt)) = 2
  <2>1. /\ Least(CommandEnds(pkt)) \in CommandEnds(pkt)
        /\ Least(CommandEnds(pkt)) \in 1..(Len(pkt) - 1)
        /\ Least(CommandEnds(pkt)) <= 2
    BY <1>6, <1>9, CommandEndInside
  <2>2. \A m \in 1..(Len(pkt) - 1) : m <= 2 => m \in {1, 2}  BY <1>8
  <2> QED BY <1>9, <2>1, <2>2
<1>11. SubSeq(pkt, 1, 2 - 1) = <<v>>
  <2>1. /\ SubSeq(pkt, 1, 1) \in Seq(Chars) /\ Len(SubSeq(pkt, 1, 1)) = 1
        /\ SubSeq(pkt, 1, 1)[1] = v
    BY <1>6, <1>8, PartOf
  <2>2. <<v>> \in Seq(Chars) /\ Len(<<v>>) = 1 /\ <<v>>[1] = v  BY <1>1 DEF Chars
  <2>3. \A i \in 1..1 : SubSeq(pkt, 1, 1)[i] = <<v>>[i]  BY <2>1
  <2>4. SubSeq(pkt, 1, 1) = <<v>>  BY <2>1, <2>2, <2>3, SeqEqual
  <2> QED BY <2>4
<1> DEFINE rest  == SubSeq(pkt, 2 + 1, Len(pkt))
           empty == [old.param EXCEPT ![1] = Nul]
           param == ParamBytes(old.param, rest)
           ok    == LineEnds(rest, ParamEnd(rest)) \/ Text(param) = << >>
<1>12. parsed = IF pkt[2] = CR \/ rest[1] = CR
                THEN [type |-> v, param |-> empty]
                ELSE [type |-> IF ok THEN v ELSE old.type, param |-> param]
  BY <1>3, <1>9, <1>10, <1>11 DEF Parse
<1> HIDE DEF parsed
<1>13. CASE n = 0
  <2>1. parsed = [type |-> v, param |-> empty]  BY <1>6, <1>12, <1>13
  <2>2. empty \in [1..ParamSize -> Chars] /\ empty[1] = Nul
    <3>1. 1 \in 1..ParamSize /\ Nul \in Chars  BY <1>1 DEF Chars
    <3> QED BY <1>4, <3>1
  <2> HIDE DEF empty
  <2>3. Text(empty) = SubSeq(empty, 1, 0)
    <3>1. 0 \in Nat /\ 0 < ParamSize /\ 0 + 1 = 1 /\ \A i \in 1..0 : empty[i] # Nul  BY <1>1
    <3> QED BY <2>2, <3>1, TextUpTo
  <2>4. SubSeq(empty, 1, 0) = << >>  BY SubSeqEmpty
  <2> QED BY <1>7, <1>13, <2>1, <2>3, <2>4
<1>14. CASE n > 0
  <2>1. /\ rest \in Seq(Chars) /\ Len(rest) = n + 2
        /\ \A i \in 1..n + 2 : rest[i] = pkt[i + 2]
    <3>1. /\ SubSeq(pkt, 3, Len(pkt)) \in Seq(Chars)
          /\ Len(SubSeq(pkt, 3, Len(pkt))) = Len(pkt) - 3 + 1
          /\ \A i \in 1..(Len(pkt) - 3 + 1) : SubSeq(pkt, 3, Len(pkt))[i] = pkt[3 + i - 1]
      BY <1>6, <1>8, PartOf
    <3> QED BY <1>5, <1>6, <1>14, <3>1
  <2> HIDE DEF rest
  <2>2. /\ \A i \in 1..n : rest[i] = a[i]
        /\ rest[n + 1] = CR /\ rest[n + 2] = LF
    BY <1>5, <1>6, <1>14, <2>1
  <2>3. n + 1 \in ParamEnds(rest) /\ \A i \in 1..n : i \notin ParamEnds(rest)
    BY <1>5, <2>1, <2>2 DEF ParamEnds
  <2>4. ParamEnd(rest) = n + 1
    <3>1. /\ ParamEnd(rest) \in ParamEnds(rest) \cup {n + 2}
          /\ ParamEnd(rest) \in Nat /\ ParamEnd(rest) <= n + 1
      BY <2>1, <2>3, ParamEndInside
    <3>2. ParamEnd(rest) # n + 2  BY <1>5, <3>1
    <3>3. ParamEnd(rest) >= 1  BY <1>5, <2>1, <3>1, <3>2 DEF ParamEnds
    <3>4. \A m \in Nat : m >= 1 /\ m <= n + 1 => m \in 1..n \/ m = n + 1  BY <1>5
    <3> QED BY <2>3, <3>1, <3>2, <3>3, <3>4
  <2>5. LineEnds(rest, n + 1)  BY <1>5, <2>1, <2>2 DEF LineEnds
  <2>6. /\ param \in [1..ParamSize -> Chars] /\ param[n + 1] = Nul
        /\ \A i \in 1..n : param[i] = a[i]
    <3>1. param \in [1..ParamSize -> Chars]  BY <1>4, <2>1, ParamBytesTyped
    <3>2. \A i \in 1..ParamSize :
            param[i] = IF i < n + 1 THEN rest[i]
                       ELSE IF i = n + 1 THEN Nul ELSE old.param[i]
      BY <2>4, <2>5 DEF ParamBytes
    <3> HIDE DEF param
    <3>3. \A i \in 1..n : i \in 1..ParamSize /\ i < n + 1  BY <1>1, <1>5
    <3>4. n + 1 \in 1..ParamSize /\ ~ (n + 1 < n + 1)  BY <1>1, <1>5
    <3> QED BY <2>2, <3>1, <3>2, <3>3, <3>4
  <2>7. rest[1] # CR /\ pkt[2] # CR  BY <1>2, <1>5, <1>6, <1>14, <2>2
  <2>8. parsed = [type |-> v, param |-> param]  BY <1>12, <2>4, <2>5, <2>7
  <2> HIDE DEF param
  <2>9. Text(param) = SubSeq(param, 1, n)  BY <1>1, <1>5, <2>6, TextUpTo
  <2>10. SubSeq(param, 1, n) = a
    <3>1. a \in Seq(Chars)
      <4>1. Letters \subseteq Chars  BY DEF Chars
      <4> QED BY <1>1, <4>1, SeqMonotonic
    <3>2. \A i \in 1..n : param[i] \in Chars  BY <1>1, <1>5, <2>6
    <3>3. /\ SubSeq(param, 1, n) \in Seq(Chars) /\ Len(SubSeq(param, 1, n)) = n - 1 + 1
          /\ \A i \in 1..n - 1 + 1 : SubSeq(param, 1, n)[i] = param[1 + i - 1]
      BY <1>5, <1>14, <3>2, SubSeqProperties
    <3>4. \A i \in 1..n : SubSeq(param, 1, n)[i] = a[i]  BY <1>5, <2>6, <3>3
    <3>5. Len(SubSeq(param, 1, n)) = Len(a)  BY <1>5, <3>3 DEF n
    <3> QED BY <1>5, <3>1, <3>3, <3>4, <3>5, SeqEqual
  <2> QED BY <2>8, <2>9, <2>10
<1> QED BY <1>5, <1>13, <1>14

-----------------------------------------------------------------------------
(* The control connection                                                   *)

ControlTypes ==
  /\ wire \in Seq(Chars)
  /\ link \in {"up", "closed", "reset"}
  /\ sent \in Commands \cup {NotSent}
  /\ parser \in Parsers
  /\ user \in Seq(Chars)

SessionTypes == loggedIn \in BOOLEAN /\ peer \in {"none", "invited", "open", "closed", "reset"}

LEMMA ControlInit == Init => ControlTypes /\ SessionTypes
<1> SUFFICES ASSUME Init PROVE ControlTypes /\ SessionTypes  OBVIOUS
<1>1. NewParser \in Parsers  BY DEF NewParser, Parsers, Chars
<1>2. << >> \in Seq(Chars) /\ <<Junk>> \in Seq(Chars)
  <2>1. Junk \in Chars  BY DEF Chars
  <2> QED BY <2>1, EmptySeq
<1> QED BY <1>1, <1>2 DEF Init, ControlTypes, SessionTypes

LEMMA ControlGone ==
  ASSUME Gone
  PROVE  ControlTypes' /\ SessionTypes'
<1>1. NewParser \in Parsers  BY DEF NewParser, Parsers, Chars
<1>2. << >> \in Seq(Chars) /\ <<Junk>> \in Seq(Chars)
  <2>1. Junk \in Chars  BY DEF Chars
  <2> QED BY <2>1, EmptySeq
<1>3. wire' \in Seq(Chars) /\ user' \in Seq(Chars) /\ parser' \in Parsers
  BY <1>1, <1>2 DEF Gone
<1> QED BY <1>3 DEF Gone, ControlTypes, SessionTypes

\* What Reply leaves of the control connection.
LEMMA ControlReply ==
  ASSUME ControlTypes, Reply, UNCHANGED parser, user' \in Seq(Chars)
  PROVE  ControlTypes'
BY DEF ControlTypes, Reply

LEMMA ControlNext ==
  ASSUME ControlTypes, SessionTypes, [Next]_vars
  PROVE  ControlTypes' /\ SessionTypes'
<1> USE DEF ControlTypes, SessionTypes
<1>1. CASE UNCHANGED vars  BY <1>1 DEF vars, control, session, data
<1>2. CASE Gone  BY <1>2, ControlGone
<1>3. ASSUME NEW c \in Commands, ClientSend(c) PROVE ControlTypes' /\ SessionTypes'
  <2>1. wire' = wire \o Line(c.verb, c.param) /\ sent' = c
    BY <1>3 DEF ClientSend
  <2>2. wire' \in Seq(Chars)
    <3>1. Line(c.verb, c.param) \in Seq(Chars)  BY LineBytes
    <3> QED BY <2>1, <3>1, ConcatProperties
  <2>3. UNCHANGED <<link, parser, user, loggedIn, peer>>  BY <1>3 DEF ClientSend, session, data
  <2> QED BY <2>1, <2>2, <2>3
<1>4. CASE ClientHangUp
  <2>1. /\ UNCHANGED <<parser, user, loggedIn, peer>> /\ link' \in {"closed", "reset"}
        /\ UNCHANGED <<wire, sent>> \/ (wire' = << >> /\ sent' = NotSent)
    BY <1>4 DEF ClientHangUp, session, data
  <2>2. << >> \in Seq(Chars)  BY EmptySeq
  <2> QED BY <2>1, <2>2
<1>5. CASE ClientDial \/ ClientData \/ ClientDataEnd
  BY <1>5 DEF ClientDial, ClientData, ClientDataEnd, control, session
<1>6. CASE Receive
  <2>1. PICK n \in 1..Len(wire) : /\ parser' = Parse(parser, SubSeq(wire, 1, n))
                                  /\ wire' = SubSeq(wire, n + 1, Len(wire))
    BY <1>6 DEF Receive
  <2>2. UNCHANGED <<link, sent, user, loggedIn, peer>>  BY <1>6 DEF Receive, data
  <2>3. Len(wire) \in Nat /\ n \in Nat /\ n <= Len(wire) /\ n + 1 \in Nat \ {0}
    BY LenProperties
  <2>4. SubSeq(wire, 1, n) \in Seq(Chars) /\ wire' \in Seq(Chars)  BY <2>1, <2>3, PartOf
  <2>5. parser' \in Parsers  BY <2>1, <2>4, ParseTyped
  <2> QED BY <2>2, <2>4, <2>5
<1>7. CASE ReceiveError
  <2>1. parser' \in Parsers  BY <1>7 DEF ReceiveError, Parsers
  <2> QED BY <1>7, <2>1 DEF ReceiveError, data
<1>8. CASE User
  <2>1. Text(parser.param) \in Seq(Chars)  BY TextTyped DEF Parsers
  <2> QED BY <1>8, <2>1 DEF User, Back, Reply, data
<1>9. CASE Pass \/ Plain \/ RetrNoFile
  <2>1. loggedIn' \in BOOLEAN
    <3>1. CASE Pass  BY <3>1 DEF Pass
    <3>2. CASE Plain \/ RetrNoFile  BY <3>2 DEF Plain, RetrNoFile
    <3> QED BY <1>9, <3>1, <3>2
  <2>2. UNCHANGED <<parser, wire, link, user, peer>> /\ sent' = NotSent
    BY <1>9 DEF Pass, Plain, RetrNoFile, Back, Reply, data
  <2> QED BY <2>1, <2>2
<1>10. CASE Pasv
  <2>1. UNCHANGED <<parser, wire, link, user, loggedIn>> /\ sent' = NotSent
        /\ peer' \in {"none", "invited"}
    BY <1>10 DEF Pasv, Reply, session
  <2> QED BY <2>1
<1>11. CASE Finish
  <2>1. UNCHANGED <<parser, wire, link, user, loggedIn>> /\ sent' = NotSent
    BY <1>11 DEF Finish, Reply, session
  <2>2. peer' \in {peer, "none"}  BY <1>11 DEF Finish, Hear, data
  <2> QED BY <2>1, <2>2
<1>12. CASE Retr \/ Stor
  <2>1. UNCHANGED <<control, session, data>>  BY <1>12 DEF Retr, Stor, Transfer
  <2> QED BY <2>1 DEF control, session, data
<1>13. CASE Accept \/ StorRead \/ StorEnd \/ Fork
  <2>1. UNCHANGED <<wire, sent, session, peer>> /\ link' \in {link, "up"}
    BY <1>13 DEF Accept, StorRead, StorEnd, Fork, control, data
  <2> QED BY <2>1 DEF session
<1> QED BY <1>1, <1>2, <1>3, <1>4, <1>5, <1>6, <1>7, <1>8, <1>9, <1>10, <1>11, <1>12, <1>13
        DEF Next, Session, Client, Handle, List, RetrEnd, StorCreate, ReceiveEnd, Quit, Crash

\* The session's locals and its peers have their types whatever the client
\* sends: also bytes that are no command, and commands cut anywhere.
THEOREM TypesSound == Spec => []TypeOK
<1>1. Init => ControlTypes /\ SessionTypes  BY ControlInit
<1>2. ControlTypes /\ SessionTypes /\ [Next]_vars => (ControlTypes /\ SessionTypes)'
  BY ControlNext
<1>3. DescriptorInv /\ UploadInv /\ ControlTypes /\ SessionTypes => TypeOK
  BY DEF DescriptorInv, FdTypes, UploadInv, DataTypes, ControlTypes, SessionTypes,
         Parsers, TypeOK
<1>4. Spec => []UploadInv
  <2>1. Init => UploadInv
    BY EmptySeq, ConcatEmptySeq DEF Init, UploadInv, DataTypes, Storing
  <2>2. DescriptorInv /\ UploadInv /\ [Next]_vars => UploadInv'  BY UploadNext
  <2> QED BY <2>1, <2>2, DescriptorsAlways, PTL DEF Spec
<1> QED BY <1>1, <1>2, <1>3, <1>4, DescriptorsAlways, PTL DEF Spec

-----------------------------------------------------------------------------
(* A client that waits for its replies                                      *)

Serving == {"run", "retr", "stor", "create"}

\* The wire holds the one command the client waits for, or nothing; while one is
\* served, the client waits or has gone.
OneAtATime ==
  /\ wire # << >> => /\ sent \in Commands /\ wire = Line(sent.verb, sent.param)
                     /\ pc \in {"recv", "accept"}
  /\ link = "reset" => wire = << >> /\ sent = NotSent
  /\ pc \in Serving /\ sent = NotSent => link # "up"

SyncInv == ControlTypes /\ OneAtATime /\ AsSent

LEMMA SyncGone ==
  ASSUME Gone
  PROVE  OneAtATime' /\ AsSent'
BY DEF Gone, OneAtATime, AsSent, Serving

\* Steps that serve the command or leave it alone.
LEMMA SyncServe ==
  ASSUME OneAtATime, wire' = wire, link' = link, parser' = parser,
         \/ sent' = sent /\ pc' = pc
         \/ sent' = sent /\ pc \in Serving /\ pc' \in Serving \ {"run"}
         \/ sent' = sent /\ pc = "accept" /\ pc' = "recv"
         \/ sent' = NotSent /\ pc \in Serving /\ pc' \in {"recv", "accept"},
         AsSent
  PROVE  OneAtATime' /\ AsSent'
BY DEF OneAtATime, AsSent, Serving

LEMMA SyncReceive ==
  ASSUME WholeLines, SyncInv, Receive
  PROVE  OneAtATime' /\ AsSent'
<1>1. pc = "recv" /\ wire # << >> /\ pc' = "run" /\ link' = link /\ sent' = sent
  BY DEF Receive
<1>2. sent \in Commands /\ wire = Line(sent.verb, sent.param) /\ link # "reset"
  BY <1>1 DEF SyncInv, OneAtATime
<1>3. sent # NotSent
  <2>1. sent.verb \in Verbs  BY <1>2, CommandsAssumption DEF CommandsAssumption
  <2> QED BY <2>1 DEF NotSent, Verbs, HandlerVerbs, TreeVerbs, PlainVerbs, OtherVerbs
<1>4. wire \in Seq(Chars) /\ Len(wire) \in Nat  BY LenProperties DEF SyncInv, ControlTypes
<1>5. /\ parser' = Parse(parser, SubSeq(wire, 1, Len(wire)))
      /\ wire' = SubSeq(wire, Len(wire) + 1, Len(wire))
  BY DEF Receive
<1>6. SubSeq(wire, 1, Len(wire)) = wire  BY <1>4, SubSeqFull
<1>7. wire' = << >>  BY <1>4, <1>5, SubSeqEmpty
<1>8. Printable(sent.param) => /\ parser'.type = sent.verb
                               /\ Text(parser'.param) = sent.param
  BY <1>2, <1>5, <1>6, ParsesAsSent DEF SyncInv, ControlTypes
<1>9. OneAtATime'  BY <1>1, <1>2, <1>3, <1>7 DEF OneAtATime
<1>10. AsSent'  BY <1>1, <1>8 DEF AsSent
<1> QED BY <1>9, <1>10

LEMMA SyncSend ==
  ASSUME Synchronous, FdTypes, SyncInv, NEW c \in Commands, ClientSend(c)
  PROVE  OneAtATime' /\ AsSent'
<1>1. /\ link = "up" /\ pc # "gone" /\ sent = NotSent /\ wire = << >>
      /\ wire' = wire \o Line(c.verb, c.param) /\ sent' = c
      /\ UNCHANGED <<link, pc>>
  BY DEF ClientSend
<1>2. wire' = Line(c.verb, c.param)
  <2>1. Line(c.verb, c.param) \in Seq(Chars)  BY LineBytes
  <2> QED BY <1>1, <2>1, ConcatEmptySeq
<1>3. pc \in {"recv", "accept"}  BY <1>1 DEF SyncInv, OneAtATime, FdTypes, Serving
<1>4. OneAtATime'  BY <1>1, <1>2, <1>3 DEF OneAtATime, Serving
<1>5. AsSent'  BY <1>1, <1>3 DEF AsSent
<1> QED BY <1>4, <1>5

LEMMA SyncNext ==
  ASSUME Synchronous, WholeLines, FdTypes, SyncInv, SessionTypes, [Next]_vars
  PROVE  SyncInv'
<1>1. ControlTypes'  BY ControlNext DEF SyncInv
<1> SUFFICES OneAtATime' /\ AsSent'  BY <1>1 DEF SyncInv
<1>2. OneAtATime /\ AsSent  BY DEF SyncInv
<1>3. CASE UNCHANGED vars
  <2>1. wire' = wire /\ link' = link /\ parser' = parser /\ sent' = sent /\ pc' = pc
    BY <1>3 DEF vars, control, session
  <2> QED BY <1>2, <2>1, SyncServe
<1>4. CASE Gone  BY <1>4, SyncGone
<1>5. ASSUME NEW c \in Commands, ClientSend(c) PROVE OneAtATime' /\ AsSent'
  BY <1>5, SyncSend
<1>6. CASE ClientHangUp
  <2>1. /\ link = "up" /\ pc' = pc /\ parser' = parser
        /\ \/ link' = "closed" /\ wire' = wire /\ sent' = sent
           \/ link' = "reset" /\ wire' = << >> /\ sent' = NotSent
    BY <1>6 DEF ClientHangUp, session
  <2> QED BY <1>2, <2>1 DEF OneAtATime, AsSent
<1>7. CASE ClientDial \/ ClientData \/ ClientDataEnd
  <2>1. wire' = wire /\ link' = link /\ parser' = parser /\ sent' = sent /\ pc' = pc
    BY <1>7 DEF ClientDial, ClientData, ClientDataEnd, control, session
  <2> QED BY <1>2, <2>1, SyncServe
<1>8. CASE Receive  BY <1>8, SyncReceive
<1>9. CASE ReceiveError
  <2>1. /\ link = "reset" /\ link' = "closed" /\ wire' = wire /\ sent' = sent /\ pc' = "run"
    BY <1>9 DEF ReceiveError
  <2> QED BY <1>2, <2>1 DEF OneAtATime, AsSent
<1>10. CASE User \/ Pass \/ Plain \/ RetrNoFile
  <2>1. /\ wire' = wire /\ link' = link /\ parser' = parser
        /\ sent' = NotSent /\ pc = "run" /\ pc' = "recv"
    BY <1>10 DEF User, Pass, Plain, RetrNoFile, Run, Back, Reply
  <2> QED BY <1>2, <2>1, SyncServe DEF Serving
<1>11. CASE Pasv
  <2>1. /\ wire' = wire /\ link' = link /\ parser' = parser
        /\ sent' = NotSent /\ pc = "run" /\ pc' = "accept"
    BY <1>11 DEF Pasv, Run, Reply, session
  <2> QED BY <1>2, <2>1, SyncServe DEF Serving
<1>12. CASE List \/ RetrEnd \/ StorCreate
  <2>1. /\ wire' = wire /\ link' = link /\ parser' = parser
        /\ sent' = NotSent /\ pc \in {"run", "retr", "create"} /\ pc' = "recv"
    BY <1>12 DEF List, RetrEnd, StorCreate, Run, Finish, Reply, session
  <2> QED BY <1>2, <2>1, SyncServe DEF Serving
<1>13. CASE Retr \/ Stor
  <2>1. /\ wire' = wire /\ link' = link /\ parser' = parser
        /\ sent' = sent /\ pc = "run" /\ pc' \in {"retr", "stor"}
    BY <1>13 DEF Retr, Stor, Transfer, Run, control, session
  <2> QED BY <1>2, <2>1, SyncServe DEF Serving
<1>14. CASE StorRead \/ StorEnd
  <2>1. /\ wire' = wire /\ link' = link /\ parser' = parser
        /\ sent' = sent /\ pc = "stor" /\ pc' \in {"stor", "create"}
    BY <1>14 DEF StorRead, StorEnd, control, session
  <2> QED BY <1>2, <2>1, SyncServe DEF Serving
<1>15. CASE Accept
  <2>1. /\ wire' = wire /\ link' = link /\ parser' = parser
        /\ sent' = sent /\ pc = "accept" /\ pc' = "recv"
    BY <1>15 DEF Accept, control, session
  <2> QED BY <1>2, <2>1, SyncServe
<1>16. CASE Fork
  <2>1. pc = "gone" /\ pc' = "recv" /\ link' = "up" /\ wire' = wire /\ sent' = sent
    BY <1>16 DEF Fork
  <2> QED BY <1>2, <2>1 DEF OneAtATime, AsSent, Serving
<1> QED BY <1>3, <1>4, <1>5, <1>6, <1>7, <1>8, <1>9, <1>10, <1>11, <1>12, <1>13, <1>14,
           <1>15, <1>16
        DEF Next, Session, Client, Handle, ReceiveEnd, Quit, Crash

\* For a client that waits for each reply, and whose lines arrive whole, what
\* runs is what it sent last, with its parameter, after any commands before it:
\* also after ones that did not parse and left their bytes in the buffer.
THEOREM CommandsAsSent ==
  ASSUME Synchronous, WholeLines
  PROVE  Spec => []AsSent
<1>1. Init => SyncInv /\ SessionTypes
  <2> SUFFICES ASSUME Init PROVE SyncInv /\ SessionTypes  OBVIOUS
  <2>1. ControlTypes /\ SessionTypes  BY ControlInit
  <2>2. OneAtATime /\ AsSent  BY DEF Init, OneAtATime, AsSent, Serving
  <2> QED BY <2>1, <2>2 DEF SyncInv
<1>2. DescriptorInv /\ SyncInv /\ SessionTypes /\ [Next]_vars => (SyncInv /\ SessionTypes)'
  BY SyncNext, ControlNext DEF SyncInv, DescriptorInv
<1>3. SyncInv => AsSent  BY DEF SyncInv
<1> QED BY <1>1, <1>2, <1>3, DescriptorsAlways, PTL DEF Spec
=============================================================================
