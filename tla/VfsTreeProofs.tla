--------------------------- MODULE VfsTreeProofs ---------------------------
(***************************************************************************)
(* The sessions of a built database work on one tree: every id that was    *)
(* handed out once stands for one entry, in one list, that is never lost   *)
(* or changed.  From that: the abstract tree of VfsTree, the parent of the *)
(* cwd, and what listings and lookups find.  All of it for any sessions,   *)
(* names, paths and commands but those that read unwritten memory          *)
(* (Garbage = {}).  At the end: one session at a time, from an empty Redis *)
(* server on.                                                              *)
(***************************************************************************)
EXTENDS VfsDirProofs, FiniteSetTheorems

-----------------------------------------------------------------------------
(* The lists.                                                               *)

\* The id is in the list of directory d.
Has(lists, d, id) == d \in DOMAIN lists /\ \E i \in DOMAIN lists[d] : lists[d][i] = id

\* It is in one list at most, and there once.
Once(lists, id) ==
  \A x, y \in DOMAIN lists : \A i \in DOMAIN lists[x], j \in DOMAIN lists[y] :
    lists[x][i] = id /\ lists[y][j] = id => x = y /\ i = j

Nowhere(lists, id) == \A d \in DOMAIN lists : ~ Has(lists, d, id)

ListsType(lists) == lists \in [DOMAIN lists -> Seq(IdsOrNone)]

\* p is the lists after the id was pushed on the list q of directory d.
Pushed(l, d, id, p, q) ==
  /\ DOMAIN p = DOMAIN l \cup {d}
  /\ \A x \in DOMAIN l \ {d} : p[x] = l[x]
  /\ d \in DOMAIN l => q = l[d]
  /\ d \notin DOMAIN l => DOMAIN q = {}
  /\ q \in Seq(IdsOrNone) /\ Len(q) \in Nat /\ DOMAIN q = 1..Len(q)
  /\ Len(p[d]) = Len(q) + 1 /\ DOMAIN p[d] = 1..Len(q) + 1
  /\ \A i \in 1..Len(q) + 1 : p[d][i] = IF i = 1 THEN id ELSE q[i - 1]
  /\ \A i \in 1..Len(q) : p[d][i + 1] = q[i]

LEMMA LpushParts ==
  ASSUME NEW l, ListsType(l), NEW d, NEW id \in IdsOrNone
  PROVE  Pushed(l, d, id, Lpush(l, d, id), ListAt(l, d))
<1> DEFINE p == Lpush(l, d, id)
           q == ListAt(l, d)
<1>0. (d \in DOMAIN l => q = l[d]) /\ (d \notin DOMAIN l => DOMAIN q = {})
  BY DEF ListAt
<1>1. DOMAIN p = DOMAIN l \cup {d} /\ p[d] = <<id>> \o q /\ \A x \in DOMAIN l \ {d} : p[x] = l[x]
  BY DEF Lpush
<1>2. q \in Seq(IdsOrNone) /\ <<id>> \in Seq(IdsOrNone)
  BY ListType DEF ListsType
<1>3. Len(q) \in Nat /\ DOMAIN q = 1..Len(q)
  BY <1>2
<1>4. /\ <<id>> \o q \in Seq(IdsOrNone) /\ Len(<<id>> \o q) = 1 + Len(q)
      /\ \A i \in 1..Len(q) + 1 : (<<id>> \o q)[i] = IF i = 1 THEN id ELSE q[i - 1]
  BY <1>2, <1>3
<1>5. Len(p[d]) = Len(q) + 1 /\ DOMAIN p[d] = 1..Len(q) + 1
  BY <1>1, <1>3, <1>4
<1>6. \A i \in 1..Len(q) + 1 : p[d][i] = IF i = 1 THEN id ELSE q[i - 1]
  BY <1>1, <1>4
<1>7. \A i \in 1..Len(q) : p[d][i + 1] = q[i]
  <2> SUFFICES ASSUME NEW i \in 1..Len(q) PROVE p[d][i + 1] = q[i]
    OBVIOUS
  <2>1. i + 1 \in 1..Len(q) + 1 /\ i + 1 # 1 /\ (i + 1) - 1 = i
    BY <1>3
  <2> QED
    BY <1>6, <2>1
<1> QED
  BY <1>0, <1>1, <1>2, <1>3, <1>5, <1>6, <1>7 DEF Pushed

\* LPUSH adds the id to one list and leaves the others alone.
LEMMA LpushHas ==
  ASSUME NEW l, ListsType(l), NEW d, NEW id \in IdsOrNone, NEW x, NEW j
  PROVE  Has(Lpush(l, d, id), x, j) <=> Has(l, x, j) \/ (x = d /\ j = id)
<1> DEFINE p == Lpush(l, d, id)
           q == ListAt(l, d)
<1>0. p = Lpush(l, d, id) /\ q = ListAt(l, d)
  OBVIOUS
<1> HIDE DEF p, q
<1>1. Pushed(l, d, id, p, q)
  BY <1>0, LpushParts
<1> USE DEF Pushed
<1>4. CASE x # d
  BY <1>0, <1>1, <1>4 DEF Has
<1>5. CASE x = d
  <2>1. ASSUME Has(p, d, j), j # id PROVE Has(l, d, j)
    <3>1. PICK i \in 1..Len(q) + 1 : p[d][i] = j
      BY <1>1, <2>1 DEF Has
    <3>2. i # 1 /\ q[i - 1] = j
      BY <1>1, <2>1, <3>1
    <3>3. i - 1 \in 1..Len(q)
      BY <1>1, <3>2
    <3> QED
      BY <1>1, <3>2, <3>3 DEF Has
  <2>2. ASSUME Has(l, d, j) PROVE Has(p, d, j)
    <3>1. PICK i \in 1..Len(q) : q[i] = j
      BY <1>1, <2>2 DEF Has
    <3>2. p[d][i + 1] = j /\ i + 1 \in DOMAIN p[d]
      BY <1>1, <3>1
    <3> QED
      BY <1>1, <3>2 DEF Has
  <2>3. Has(p, d, id)
    <3>1. 1 \in DOMAIN p[d] /\ p[d][1] = id
      BY <1>1
    <3> QED
      BY <1>1, <3>1 DEF Has
  <2> QED
    BY <1>0, <1>5, <2>1, <2>2, <2>3
<1> QED
  BY <1>4, <1>5

LEMMA LpushOnce ==
  ASSUME NEW l, ListsType(l), NEW d, NEW id \in IdsOrNone, NEW j,
         Once(l, j), j # id \/ Nowhere(l, j)
  PROVE  Once(Lpush(l, d, id), j)
<1> DEFINE p == Lpush(l, d, id)
           q == ListAt(l, d)
<1>0. p = Lpush(l, d, id) /\ q = ListAt(l, d)
  OBVIOUS
<1> HIDE DEF p, q
<1>1. Pushed(l, d, id, p, q)
  BY <1>0, LpushParts
<1> USE DEF Pushed
\* A place of j in the new lists is the new one, or one of the old lists.
<1>4. ASSUME NEW x \in DOMAIN p, NEW i \in DOMAIN p[x], p[x][i] = j
      PROVE  \/ j = id /\ x = d /\ i = 1
             \/ x # d /\ x \in DOMAIN l /\ i \in DOMAIN l[x] /\ l[x][i] = j
             \/ x = d /\ x \in DOMAIN l /\ i \in Int /\ i - 1 \in DOMAIN l[x] /\ l[x][i - 1] = j
  <2>1. CASE x # d
    BY <1>1, <1>4, <2>1
  <2>2. CASE x = d /\ i = 1
    BY <1>1, <1>4, <2>2
  <2>3. CASE x = d /\ i # 1
    <3>1. i \in 1..Len(q) + 1 /\ q[i - 1] = j
      BY <1>1, <1>4, <2>3
    <3>2. i - 1 \in 1..Len(q)
      BY <1>1, <2>3, <3>1
    <3> QED
      BY <1>1, <2>3, <3>1, <3>2
  <2> QED
    BY <2>1, <2>2, <2>3
<1>5. ASSUME j = id
      PROVE  \A x \in DOMAIN l : \A i \in DOMAIN l[x] : l[x][i] # j
  BY <1>5 DEF Nowhere, Has
<1> SUFFICES ASSUME NEW x \in DOMAIN p, NEW y \in DOMAIN p,
                    NEW i \in DOMAIN p[x], NEW k \in DOMAIN p[y],
                    p[x][i] = j, p[y][k] = j
             PROVE  x = y /\ i = k
  BY <1>0 DEF Once
<1>6. CASE j = id
  <2>1. x = d /\ i = 1
    BY <1>4, <1>5, <1>6
  <2>2. y = d /\ k = 1
    BY <1>4, <1>5, <1>6
  <2> QED
    BY <2>1, <2>2
<1>7. CASE j # id
  <2>1. \/ x # d /\ x \in DOMAIN l /\ i \in DOMAIN l[x] /\ l[x][i] = j
        \/ x = d /\ x \in DOMAIN l /\ i \in Int /\ i - 1 \in DOMAIN l[x] /\ l[x][i - 1] = j
    BY <1>4, <1>7
  <2>2. \/ y # d /\ y \in DOMAIN l /\ k \in DOMAIN l[y] /\ l[y][k] = j
        \/ y = d /\ y \in DOMAIN l /\ k \in Int /\ k - 1 \in DOMAIN l[y] /\ l[y][k - 1] = j
    BY <1>4, <1>7
  <2>3. x = y
    BY <2>1, <2>2 DEF Once
  <2>4. CASE x # d
    BY <2>1, <2>2, <2>3, <2>4 DEF Once
  <2>5. CASE x = d
    <3>1. i - 1 = k - 1
      BY <2>1, <2>2, <2>3, <2>5 DEF Once
    <3> QED
      BY <2>1, <2>2, <2>3, <2>5, <3>1
  <2> QED
    BY <2>3, <2>4, <2>5
<1> QED
  BY <1>6, <1>7

-----------------------------------------------------------------------------
(* Ids.                                                                     *)

Owns(c) == pc[c] \in {"incr", "link", "info"}

\* Two sessions that create with the same id know it from raced.
OneOwner ==
  \A c, d \in Clients : c # d /\ Owns(c) /\ Owns(d) /\ new[c] = new[d] => new[c] \in raced

\* The id of a creation has no hash, and is listed only where it is created,
\* once its session has listed it there.
NewUnused(c) ==
  new[c] \notin raced =>
    /\ Owns(c) => new[c] \notin Dirs \cup DOMAIN fileInfo
    /\ pc[c] \in {"incr", "link"} => Nowhere(folders, new[c]) /\ Nowhere(files, new[c])
    /\ pc[c] = "info" => IF req[c].op = "MKD" THEN Has(folders, walk[c].dir, new[c])
                         ELSE Has(files, walk[c].dir, new[c])

OnceListed ==
  \A id \in Nat \ raced :
    /\ Once(folders, id) /\ Once(files, id)
    /\ Nowhere(folders, id) \/ Nowhere(files, id)

\* A directory is listed where its hash says.
DirsListed == \A d \in Dirs \ ({Root} \cup raced) : Has(folders, dirInfo[d].parent, d)

TreeInv ==
  DirInv /\ DOMAIN before = Clients /\ OneOwner /\ (\A c \in Clients : NewUnused(c)) /\ OnceListed /\ DirsListed

-----------------------------------------------------------------------------
(* One step of a session.                                                   *)

\* A step changes the request of its own session only, and raced only grows,
\* by the id that GetId reads.
LEMMA OwnRequest ==
  ASSUME TypeIInv, NEW c \in Clients, DOMAIN before = Clients,
         Connect(c) \/ Crash(c) \/ Request(c) \/ Step(c)
  PROVE  /\ DOMAIN before' = Clients
         /\ \A d \in Clients \ {c} : req'[d] = req[d] /\ before'[d] = before[d]
<1>1. DOMAIN req = Clients
  BY DEF TypeIInv, TypeInv, TypeOK, SessionType
<1> USE <1>1
<1>2. CASE Connect(c)
  BY <1>2 DEF Connect
<1>3. CASE Crash(c) \/ Respond(c)
  BY <1>3 DEF Crash, Respond, Idle
<1>4. CASE Request(c)
  <2>1. CASE CreateRequest(c) \/ ListRequest(c) \/ PwdRequest(c)
    BY <2>1 DEF CreateRequest, ListRequest, PwdRequest, Begin
  <2>2. CASE PathRequest(c)
    BY <2>2 DEF PathRequest, Begin
  <2>3. CASE CdupRequest(c)
    BY <2>3 DEF CdupRequest, Segfault, Idle
  <2> QED
    BY <1>4, <2>1, <2>2, <2>3 DEF Request
<1>5. CASE Boot(c)
  BY <1>5 DEF Boot, BootExists, BootFlushall, BootMakeRoot, BootSetCount, BootSetCreated
<1>6. CASE Create(c)
  BY <1>6 DEF Create, GetId, IncrId, LinkEntry, WriteInfo
<1>7. CASE ParsePath(c)
  BY <1>7 DEF ParsePath, ReadWalkParent, FindFiles, ReadFileName, FoundFile, FindDot,
              FindDotDot, FindFolders, ReadFolderName, FoundFolder, NothingFound,
              ReadDirParent, Segfault, Idle
<1>8. CASE Act(c)
  BY <1>8 DEF Act, CwdAct, QueryAct, DeleteAct, MvFirst, MvDone, CreateAct
<1>9. CASE List(c) \/ Pwd(c)
  BY <1>9 DEF List, ListFolders, ListFolderName, ListFiles, ListFileName, ListDone,
              Pwd, PwdName, PwdParent, Segfault, Idle
<1> QED
  BY <1>2, <1>3, <1>4, <1>5, <1>6, <1>7, <1>8, <1>9 DEF Step

\* Steps that are not part of a creation.
Outside(c) ==
  \/ Connect(c) \/ Crash(c) \/ Respond(c) \/ Request(c) \/ Boot(c)
  \/ ParsePath(c) \/ Act(c) \/ List(c) \/ Pwd(c)

\* They leave the store and raced alone, and no creation is under way after them
\* that has its id.
LEMMA OutsideStep ==
  ASSUME DirInv, NEW c \in Clients, Outside(c)
  PROVE  UNCHANGED <<store, raced>> /\ ~Owns(c)'
<1>1. UNCHANGED store
  BY StoreOnly, ConnectHeld DEF Outside, DirInv, TypeIInv
<1>2. pc \in [Clients -> Labels]
  BY DEF DirInv, TypeIInv, TypeInv, TypeOK, SessionType
<1> USE <1>2 DEF Owns, Goto
<1>3. CASE Connect(c)
  BY <1>1, <1>3 DEF Connect
<1>4. CASE Crash(c) \/ Respond(c)
  BY <1>1, <1>4 DEF Crash, Respond
<1>5. CASE Boot(c)
  BY <1>1, <1>5 DEF Boot, BootExists, BootFlushall, BootMakeRoot, BootSetCount, BootSetCreated
<1>6. CASE Request(c)
  <2>1. CASE CreateRequest(c) \/ ListRequest(c) \/ PwdRequest(c)
    BY <1>1, <2>1 DEF CreateRequest, ListRequest, PwdRequest, Begin
  <2>2. CASE PathRequest(c)
    BY <1>1, <2>2 DEF PathRequest, Begin, WalkLabel
  <2>3. CASE CdupRequest(c)
    BY <1>1, <2>3 DEF CdupRequest, Segfault
  <2> QED
    BY <1>6, <2>1, <2>2, <2>3 DEF Request
<1>7. CASE ParsePath(c)
  BY <1>1, <1>7 DEF ParsePath, ReadWalkParent, FindFiles, ReadFileName, FoundFile, FindDot,
              FindDotDot, FindFolders, ReadFolderName, FoundFolder, NothingFound,
              ReadDirParent, Enter, ParseFails, WalkLabel, Segfault, NoFile
<1>8. CASE Act(c)
  BY <1>1, <1>8 DEF Act, CwdAct, QueryAct, DeleteAct, MvFirst, MvDone, CreateAct, Reply, WalkLabel
<1>9. CASE List(c) \/ Pwd(c)
  BY <1>1, <1>9 DEF List, ListFolders, ListFolderName, ListFiles, ListFileName, ListDone,
              Pwd, PwdName, PwdParent, Reply, Segfault
<1> QED
  BY <1>3, <1>4, <1>5, <1>6, <1>7, <1>8, <1>9 DEF Outside

LEMMA StepSplit ==
  ASSUME NEW c \in Clients, Connect(c) \/ Crash(c) \/ Request(c) \/ Step(c)
  PROVE  Outside(c) \/ GetId(c) \/ IncrId(c) \/ LinkEntry(c) \/ WriteInfo(c)
BY DEF Step, Create, Outside

LEMMA Others ==
  ASSUME TreeInv, NEW c \in Clients, NEW d \in Clients \ {c},
         Connect(c) \/ Crash(c) \/ Request(c) \/ Step(c)
  PROVE  /\ pc'[d] = pc[d] /\ cwd'[d] = cwd[d] /\ walk'[d] = walk[d] /\ obj'[d] = obj[d]
         /\ new'[d] = new[d] /\ req'[d] = req[d] /\ before'[d] = before[d]
         /\ Owns(d)' = Owns(d)
BY OwnStep, OwnRequest DEF TreeInv, DirInv, Owns

\* What the steps need of the types.
LEMMA TreeFacts ==
  ASSUME TreeInv
  PROVE  /\ ListsType(folders) /\ ListsType(files)
         /\ count \in Nat /\ count # NoKey
         /\ Dirs \subseteq Nat /\ DOMAIN fileInfo \subseteq Nat
         /\ Below(folders, count) /\ Below(files, count)
         /\ \A d \in Dirs \cup DOMAIN fileInfo : d < count
         /\ pc \in [Clients -> Labels] /\ new \in [Clients -> IdsOrNone]
         /\ walk \in [Clients -> WalkType] /\ obj \in [Clients -> ObjType]
         /\ req \in [Clients -> ReqType]
         /\ \A c \in Clients : Held(c)
BY CountAboveParts
DEF TreeInv, DirInv, TreeShape, TypeIInv, TypeInv, TypeOK, StoreType, SessionType, ListsType,
    Dirs, NoKey

\* The id of the counter is nowhere yet.
LEMMA CountUnused ==
  ASSUME TreeInv
  PROVE  /\ count \notin Dirs \cup DOMAIN fileInfo
         /\ Nowhere(folders, count) /\ Nowhere(files, count)
BY TreeFacts DEF Nowhere, Has, Below

IdInv == OneOwner /\ (\A c \in Clients : NewUnused(c)) /\ OnceListed /\ DirsListed

LEMMA OutsideIds ==
  ASSUME TreeInv, NEW c \in Clients, Outside(c)
  PROVE  IdInv'
<1>1. UNCHANGED <<store, raced>> /\ ~Owns(c)'
  BY OutsideStep DEF TreeInv
<1>2. Connect(c) \/ Crash(c) \/ Request(c) \/ Step(c)
  BY DEF Outside, Step
<1>3. UNCHANGED <<folders, files, dirInfo, fileInfo, raced>> /\ Dirs' = Dirs
  BY <1>1 DEF store, Dirs
<1>4. OneOwner'
  BY <1>1, <1>2, Others DEF OneOwner, TreeInv
<1>5. ASSUME NEW d \in Clients PROVE NewUnused(d)'
  <2>1. CASE d = c
    BY <1>1, <2>1 DEF NewUnused, Owns
  <2>2. CASE d # c
    <3>1. NewUnused(d)
      BY DEF TreeInv
    <3>2. /\ pc'[d] = pc[d] /\ walk'[d] = walk[d] /\ new'[d] = new[d] /\ req'[d] = req[d]
      BY <1>2, <2>2, Others
    <3> QED
      BY <1>3, <3>1, <3>2 DEF NewUnused, Owns, Nowhere, Has
  <2> QED
    BY <2>1, <2>2
<1>6. OnceListed' /\ DirsListed'
  BY <1>3 DEF TreeInv, OnceListed, DirsListed, Once, Nowhere, Has
<1> QED
  BY <1>4, <1>5, <1>6 DEF IdInv

LEMMA GetIdIds ==
  ASSUME TreeInv, NEW c \in Clients, GetId(c)
  PROVE  IdInv'
<1>1. /\ pc[c] = "getid" /\ pc'[c] = "incr" /\ new'[c] = count
      /\ raced \subseteq raced'
      /\ \A d \in Clients \ {c} : pc[d] = "incr" /\ new[d] = count => count \in raced'
      /\ UNCHANGED <<store, walk, req>>
  BY TreeFacts DEF GetId, Goto
<1>2. UNCHANGED <<folders, files, dirInfo, fileInfo>> /\ Dirs' = Dirs
  BY <1>1 DEF store, Dirs
<1>3. ASSUME NEW d \in Clients \ {c}
      PROVE  /\ pc'[d] = pc[d] /\ walk'[d] = walk[d] /\ new'[d] = new[d] /\ req'[d] = req[d]
             /\ Owns(d)' = Owns(d)
  BY Others DEF Step, Create
<1>4. ASSUME NEW d \in Clients \ {c}, Owns(d), new[d] = count PROVE count \in raced'
  <2>1. pc[d] = "incr"
    BY <1>4, TreeFacts DEF Held, NewHeld, Owns
  <2> QED
    BY <1>1, <1>4, <2>1
<1>5. OneOwner'
  <2> SUFFICES ASSUME NEW d \in Clients, NEW e \in Clients, d # e, Owns(d)', Owns(e)',
                      new'[d] = new'[e]
               PROVE  new'[d] \in raced'
    BY DEF OneOwner
  <2>1. CASE d = c
    BY <1>1, <1>3, <1>4, <2>1
  <2>2. CASE e = c
    BY <1>1, <1>3, <1>4, <2>2
  <2>3. CASE d # c /\ e # c
    BY <1>1, <1>3, <2>3 DEF TreeInv, OneOwner
  <2> QED
    BY <2>1, <2>2, <2>3
<1>6. ASSUME NEW d \in Clients PROVE NewUnused(d)'
  <2>1. CASE d = c
    BY <1>1, <1>2, <2>1, CountUnused DEF NewUnused, Owns, Nowhere, Has
  <2>2. CASE d # c
    <3>1. NewUnused(d)
      BY DEF TreeInv
    <3> QED
      BY <1>1, <1>2, <1>3, <2>2, <3>1 DEF NewUnused, Owns, Nowhere, Has
  <2> QED
    BY <2>1, <2>2
<1>7. OnceListed' /\ DirsListed'
  BY <1>1, <1>2 DEF TreeInv, OnceListed, DirsListed, Once, Nowhere, Has
<1> QED
  BY <1>5, <1>6, <1>7 DEF IdInv

LEMMA IncrIdIds ==
  ASSUME TreeInv, NEW c \in Clients, IncrId(c)
  PROVE  IdInv'
<1>1. /\ pc[c] = "incr" /\ pc'[c] = "link" /\ Dirs' = Dirs
      /\ UNCHANGED <<folders, files, dirInfo, fileInfo, walk, req, new, raced>>
  BY TreeFacts DEF IncrId, Goto, Dirs
<1>2. ASSUME NEW d \in Clients \ {c}
      PROVE  pc'[d] = pc[d] /\ Owns(d)' = Owns(d)
  BY Others DEF Step, Create
<1>3. Owns(c) /\ Owns(c)'
  BY <1>1 DEF Owns
<1>4. OneOwner'
  BY <1>1, <1>2, <1>3 DEF TreeInv, OneOwner
<1>5. ASSUME NEW d \in Clients PROVE NewUnused(d)'
  <2>1. NewUnused(d)
    BY DEF TreeInv
  <2> QED
    BY <1>1, <1>2, <2>1 DEF NewUnused, Owns, Nowhere, Has
<1>6. OnceListed' /\ DirsListed'
  BY <1>1 DEF TreeInv, OnceListed, DirsListed, Once, Nowhere, Has
<1> QED
  BY <1>4, <1>5, <1>6 DEF IdInv

\* What LinkEntry does to the lists.
LEMMA LinkEntryParts ==
  ASSUME TreeInv, NEW c \in Clients, LinkEntry(c)
  PROVE  /\ pc[c] = "link" /\ pc'[c] = "info" /\ Dirs' = Dirs
         /\ UNCHANGED <<dirInfo, fileInfo, walk, req, new, raced>>
         /\ folders' = IF req[c].op = "MKD" THEN Lpush(folders, walk[c].dir, new[c]) ELSE folders
         /\ files' = IF req[c].op = "MKD" THEN files ELSE Lpush(files, walk[c].dir, new[c])
         /\ \A x, j : Has(folders, x, j)' <=>
                       Has(folders, x, j) \/ (req[c].op = "MKD" /\ x = walk[c].dir /\ j = new[c])
         /\ \A x, j : Has(files, x, j)' <=>
                       Has(files, x, j) \/ (req[c].op # "MKD" /\ x = walk[c].dir /\ j = new[c])
<1> DEFINE mkd == req[c].op = "MKD"
           dir == walk[c].dir
<1>1. /\ pc[c] = "link" /\ pc'[c] = "info" /\ Dirs' = Dirs
      /\ UNCHANGED <<dirInfo, fileInfo, walk, req, new, raced>>
      /\ folders' = IF mkd THEN Lpush(folders, dir, new[c]) ELSE folders
      /\ files' = IF mkd THEN files ELSE Lpush(files, dir, new[c])
  BY TreeFacts DEF LinkEntry, Goto, Dirs, Container
<1>2. ListsType(folders) /\ ListsType(files) /\ new[c] \in IdsOrNone
  BY TreeFacts
<1>3. \A x, j : Has(folders, x, j)' <=> Has(folders, x, j) \/ (mkd /\ x = dir /\ j = new[c])
  <2> SUFFICES ASSUME NEW x, NEW j
               PROVE  Has(folders', x, j) <=> Has(folders, x, j) \/ (mkd /\ x = dir /\ j = new[c])
    BY DEF Has
  <2> QED
    BY <1>1, <1>2, LpushHas
<1>4. \A x, j : Has(files, x, j)' <=> Has(files, x, j) \/ (~mkd /\ x = dir /\ j = new[c])
  <2> SUFFICES ASSUME NEW x, NEW j
               PROVE  Has(files', x, j) <=> Has(files, x, j) \/ (~mkd /\ x = dir /\ j = new[c])
    BY DEF Has
  <2> QED
    BY <1>1, <1>2, LpushHas
<1> QED
  BY <1>1, <1>3, <1>4

LEMMA LinkEntryIds ==
  ASSUME TreeInv, NEW c \in Clients, LinkEntry(c)
  PROVE  IdInv'
<1> DEFINE mkd == req[c].op = "MKD"
           dir == walk[c].dir
<1>1. /\ pc[c] = "link" /\ pc'[c] = "info" /\ Dirs' = Dirs
      /\ UNCHANGED <<dirInfo, fileInfo, walk, req, new, raced>>
      /\ folders' = IF mkd THEN Lpush(folders, dir, new[c]) ELSE folders
      /\ files' = IF mkd THEN files ELSE Lpush(files, dir, new[c])
  BY LinkEntryParts
<1>2. ListsType(folders) /\ ListsType(files) /\ new[c] \in IdsOrNone
  BY TreeFacts
<1>3. \A x, j : Has(folders, x, j)' <=> Has(folders, x, j) \/ (mkd /\ x = dir /\ j = new[c])
  BY LinkEntryParts
<1>4. \A x, j : Has(files, x, j)' <=> Has(files, x, j) \/ (~mkd /\ x = dir /\ j = new[c])
  BY LinkEntryParts
<1>5. ASSUME NEW j, j # new[c]
      PROVE  /\ Nowhere(folders, j) => Nowhere(folders, j)'
             /\ Nowhere(files, j) => Nowhere(files, j)'
  <2>1. \A x : /\ Has(folders, x, j)' => Has(folders, x, j)
               /\ Has(files, x, j)' => Has(files, x, j)
    BY <1>3, <1>4, <1>5
  <2>2. \A x : /\ Has(folders, x, j) => x \in DOMAIN folders
               /\ Has(files, x, j) => x \in DOMAIN files
    BY DEF Has
  <2> QED
    BY <2>1, <2>2 DEF Nowhere
<1>6. /\ mkd => UNCHANGED files
      /\ ~mkd => UNCHANGED folders
  BY <1>1
<1>7. Owns(c) /\ Owns(c)' /\ NewUnused(c)
  BY <1>1 DEF Owns, TreeInv
<1>8. ASSUME NEW d \in Clients \ {c}
      PROVE  pc'[d] = pc[d] /\ Owns(d)' = Owns(d)
  BY Others DEF Step, Create
<1> HIDE DEF mkd, dir
<1>9. OneOwner'
  BY <1>1, <1>7, <1>8 DEF TreeInv, OneOwner
<1>10. ASSUME NEW d \in Clients PROVE NewUnused(d)'
  <2>1. CASE d = c
    <3>1. mkd <=> (req[c].op = "MKD")'
      BY <1>1 DEF mkd
    <3>2. dir = walk'[c].dir /\ dir = walk[c].dir
      BY <1>1 DEF dir
    <3> QED
      BY <1>1, <1>3, <1>4, <1>7, <2>1, <3>1, <3>2 DEF NewUnused, Owns
  <2>2. CASE d # c
    <3>1. NewUnused(d)
      BY DEF TreeInv
    <3>2. Owns(d) /\ new[d] \notin raced => new[d] # new[c]
      BY <1>7, <2>2 DEF TreeInv, OneOwner
    <3> QED
      BY <1>1, <1>3, <1>4, <1>5, <1>8, <2>2, <3>1, <3>2 DEF NewUnused, Owns
  <2> QED
    BY <2>1, <2>2
<1>11. OnceListed'
  <2> SUFFICES ASSUME NEW id \in Nat \ raced
               PROVE  /\ Once(folders, id)' /\ Once(files, id)'
                      /\ Nowhere(folders, id)' \/ Nowhere(files, id)'
    BY <1>1 DEF OnceListed
  <2>1. /\ Once(folders, id) /\ Once(files, id)
        /\ Nowhere(folders, id) \/ Nowhere(files, id)
    BY DEF TreeInv, OnceListed
  <2>2. id = new[c] => Nowhere(folders, id) /\ Nowhere(files, id)
    BY <1>1, <1>7 DEF NewUnused
  <2>3. Once(folders', id) /\ Once(files', id)
    BY <1>1, <1>2, <2>1, <2>2, LpushOnce
  <2>4. Nowhere(folders, id)' \/ Nowhere(files, id)'
    <3>1. CASE id = new[c]
      BY <1>6, <2>2, <3>1 DEF Nowhere, Has
    <3>2. CASE id # new[c]
      BY <1>5, <2>1, <3>2
    <3> QED
      BY <3>1, <3>2
  <2> QED
    BY <2>3, <2>4 DEF Once
<1>12. DirsListed'
  BY <1>1, <1>3 DEF TreeInv, DirsListed
<1> QED
  BY <1>9, <1>10, <1>11, <1>12 DEF IdInv

\* What WriteInfo does to the hashes.
LEMMA WriteInfoParts ==
  ASSUME TreeInv, NEW c \in Clients, WriteInfo(c)
  PROVE  /\ pc[c] = "info" /\ pc'[c] = "reply"
         /\ new[c] \in Nat /\ new[c] < count /\ walk[c].dir \in Dirs /\ walk[c].dir < new[c]
         /\ UNCHANGED <<created, count, folders, files, cwd, req, walk, obj, new, raced, before>>
         /\ req[c].op = "MKD" =>
              /\ Dirs' = Dirs \cup {new[c]} /\ fileInfo' = fileInfo
              /\ dirInfo'[new[c]] = [parent |-> walk[c].dir, name |-> req[c].name]
              /\ \A d \in Dirs \ {new[c]} : dirInfo'[d] = dirInfo[d]
         /\ req[c].op # "MKD" =>
              /\ DOMAIN fileInfo' = DOMAIN fileInfo \cup {new[c]}
              /\ UNCHANGED dirInfo /\ Dirs' = Dirs
              /\ fileInfo'[new[c]] = req[c].name
              /\ \A f \in DOMAIN fileInfo \ {new[c]} : fileInfo'[f] = fileInfo[f]
<1>1. pc[c] = "info" /\ pc'[c] = "reply"
  BY TreeFacts DEF WriteInfo, Goto
<1>2. /\ new[c] \in Nat /\ new[c] < count /\ walk[c].dir \in Dirs /\ walk[c].dir < new[c]
      /\ new[c] # NoKey
  BY <1>1, TreeFacts DEF Held, WalkHeld, NewHeld, InDir, NoKey
<1> QED
  BY <1>1, <1>2 DEF WriteInfo, Hmset, Dirs, DirHash

LEMMA WriteInfoIds ==
  ASSUME TreeInv, NEW c \in Clients, WriteInfo(c)
  PROVE  IdInv'
<1>1. /\ pc[c] = "info" /\ pc'[c] = "reply"
      /\ new[c] \in Nat /\ new[c] < count /\ walk[c].dir \in Dirs /\ walk[c].dir < new[c]
      /\ UNCHANGED <<folders, files, walk, req, new, raced>>
      /\ Dirs' \subseteq Dirs \cup {new[c]}
      /\ DOMAIN fileInfo' \subseteq DOMAIN fileInfo \cup {new[c]}
  BY WriteInfoParts
<1>2. Owns(c) /\ ~Owns(c)' /\ NewUnused(c)
  BY <1>1 DEF Owns, TreeInv
<1>3. ASSUME NEW d \in Clients \ {c}
      PROVE  pc'[d] = pc[d] /\ Owns(d)' = Owns(d)
  BY Others DEF Step, Create
<1>4. OneOwner'
  BY <1>1, <1>2, <1>3 DEF TreeInv, OneOwner
<1>5. ASSUME NEW d \in Clients PROVE NewUnused(d)'
  <2>1. CASE d = c
    BY <1>2, <2>1 DEF NewUnused, Owns
  <2>2. CASE d # c
    <3>1. NewUnused(d)
      BY DEF TreeInv
    <3>2. Owns(d) /\ new[d] \notin raced => new[d] # new[c]
      BY <1>2, <2>2 DEF TreeInv, OneOwner
    <3> QED
      BY <1>1, <1>3, <2>2, <3>1, <3>2 DEF NewUnused, Owns, Nowhere, Has
  <2> QED
    BY <2>1, <2>2
<1>6. OnceListed'
  BY <1>1 DEF TreeInv, OnceListed, Once, Nowhere, Has
<1>7. DirsListed'
  <2> SUFFICES ASSUME NEW d \in Dirs', d \notin {Root} \cup raced
               PROVE  Has(folders, dirInfo'[d].parent, d)
    BY <1>1 DEF DirsListed, Has
  <2>1. CASE d = new[c] /\ req[c].op = "MKD"
    <3> DEFINE h == [parent |-> walk[c].dir, name |-> req[c].name]
    <3>0. dirInfo'[new[c]] = h
      BY <2>1, WriteInfoParts
    <3>1. dirInfo'[d].parent = walk[c].dir
      BY <2>1, <3>0
    <3>2. Has(folders, walk[c].dir, d)
      BY <1>1, <1>2, <2>1 DEF NewUnused
    <3> QED
      BY <3>1, <3>2
  <2>2. CASE d # new[c] \/ req[c].op # "MKD"
    <3>1. d \in Dirs /\ dirInfo'[d] = dirInfo[d]
      BY <1>1, <2>2, WriteInfoParts
    <3> QED
      BY <3>1 DEF TreeInv, DirsListed
  <2> QED
    BY <2>1, <2>2
<1> QED
  BY <1>4, <1>5, <1>6, <1>7 DEF IdInv

LEMMA InitTree == Init => TreeInv
<1> SUFFICES ASSUME Init PROVE TreeInv
  OBVIOUS
<1>1. DirInv
  BY InitDirs
<1>2. OneOwner /\ \A c \in Clients : NewUnused(c)
  BY DEF Init, SessionsOff, OneOwner, NewUnused, Owns
<1>3. OnceListed
  BY NoKeysType DEF Init, OnceListed, Once, Nowhere
<1>4. DirsListed
  BY DEF Init, DirsListed, Dirs
<1> QED
  BY <1>1, <1>2, <1>3, <1>4 DEF TreeInv, Init, SessionsOff

LEMMA NextTree == TreeInv /\ [DefinedNext]_vars => TreeInv'
<1> SUFFICES ASSUME TreeInv, [DefinedNext]_vars PROVE TreeInv'
  OBVIOUS
<1>1. DirInv'
  BY NextDirs DEF TreeInv
<1>2. CASE UNCHANGED vars
  BY <1>1, <1>2 DEF vars, store, session, TreeInv, OneOwner, NewUnused, OnceListed, DirsListed,
                    Owns, Once, Nowhere, Has, Dirs
<1>3. CASE DefinedNext
  <2>1. PICK c \in Clients : Connect(c) \/ Crash(c) \/ Request(c) \/ Step(c)
    BY <1>3 DEF DefinedNext
  <2>2. DOMAIN before' = Clients
    BY <2>1, OwnRequest DEF TreeInv, DirInv
  <2>3. IdInv'
    BY <2>1, StepSplit, OutsideIds, GetIdIds, IncrIdIds, LinkEntryIds, WriteInfoIds
  <2> QED
    BY <1>1, <2>2, <2>3 DEF TreeInv, IdInv
<1> QED
  BY <1>2, <1>3

LEMMA TreeAlways == DefinedSpec => []TreeInv
BY InitTree, NextTree, PTL DEF DefinedSpec

LEMMA OnceCard ==
  ASSUME NEW lists, ListsType(lists), NEW id, Once(lists, id)
  PROVE  /\ Cardinality(Occurrences(lists, id)) \in {0, 1}
         /\ Nowhere(lists, id) => Cardinality(Occurrences(lists, id)) = 0
<1> DEFINE S == Occurrences(lists, id)
<1>1. \A x \in S : /\ x = <<x[1], x[2]>> /\ x[1] \in DOMAIN lists
                   /\ x[2] \in DOMAIN lists[x[1]] /\ lists[x[1]][x[2]] = id
  <2> SUFFICES ASSUME NEW x \in S
               PROVE  /\ x = <<x[1], x[2]>> /\ x[1] \in DOMAIN lists
                      /\ x[2] \in DOMAIN lists[x[1]] /\ lists[x[1]][x[2]] = id
    OBVIOUS
  <2>1. /\ x \in (DOMAIN lists) \X (1..MaxIds)
        /\ x[2] <= Len(lists[x[1]]) /\ lists[x[1]][x[2]] = id
    BY DEF Occurrences
  <2>2. lists[x[1]] \in Seq(IdsOrNone)
    BY <2>1 DEF ListsType
  <2>3. DOMAIN lists[x[1]] = 1..Len(lists[x[1]]) /\ x[2] \in Int /\ 1 <= x[2]
    BY <2>1, <2>2
  <2> QED
    BY <2>1, <2>2, <2>3
<1> HIDE DEF S
<1>2. \A x, y \in S : x = y
  BY <1>1 DEF Once
<1>3. S = {} \/ \E x : S = {x}
  BY <1>2
<1>4. Cardinality({}) = 0 /\ \A x : Cardinality({x}) = 1
  BY FS_EmptySet, FS_Singleton
<1>5. Nowhere(lists, id) => S = {}
  BY <1>1 DEF Nowhere, Has
<1> QED
  BY <1>3, <1>4, <1>5 DEF S

\* However sessions interleave and wherever they die, an id that was handed out
\* once is listed at most once in the whole tree, and a folder is listed where
\* its hash says.
THEOREM EntriesConsistent ==
  ASSUME Garbage = {}
  PROVE  Spec => []EntryConsistent
<1>0. [Next]_vars => [DefinedNext]_vars
  BY DefinedOnly
<1>1. TreeInv => EntryConsistent
  <2> SUFFICES ASSUME TreeInv PROVE EntryConsistent
    OBVIOUS
  <2>1. ASSUME NEW id \in (0..count) \ raced
        PROVE  Cardinality(Occurrences(folders, id)) + Cardinality(Occurrences(files, id)) <= 1
    <3>1. /\ Once(folders, id) /\ Once(files, id)
          /\ Nowhere(folders, id) \/ Nowhere(files, id)
      BY TreeFacts DEF TreeInv, OnceListed
    <3> DEFINE m == Cardinality(Occurrences(folders, id))
               n == Cardinality(Occurrences(files, id))
    <3>2. m \in {0, 1} /\ n \in {0, 1} /\ (m = 0 \/ n = 0)
      BY <3>1, TreeFacts, OnceCard
    <3> HIDE DEF m, n
    <3>3. m + n <= 1
      BY <3>2
    <3> QED
      BY <3>3 DEF m, n
  <2>2. ASSUME NEW d \in Dirs \ ({Root} \cup raced)
        PROVE  \E i \in 1..Len(ListAt(folders, dirInfo[d].parent)) :
                 folders[dirInfo[d].parent][i] = d
    <3> DEFINE p == dirInfo[d].parent
    <3>1. Has(folders, p, d)
      BY DEF TreeInv, DirsListed
    <3> HIDE DEF p
    <3>2. ListAt(folders, p) = folders[p] /\ folders[p] \in Seq(IdsOrNone)
      BY <3>1, TreeFacts DEF Has, ListAt, ListsType
    <3>3. DOMAIN folders[p] = 1..Len(folders[p])
      BY <3>2
    <3> QED
      BY <3>1, <3>2, <3>3 DEF Has, p
  <2> QED
    BY <2>1, <2>2 DEF EntryConsistent, Dirs
<1> QED
  BY <1>1, TreeAlways, <1>0, PTL DEF Spec, DefinedSpec

-----------------------------------------------------------------------------
(* The entries of the tree.                                                 *)

ShownDir(e) ==
  \E d \in DOMAIN folders, id \in Dirs \ raced :
    /\ Has(folders, d, id)
    /\ e = [dir |-> d, kind |-> "dir", id |-> id, name |-> dirInfo[id].name]

ShownFile(e) ==
  \E d \in DOMAIN files, id \in DOMAIN fileInfo \ raced :
    /\ Has(files, d, id)
    /\ e = [dir |-> d, kind |-> "file", id |-> id, name |-> fileInfo[id]]

LEMMA ListedHas ==
  ASSUME NEW lists, ListsType(lists), count \in Nat, Below(lists, count)
  PROVE  \A d, id : id \in Nat => (<<d, id>> \in ListedIn(lists) <=> Has(lists, d, id))
<1>1. \A d, id : Has(lists, d, id) => id < count
  BY DEF Has, Below
<1> QED
  BY <1>1 DEF ListedIn, Has

LEMMA EntryIn == TreeInv => \A e : e \in Entries <=> ShownDir(e) \/ ShownFile(e)
<1> SUFFICES ASSUME TreeInv, NEW e
             PROVE  e \in Entries <=> ShownDir(e) \/ ShownFile(e)
  OBVIOUS
<1> DEFINE L == {x \in ListedIn(folders) : x[2] \in DOMAIN dirInfo \ raced}
           M == {x \in ListedIn(files) : x[2] \in DOMAIN fileInfo \ raced}
<1>1. \A x : x \in L <=> \E d \in DOMAIN folders, id \in Dirs \ raced :
                           x = <<d, id>> /\ Has(folders, d, id)
  <2>1. \A x \in L : x = <<x[1], x[2]>>
    BY DEF ListedIn
  <2>2. \A d, id : id \in Nat => (<<d, id>> \in ListedIn(folders) <=> Has(folders, d, id))
    BY TreeFacts, ListedHas
  <2>3. \A d, id : Has(folders, d, id) => d \in DOMAIN folders
    BY DEF Has
  <2> QED
    BY <2>1, <2>2, <2>3, TreeFacts DEF Dirs
<1>2. \A x : x \in M <=> \E d \in DOMAIN files, id \in DOMAIN fileInfo \ raced :
                           x = <<d, id>> /\ Has(files, d, id)
  <2>1. \A x \in M : x = <<x[1], x[2]>>
    BY DEF ListedIn
  <2>2. \A d, id : id \in Nat => (<<d, id>> \in ListedIn(files) <=> Has(files, d, id))
    BY TreeFacts, ListedHas
  <2>3. \A d, id : Has(files, d, id) => d \in DOMAIN files
    BY DEF Has
  <2> QED
    BY <2>1, <2>2, <2>3, TreeFacts
<1>3. e \in Entries <=>
        \/ \E x \in L : e = [dir |-> x[1], kind |-> "dir", id |-> x[2], name |-> dirInfo[x[2]].name]
        \/ \E x \in M : e = [dir |-> x[1], kind |-> "file", id |-> x[2], name |-> fileInfo[x[2]]]
  BY DEF Entries
<1> HIDE DEF L, M
<1>4. (\E x \in L : e = [dir |-> x[1], kind |-> "dir", id |-> x[2], name |-> dirInfo[x[2]].name])
        <=> ShownDir(e)
  <2>1. ASSUME NEW x \in L, e = [dir |-> x[1], kind |-> "dir", id |-> x[2], name |-> dirInfo[x[2]].name] PROVE ShownDir(e)
    <3>1. PICK d, id : x = <<d, id>> /\ d \in DOMAIN folders /\ id \in Dirs \ raced /\ Has(folders, d, id)
      BY <1>1
    <3>2. x[1] = d /\ x[2] = id
      BY <3>1
    <3> QED
      BY <2>1, <3>1, <3>2 DEF ShownDir
  <2>2. ASSUME ShownDir(e) PROVE \E x \in L : e = [dir |-> x[1], kind |-> "dir", id |-> x[2], name |-> dirInfo[x[2]].name]
    <3>1. PICK d \in DOMAIN folders, id \in Dirs \ raced : Has(folders, d, id) /\ e = [dir |-> d, kind |-> "dir", id |-> id, name |-> dirInfo[id].name]
      BY <2>2 DEF ShownDir
    <3>2. <<d, id>> \in L
      BY <1>1, <3>1
    <3> DEFINE x == <<d, id>>
    <3>3. x[1] = d /\ x[2] = id
      OBVIOUS
    <3> HIDE DEF x
    <3> QED
      BY <3>1, <3>2, <3>3 DEF x
  <2> QED
    BY <2>1, <2>2
<1>5. (\E x \in M : e = [dir |-> x[1], kind |-> "file", id |-> x[2], name |-> fileInfo[x[2]]])
        <=> ShownFile(e)
  <2>1. ASSUME NEW x \in M, e = [dir |-> x[1], kind |-> "file", id |-> x[2], name |-> fileInfo[x[2]]] PROVE ShownFile(e)
    <3>1. PICK d, id : x = <<d, id>> /\ d \in DOMAIN files /\ id \in DOMAIN fileInfo \ raced /\ Has(files, d, id)
      BY <1>2
    <3>2. x[1] = d /\ x[2] = id
      BY <3>1
    <3> QED
      BY <2>1, <3>1, <3>2 DEF ShownFile
  <2>2. ASSUME ShownFile(e) PROVE \E x \in M : e = [dir |-> x[1], kind |-> "file", id |-> x[2], name |-> fileInfo[x[2]]]
    <3>1. PICK d \in DOMAIN files, id \in DOMAIN fileInfo \ raced : Has(files, d, id) /\ e = [dir |-> d, kind |-> "file", id |-> id, name |-> fileInfo[id]]
      BY <2>2 DEF ShownFile
    <3>2. <<d, id>> \in M
      BY <1>2, <3>1
    <3> DEFINE x == <<d, id>>
    <3>3. x[1] = d /\ x[2] = id
      OBVIOUS
    <3> HIDE DEF x
    <3> QED
      BY <3>1, <3>2, <3>3 DEF x
  <2> QED
    BY <2>1, <2>2
<1> QED
  BY <1>3, <1>4, <1>5

LEMMA EntryInNext ==
  ASSUME TreeInv, [DefinedNext]_vars
  PROVE  \A e : e \in Entries' <=> ShownDir(e)' \/ ShownFile(e)'
<1>1. TreeInv'
  BY NextTree
<1>2. TreeInv' => (\A e : e \in Entries <=> ShownDir(e) \/ ShownFile(e))'
  BY EntryIn, PTL
<1> QED
  BY <1>1, <1>2

\* The entry the session is creating.
CreatedEntry(c) ==
  [dir |-> walk[c].dir, kind |-> IF req[c].op = "MKD" THEN "dir" ELSE "file",
   id |-> new[c], name |-> req[c].name]

\* The only step that shows something new is the last one of a creation.
Shows(c) ==
  /\ WriteInfo(c)
  /\ new[c] \notin raced
  /\ Entries' = Entries \cup {CreatedEntry(c)}
  /\ \A f \in Entries : f.id # new[c]

LEMMA EntryParts ==
  ASSUME TreeInv, NEW e \in Entries
  PROVE  /\ e.id \in Nat \ raced
         /\ e.kind = "dir" => /\ e.id \in Dirs /\ Has(folders, e.dir, e.id)
                              /\ e.name = dirInfo[e.id].name
         /\ e.kind # "dir" => /\ e.id \in DOMAIN fileInfo /\ Has(files, e.dir, e.id)
                              /\ e.name = fileInfo[e.id] /\ e.kind = "file"
<1>1. ShownDir(e) \/ ShownFile(e)
  BY EntryIn
<1>2. CASE ShownDir(e)
  <2>1. PICK d, id : /\ d \in DOMAIN folders /\ id \in Dirs \ raced /\ Has(folders, d, id)
                     /\ e = [dir |-> d, kind |-> "dir", id |-> id, name |-> dirInfo[id].name]
    BY <1>2 DEF ShownDir
  <2>2. e.dir = d /\ e.kind = "dir" /\ e.id = id /\ e.name = dirInfo[id].name
    BY <2>1
  <2> QED
    BY <2>1, <2>2, TreeFacts
<1>3. CASE ShownFile(e)
  <2>1. PICK d, id : /\ d \in DOMAIN files /\ id \in DOMAIN fileInfo \ raced /\ Has(files, d, id)
                     /\ e = [dir |-> d, kind |-> "file", id |-> id, name |-> fileInfo[id]]
    BY <1>3 DEF ShownFile
  <2>2. e.dir = d /\ e.kind = "file" /\ e.id = id /\ e.name = fileInfo[id]
    BY <2>1
  <2> QED
    BY <2>1, <2>2, TreeFacts
<1> QED
  BY <1>1, <1>2, <1>3

LEMMA WriteInfoEntries ==
  ASSUME TreeInv, [DefinedNext]_vars, NEW c \in Clients, WriteInfo(c)
  PROVE  Entries' = Entries \/ Shows(c)
<1> DEFINE n == new[c]
           E == CreatedEntry(c)
<1>1. /\ pc[c] = "info" /\ n \in Nat
      /\ UNCHANGED <<folders, files, raced>>
  BY WriteInfoParts
<1>2. CASE n \in raced
  <2>1. Dirs' \ raced' = Dirs \ raced /\ DOMAIN fileInfo' \ raced' = DOMAIN fileInfo \ raced
    BY <1>1, <1>2, WriteInfoParts
  <2>2. /\ \A id \in Dirs \ raced : dirInfo'[id] = dirInfo[id]
        /\ \A id \in DOMAIN fileInfo \ raced : fileInfo'[id] = fileInfo[id]
    BY <1>2, WriteInfoParts
  <2>3. \A e : (ShownDir(e)' <=> ShownDir(e)) /\ (ShownFile(e)' <=> ShownFile(e))
    BY <1>1, <2>1, <2>2 DEF ShownDir, ShownFile, Has
  <2> QED
    BY <2>3, EntryIn, EntryInNext
<1>3. CASE n \notin raced
  <2>1. /\ n \notin Dirs \cup DOMAIN fileInfo
        /\ IF req[c].op = "MKD" THEN Has(folders, walk[c].dir, n) ELSE Has(files, walk[c].dir, n)
        /\ Once(folders, n) /\ Once(files, n)
    BY <1>1, <1>3 DEF TreeInv, NewUnused, OnceListed, Owns
  <2>2. \A f \in Entries : f.id # n
    BY <2>1, EntryParts
  <2>3. \A e : e \in Entries' <=> e \in Entries \/ e = E
    <3>1. CASE req[c].op = "MKD"
      <4> DEFINE h == [parent |-> walk[c].dir, name |-> req[c].name]
      <4>1. /\ Dirs' = Dirs \cup {n} /\ fileInfo' = fileInfo /\ dirInfo'[n] = h
            /\ \A d \in Dirs : dirInfo'[d] = dirInfo[d]
        BY <2>1, <3>1, WriteInfoParts
      <4>2. dirInfo'[n].name = req[c].name
        BY <4>1
      <4> HIDE DEF h
      <4>3. \A d : Has(folders, d, n) => d = walk[c].dir
        BY <2>1, <3>1 DEF Has, Once
      <4>4. walk[c].dir \in DOMAIN folders
        BY <2>1, <3>1 DEF Has
      <4>5. E = [dir |-> walk[c].dir, kind |-> "dir", id |-> n, name |-> dirInfo'[n].name]
        BY <3>1, <4>2 DEF CreatedEntry
      <4> HIDE DEF E, n
      <4>6. \A e : ShownDir(e)' <=> ShownDir(e) \/ e = E
        <5> SUFFICES ASSUME NEW e PROVE ShownDir(e)' <=> ShownDir(e) \/ e = E
          OBVIOUS
        <5>1. ASSUME ShownDir(e)' PROVE ShownDir(e) \/ e = E
          <6>1. PICK d \in DOMAIN folders, id \in Dirs' \ raced :
                  /\ Has(folders, d, id)
                  /\ e = [dir |-> d, kind |-> "dir", id |-> id, name |-> dirInfo'[id].name]
            BY <1>1, <5>1 DEF ShownDir, Has
          <6>2. CASE id = n
            BY <4>3, <4>5, <6>1, <6>2
          <6>3. CASE id # n
            BY <4>1, <6>1, <6>3 DEF ShownDir
          <6> QED
            BY <6>2, <6>3
        <5>2. ASSUME ShownDir(e) PROVE ShownDir(e)'
          BY <1>1, <4>1, <5>2 DEF ShownDir, Has
        <5>3. ASSUME e = E PROVE ShownDir(e)'
          <6>1. Has(folders', walk[c].dir, n) /\ walk[c].dir \in DOMAIN folders' /\ n \in Dirs' \ raced'
            BY <1>1, <1>3, <2>1, <3>1, <4>1, <4>4
          <6> QED
            BY <4>5, <5>3, <6>1 DEF ShownDir, Has
        <5> QED
          BY <5>1, <5>2, <5>3
      <4>7. \A e : ShownFile(e)' <=> ShownFile(e)
        BY <1>1, <4>1 DEF ShownFile, Has
      <4> QED
        BY <4>6, <4>7, EntryIn, EntryInNext
    <3>2. CASE req[c].op # "MKD"
      <4>1. /\ DOMAIN fileInfo' = DOMAIN fileInfo \cup {n} /\ UNCHANGED dirInfo /\ Dirs' = Dirs
            /\ fileInfo'[n] = req[c].name
            /\ \A d \in DOMAIN fileInfo : fileInfo'[d] = fileInfo[d]
        BY <2>1, <3>2, WriteInfoParts
      <4>3. \A d : Has(files, d, n) => d = walk[c].dir
        BY <2>1, <3>2 DEF Has, Once
      <4>4. walk[c].dir \in DOMAIN files
        BY <2>1, <3>2 DEF Has
      <4>5. E = [dir |-> walk[c].dir, kind |-> "file", id |-> n, name |-> fileInfo'[n]]
        BY <3>2, <4>1 DEF CreatedEntry
      <4> HIDE DEF E, n
      <4>6. \A e : ShownFile(e)' <=> ShownFile(e) \/ e = E
        <5> SUFFICES ASSUME NEW e PROVE ShownFile(e)' <=> ShownFile(e) \/ e = E
          OBVIOUS
        <5>1. ASSUME ShownFile(e)' PROVE ShownFile(e) \/ e = E
          <6>1. PICK d \in DOMAIN files, id \in DOMAIN fileInfo' \ raced :
                  /\ Has(files, d, id)
                  /\ e = [dir |-> d, kind |-> "file", id |-> id, name |-> fileInfo'[id]]
            BY <1>1, <5>1 DEF ShownFile, Has
          <6>2. CASE id = n
            BY <4>3, <4>5, <6>1, <6>2
          <6>3. CASE id # n
            BY <4>1, <6>1, <6>3 DEF ShownFile
          <6> QED
            BY <6>2, <6>3
        <5>2. ASSUME ShownFile(e) PROVE ShownFile(e)'
          BY <1>1, <4>1, <5>2 DEF ShownFile, Has
        <5>3. ASSUME e = E PROVE ShownFile(e)'
          <6>1. Has(files', walk[c].dir, n) /\ walk[c].dir \in DOMAIN files' /\ n \in DOMAIN fileInfo' \ raced'
            BY <1>1, <1>3, <2>1, <3>2, <4>1, <4>4
          <6> QED
            BY <4>5, <5>3, <6>1 DEF ShownFile, Has
        <5> QED
          BY <5>1, <5>2, <5>3
      <4>7. \A e : ShownDir(e)' <=> ShownDir(e)
        BY <1>1, <4>1 DEF ShownDir, Has
      <4> QED
        BY <4>6, <4>7, EntryIn, EntryInNext
    <3> QED
      BY <3>1, <3>2
  <2>4. Entries' = Entries \cup {E}
    BY <2>3
  <2> QED
    BY <1>3, <2>2, <2>4 DEF Shows
<1> QED
  BY <1>2, <1>3

LEMMA EntriesStep ==
  ASSUME TreeInv, [DefinedNext]_vars
  PROVE  Entries' = Entries \/ \E c \in Clients : Shows(c)
<1>1. CASE UNCHANGED vars
  BY <1>1 DEF vars, store, session, Entries, ListedIn
<1>2. CASE DefinedNext
  <2>1. PICK c \in Clients : Connect(c) \/ Crash(c) \/ Request(c) \/ Step(c)
    BY <1>2 DEF DefinedNext
  <2>2. CASE Outside(c)
    <3>1. UNCHANGED <<store, raced>>
      BY <2>2, OutsideStep DEF TreeInv
    <3> QED
      BY <3>1 DEF store, Entries, ListedIn
  <2>3. CASE GetId(c)
    <3>1. UNCHANGED store /\ raced \subseteq raced' /\ raced' \subseteq raced \cup {count}
      BY <2>3 DEF GetId
    <3>2. DOMAIN dirInfo \ raced' = DOMAIN dirInfo \ raced /\ DOMAIN fileInfo \ raced' = DOMAIN fileInfo \ raced
      BY <3>1, CountUnused DEF Dirs
    <3> QED
      BY <3>1, <3>2 DEF store, Entries, ListedIn
  <2>4. CASE IncrId(c)
    <3>1. UNCHANGED <<folders, files, dirInfo, fileInfo, raced>>
      BY <2>4 DEF IncrId
    <3>2. \A e : (ShownDir(e)' <=> ShownDir(e)) /\ (ShownFile(e)' <=> ShownFile(e))
      BY <3>1 DEF ShownDir, ShownFile, Has, Dirs
    <3> QED
      BY <3>2, EntryIn, EntryInNext
  <2>5. CASE LinkEntry(c)
    <3>1. new[c] \notin (Dirs \cup DOMAIN fileInfo) \ raced
      BY <2>5, LinkEntryParts DEF TreeInv, NewUnused, Owns
    <3>2. /\ UNCHANGED <<dirInfo, fileInfo, raced>> /\ Dirs' = Dirs
          /\ \A x, j : j # new[c] => /\ Has(folders, x, j)' <=> Has(folders, x, j)
                                     /\ Has(files, x, j)' <=> Has(files, x, j)
      BY <2>5, LinkEntryParts
    <3>3. \A x, j : /\ Has(folders, x, j) => x \in DOMAIN folders
                    /\ Has(files, x, j) => x \in DOMAIN files
                    /\ Has(folders, x, j)' => x \in DOMAIN folders'
                    /\ Has(files, x, j)' => x \in DOMAIN files'
      BY DEF Has
    <3>4. \A e : (ShownDir(e)' <=> ShownDir(e)) /\ (ShownFile(e)' <=> ShownFile(e))
      BY <3>1, <3>2, <3>3 DEF ShownDir, ShownFile
    <3> QED
      BY <3>4, EntryIn, EntryInNext
  <2>6. CASE WriteInfo(c)
    BY <2>6, WriteInfoEntries
  <2> QED
    BY <2>1, <2>2, <2>3, <2>4, <2>5, <2>6, StepSplit
<1> QED
  BY <1>1, <1>2

\* An entry the tree shows is never lost or changed, however sessions interleave
\* and wherever they die.  DELE and RNTO do not change it either, since the paths
\* that could not be parsed name nothing; only DELE without a parameter, which is
\* left out here, may.
THEOREM TreeGrows ==
  ASSUME Garbage = {}
  PROVE  Spec => EntriesKept
<1>0. [Next]_vars => [DefinedNext]_vars
  BY DefinedOnly
<1>1. TreeInv /\ [DefinedNext]_vars => [Entries \subseteq Entries']_vars
  BY EntriesStep DEF Shows
<1> QED
  BY <1>1, TreeAlways, <1>0, PTL DEF Spec, DefinedSpec, EntriesKept

-----------------------------------------------------------------------------
(* The store of an id that was handed out once is written once.             *)

Grown ==
  /\ raced \subseteq raced' /\ Dirs \subseteq Dirs' /\ DOMAIN fileInfo \subseteq DOMAIN fileInfo'
  /\ \A d \in Dirs \ raced : dirInfo'[d] = dirInfo[d]
  /\ \A f \in DOMAIN fileInfo \ raced : fileInfo'[f] = fileInfo[f]

LEMMA Grows ==
  ASSUME TreeInv, [DefinedNext]_vars
  PROVE  Grown
<1>1. CASE UNCHANGED vars
  BY <1>1 DEF vars, store, session, Dirs, Grown
<1>2. CASE DefinedNext
  <2>1. PICK c \in Clients : Connect(c) \/ Crash(c) \/ Request(c) \/ Step(c)
    BY <1>2 DEF DefinedNext
  <2>2. CASE Outside(c)
    <3>1. UNCHANGED <<store, raced>>
      BY <2>2, OutsideStep DEF TreeInv
    <3> QED
      BY <3>1 DEF store, Dirs, Grown
  <2>3. CASE GetId(c) \/ IncrId(c)
    BY <2>3 DEF GetId, IncrId, store, Dirs, Grown
  <2>4. CASE LinkEntry(c)
    BY <2>4, LinkEntryParts DEF Grown, Dirs
  <2>5. CASE WriteInfo(c)
    <3>1. new[c] \notin raced => new[c] \notin Dirs \cup DOMAIN fileInfo
      BY <2>5, WriteInfoParts DEF TreeInv, NewUnused, Owns
    <3>2. UNCHANGED raced /\ Dirs \subseteq Dirs' /\ DOMAIN fileInfo \subseteq DOMAIN fileInfo'
      BY <2>5, WriteInfoParts
    <3>3. /\ \A d \in Dirs \ raced : dirInfo'[d] = dirInfo[d]
          /\ \A f \in DOMAIN fileInfo \ raced : fileInfo'[f] = fileInfo[f]
      BY <2>5, <3>1, WriteInfoParts, ZenonT(30)
    <3> QED
      BY <3>2, <3>3 DEF Grown
  <2> QED
    BY <2>1, <2>2, <2>3, <2>4, <2>5, StepSplit
<1> QED
  BY <1>1, <1>2

-----------------------------------------------------------------------------
(* The sessions implement one tree with atomic creation.                    *)

LEMMA InitEmpty == Init => Entries = {}
<1> SUFFICES ASSUME Init PROVE Entries = {}
  OBVIOUS
<1>1. \A e : ~ ShownDir(e) /\ ~ ShownFile(e)
  BY NoKeysType DEF Init, ShownDir, ShownFile
<1> QED
  BY <1>1, InitTree, EntryIn

\* A folder whose hash is written is an entry of the tree.
LEMMA DirShown ==
  ASSUME TreeInv, NEW d \in Dirs \ ({Root} \cup raced)
  PROVE  \E e \in Entries : e.kind = "dir" /\ e.id = d
<1> DEFINE p == dirInfo[d].parent
           e == [dir |-> p, kind |-> "dir", id |-> d, name |-> dirInfo[d].name]
<1>1. p \in DOMAIN folders /\ Has(folders, p, d)
  BY DEF TreeInv, DirsListed, Has
<1>2. e.kind = "dir" /\ e.id = d
  OBVIOUS
<1>3. ShownDir(e)
  BY <1>1 DEF ShownDir
<1> HIDE DEF e
<1> QED
  BY <1>2, <1>3, EntryIn

LEMMA ShowsCreates ==
  ASSUME TreeInv, NEW c \in Clients, Shows(c), raced = {}
  PROVE  Tree!Create
<1> DEFINE E == CreatedEntry(c)
<1>1. E.dir = walk[c].dir /\ E.id = new[c]
  BY DEF CreatedEntry
<1> HIDE DEF E
<1>2. E \in Entries' \ Entries /\ Entries' = Entries \cup {E}
  BY <1>1 DEF Shows, E
<1>3. walk[c].dir \in Dirs /\ walk[c].dir \in Nat /\ walk[c].dir < new[c] /\ new[c] \in Nat
  BY WriteInfoParts, TreeFacts DEF Shows
<1>4. Tree!IsDirectory(E.dir)
  BY <1>1, <1>3, DirShown DEF Tree!IsDirectory
<1>5. E.id # Root
  BY <1>1, <1>3 DEF Root
<1>6. \A f \in Entries : f.id # E.id
  BY <1>1 DEF Shows
<1> QED
  BY <1>2, <1>4, <1>5, <1>6 DEF Tree!Create

\* As long as no id is handed out twice the sessions implement the abstract
\* tree: what the last Redis command of a creation shows appears at once, in a
\* folder that exists, with an id of its own, and stays.  What a session does
\* with unwritten memory is no creation of that tree, and is left out.
THEOREM TreeImplemented ==
  ASSUME Garbage = {}
  PROVE  Spec => TreeSpec
<1>0. [Next]_vars => [DefinedNext]_vars
  BY DefinedOnly
<1>1. Init => Tree!Init
  BY InitEmpty DEF Tree!Init, Init, SessionsOff
<1>2. ASSUME TreeInv, [DefinedNext]_vars PROVE [Tree!Next]_(Tree!vars)
  <2>1. CASE raced' # {}
    <3>1. (raced' = {}) = FALSE
      BY <2>1
    <3> QED
      BY <3>1 DEF Tree!Next
  <2>2. CASE raced' = {}
    <3>1. raced = {}
      BY <1>2, <2>2, Grows DEF Grown
    <3>2. (raced' = {}) = (raced = {})
      BY <2>2, <3>1
    <3>3. CASE Entries' = Entries
      BY <3>2, <3>3 DEF Tree!vars
    <3>4. ASSUME NEW c \in Clients, Shows(c) PROVE Tree!Next
      BY <1>2, <3>1, <3>2, <3>4, ShowsCreates DEF Tree!Next
    <3> QED
      BY <1>2, <3>3, <3>4, EntriesStep
  <2> QED
    BY <2>1, <2>2
<1> QED
  BY <1>1, <1>2, TreeAlways, <1>0, PTL DEF Spec, DefinedSpec, TreeSpec, Tree!Spec

-----------------------------------------------------------------------------
(* The parent that a session caches.                                        *)

\* The directory that a path named comes with its parent.
ParentHeld(c) ==
  pc[c] = "act" /\ obj[c].isDir /\ obj[c].id \notin {Root} \cup raced =>
    obj[c].parentId = dirInfo[obj[c].id].parent

CwdFresh(c) ==
  pc[c] \notin {"off", "segv"} /\ cwd[c].id \notin {Root} \cup raced =>
    cwd[c].parentId = dirInfo[cwd[c].id].parent

FreshInv == TreeInv /\ \A c \in Clients : ParentHeld(c) /\ CwdFresh(c)

LEMMA FreshKept ==
  ASSUME FreshInv, Grown, NEW d \in Clients,
         pc'[d] = pc[d], cwd'[d] = cwd[d], obj'[d] = obj[d]
  PROVE  ParentHeld(d)' /\ CwdFresh(d)'
<1>1. Held(d) /\ ParentHeld(d) /\ CwdFresh(d)
  BY TreeFacts DEF FreshInv
<1>2. ParentHeld(d)'
  BY <1>1 DEF Grown, ParentHeld, Held, ObjHeld
<1>3. CwdFresh(d)'
  BY <1>1 DEF Grown, CwdFresh, Held, CwdHeld
<1> QED
  BY <1>2, <1>3

\* A step that leaves the current directory alone keeps its parent fresh.
LEMMA CwdKept ==
  ASSUME FreshInv, Grown, NEW c \in Clients, cwd'[c] = cwd[c],
         pc'[c] \in {"off", "segv"} \/ pc[c] \notin {"off", "segv"}
  PROVE  CwdFresh(c)'
<1>1. Held(c) /\ CwdFresh(c)
  BY TreeFacts DEF FreshInv
<1> QED
  BY <1>1 DEF Grown, CwdFresh, Held, CwdHeld

LEMMA FreshTypes ==
  ASSUME FreshInv
  PROVE  /\ pc \in [Clients -> Labels] /\ obj \in [Clients -> ObjType]
         /\ DOMAIN cwd = Clients
         /\ \A c \in Clients : pc[c] \in Searching => ~ obj[c].isDir
BY DEF FreshInv, TreeInv, DirInv, TypeIInv, TypeInv, TypeOK, SessionType, Parsed

LEMMA FailsFresh ==
  ASSUME FreshInv, NEW c \in Clients, pc[c] \in Searching, ParseFails(c)
  PROVE  ParentHeld(c)'
<1>1. obj[c] \in ObjType /\ ~ obj[c].isDir
  BY FreshTypes
<1>2. obj'[c] = [obj[c] EXCEPT !.rc = -1]
  BY FreshTypes DEF ParseFails, SetObj
<1>3. ~ obj'[c].isDir
  BY <1>1, <1>2 DEF ObjType
<1> QED
  BY <1>3 DEF ParentHeld

LEMMA EnterFresh ==
  ASSUME FreshInv, NEW c \in Clients, NEW d, Enter(c, d)
  PROVE  pc'[c] # "act"
BY FreshTypes DEF Enter, Goto, WalkLabel

LEMMA ParseFresh ==
  ASSUME FreshInv, Grown, NEW c \in Clients, ParsePath(c)
  PROVE  ParentHeld(c)'
<1> USE FreshTypes DEF Searching
<1>1. CASE ReadWalkParent(c)
  <2>1. ParseFails(c) \/ pc'[c] \in {"lsfiles", "segv"}
    BY <1>1 DEF ReadWalkParent, Segfault, Goto
  <2> QED
    BY <1>1, <2>1, FailsFresh DEF ParentHeld, ReadWalkParent
<1>2. CASE FindFiles(c) \/ ReadFileName(c) \/ FindFolders(c) \/ ReadFolderName(c)
  BY <1>2 DEF FindFiles, ReadFileName, FindFolders, ReadFolderName, ParentHeld, Goto
<1>3. CASE FoundFile(c)
  <2>1. CASE ParseFails(c)
    BY <1>3, <2>1, FailsFresh DEF FoundFile
  <2>2. CASE ~ParseFails(c)
    <3>1. obj'[c] = [obj[c] EXCEPT !.id = walk[c].hit, !.isFile = TRUE, !.parentId = walk[c].dir]
      BY <1>3, <2>2 DEF FoundFile, SetObj
    <3>2. obj[c] \in ObjType /\ ~ obj[c].isDir
      BY <1>3 DEF FoundFile
    <3>3. ~ obj'[c].isDir
      BY <3>1, <3>2 DEF ObjType
    <3> QED
      BY <3>3 DEF ParentHeld
  <2> QED
    BY <2>1, <2>2
<1>4. CASE FindDot(c) \/ FindDotDot(c) \/ FoundFolder(c)
  <2>1. pc'[c] # "act"
    BY <1>4, EnterFresh DEF FindDot, FindDotDot, FoundFolder, Segfault, Goto
  <2> QED
    BY <2>1 DEF ParentHeld
<1>5. CASE NothingFound(c)
  <2>1. CASE ParseFails(c)
    BY <1>5, <2>1, FailsFresh DEF NothingFound
  <2>2. CASE ~ParseFails(c)
    <3>1. obj'[c] = [obj[c] EXCEPT !.exists = FALSE, !.parentId = walk[c].dir]
      BY <1>5, <2>2 DEF NothingFound, SetObj
    <3>2. obj[c] \in ObjType /\ ~ obj[c].isDir
      BY <1>5 DEF NothingFound
    <3>3. ~ obj'[c].isDir
      BY <3>1, <3>2 DEF ObjType
    <3> QED
      BY <3>3 DEF ParentHeld
  <2> QED
    BY <2>1, <2>2
<1>6. CASE ReadDirParent(c)
  <2>1. CASE Segfault(c)
    BY <2>1 DEF Segfault, Goto, ParentHeld
  <2>2. CASE ~Segfault(c)
    <3>1. /\ obj'[c] = [obj[c] EXCEPT !.parentId = ParentRead(c)]
          /\ UNCHANGED store
      BY <1>6, <2>2 DEF ReadDirParent, SetObj
    <3>2. obj'[c].id = obj[c].id /\ obj'[c].parentId = dirInfo[obj[c].id].parent
      BY <3>1 DEF ObjType, ParentRead
    <3> QED
      BY <3>1, <3>2 DEF ParentHeld, store
  <2> QED
    BY <2>1, <2>2
<1> QED
  BY <1>1, <1>2, <1>3, <1>4, <1>5, <1>6 DEF ParsePath

\* The current directory stays, except in CDUP and CWD.
LEMMA FreshOwn ==
  ASSUME FreshInv, Grown, NEW c \in Clients,
         Connect(c) \/ Crash(c) \/ Request(c) \/ Step(c)
  PROVE  ParentHeld(c)' /\ CwdFresh(c)'
<1> USE FreshTypes
<1>1. CASE Connect(c)
  <2>1. pc'[c] = "exists" /\ cwd'[c] = RootCwd
    BY <1>1 DEF Connect, Goto
  <2> QED
    BY <2>1 DEF ParentHeld, CwdFresh, RootCwd
<1>2. CASE Crash(c) \/ Respond(c)
  BY <1>2, CwdKept DEF Crash, Respond, Goto, ParentHeld
<1>3. CASE Request(c)
  <2>1. CASE CreateRequest(c) \/ ListRequest(c) \/ PwdRequest(c)
    BY <2>1, CwdKept DEF CreateRequest, ListRequest, PwdRequest, Begin, Goto, ParentHeld
  <2>2. CASE PathRequest(c)
    <3>1. cwd' = cwd /\ pc[c] = "ready"
      BY <2>2 DEF PathRequest, Begin
    <3>2. pc'[c] = "act" => obj'[c].id = Root
      <4>1. PICK p \in Paths :
              IF p.comps = << >>
              THEN obj' = [obj EXCEPT ![c] = [InitObj EXCEPT
                             !.id = Root, !.parentId = NoRootParent, !.isDir = TRUE]]
              ELSE Goto(c, WalkLabel(p.comps))
        BY <2>2 DEF PathRequest, Begin
      <4> QED
        BY <4>1, RootHeld DEF WalkLabel, Goto, FreshInv, TreeInv
    <3> QED
      BY <3>1, <3>2, CwdKept DEF ParentHeld
  <2>3. CASE CdupRequest(c)
    <3>1. CASE Segfault(c)
      BY <2>3, <3>1, CwdKept DEF Segfault, Goto, ParentHeld
    <3>2. CASE ~Segfault(c)
      <4> DEFINE p == cwd[c].parentId
      <4>1. /\ cwd'[c] = [id |-> p, parentId |-> dirInfo[p].parent]
            /\ UNCHANGED <<dirInfo, pc>> /\ pc[c] = "ready"
        BY <2>3, <3>2 DEF CdupRequest, store
      <4>2. cwd'[c].id = p /\ cwd'[c].parentId = dirInfo[p].parent
        BY <4>1
      <4> QED
        BY <4>1, <4>2 DEF ParentHeld, CwdFresh
    <3> QED
      BY <3>1, <3>2
  <2> QED
    BY <1>3, <2>1, <2>2, <2>3 DEF Request
<1>4. CASE Boot(c)
  BY <1>4, CwdKept DEF Boot, BootExists, BootFlushall, BootMakeRoot, BootSetCount,
                       BootSetCreated, Goto, ParentHeld
<1>5. CASE Create(c)
  BY <1>5, CwdKept DEF Create, GetId, IncrId, LinkEntry, WriteInfo, Goto, ParentHeld
<1>6. CASE ParsePath(c)
  <2>1. cwd' = cwd /\ pc[c] \notin {"off", "segv"}
    BY <1>6 DEF ParsePath, ReadWalkParent, FindFiles, ReadFileName, FoundFile, FindDot,
                FindDotDot, FindFolders, ReadFolderName, FoundFolder, NothingFound,
                ReadDirParent, NoFile, Segfault
  <2> QED
    BY <1>6, <2>1, ParseFresh, CwdKept
<1>7. CASE Act(c)
  <2>1. CASE CwdAct(c)
    <3>1. pc[c] = "act" /\ pc'[c] = "reply" /\ UNCHANGED <<raced, dirInfo>>
      BY <2>1 DEF CwdAct, Reply, Goto, store
    <3>2. CASE IsDirectory(obj[c])
      <4>1. cwd'[c] = [id |-> obj[c].id, parentId |-> obj[c].parentId]
        BY <2>1, <3>2 DEF CwdAct
      <4>2. cwd'[c].id = obj[c].id /\ cwd'[c].parentId = obj[c].parentId
        BY <4>1
      <4> QED
        BY <3>1, <3>2, <4>2 DEF FreshInv, ParentHeld, CwdFresh, IsDirectory
    <3>3. CASE ~IsDirectory(obj[c])
      BY <2>1, <3>1, <3>3, CwdKept DEF CwdAct, ParentHeld
    <3> QED
      BY <3>2, <3>3
  <2>2. CASE QueryAct(c) \/ DeleteAct(c) \/ MvDone(c) \/ CreateAct(c)
    BY <2>2, CwdKept DEF QueryAct, DeleteAct, MvDone, CreateAct, Reply, Goto, ParentHeld
  <2>3. CASE MvFirst(c)
    <3>1. cwd' = cwd /\ pc[c] = "act"
      BY <2>3 DEF MvFirst
    <3>2. pc'[c] = "act" => obj'[c].id = Root
      BY <2>3 DEF MvFirst, WalkLabel, Goto, SetObj, InitObj
    <3> QED
      BY <3>1, <3>2, CwdKept DEF ParentHeld
  <2> QED
    BY <1>7, <2>1, <2>2, <2>3 DEF Act
<1>8. CASE List(c) \/ Pwd(c)
  BY <1>8, CwdKept DEF List, ListFolders, ListFolderName, ListFiles, ListFileName, ListDone,
                       Pwd, PwdName, PwdParent, Reply, Segfault, Goto, ParentHeld
<1> QED
  BY <1>1, <1>2, <1>3, <1>4, <1>5, <1>6, <1>7, <1>8 DEF Step

\* The parent a session keeps for its current directory is the one the database
\* has, so CDUP below the root goes where ".." would.
THEOREM CwdParentsFresh ==
  ASSUME Garbage = {}
  PROVE  Spec => []CwdParentFresh
<1>0. [Next]_vars => [DefinedNext]_vars
  BY DefinedOnly
<1>1. Init => FreshInv
  BY InitTree DEF Init, SessionsOff, FreshInv, ParentHeld, CwdFresh
<1>2. ASSUME FreshInv, [DefinedNext]_vars PROVE FreshInv'
  <2>1. TreeInv' /\ Grown
    BY <1>2, NextTree, Grows DEF FreshInv
  <2>2. CASE UNCHANGED vars
    BY <1>2, <2>1, <2>2, FreshKept DEF FreshInv, vars, session
  <2>3. CASE DefinedNext
    <3>1. PICK c \in Clients : Connect(c) \/ Crash(c) \/ Request(c) \/ Step(c)
      BY <2>3 DEF DefinedNext
    <3>2. ASSUME NEW d \in Clients \ {c} PROVE ParentHeld(d)' /\ CwdFresh(d)'
      <4>1. pc'[d] = pc[d] /\ cwd'[d] = cwd[d] /\ obj'[d] = obj[d]
        BY <1>2, <3>1, Others DEF FreshInv
      <4> QED
        BY <1>2, <2>1, <4>1, FreshKept
    <3>3. ParentHeld(c)' /\ CwdFresh(c)'
      BY <1>2, <2>1, <3>1, FreshOwn
    <3> QED
      BY <2>1, <3>2, <3>3 DEF FreshInv
  <2> QED
    BY <1>2, <2>2, <2>3
<1>3. FreshInv => CwdParentFresh
  BY DEF FreshInv, CwdFresh, CwdParentFresh
<1> QED
  BY <1>1, <1>2, <1>3, <1>0, PTL DEF Spec

-----------------------------------------------------------------------------
(* Lists and lookups see at least what was there when their command began.  *)

InSeq(s, x) == \E i \in DOMAIN s : s[i] = x

LEMMA InTail ==
  ASSUME NEW S, NEW s \in Seq(S), NEW x, InSeq(s, x)
  PROVE  s # << >> /\ (x = Head(s) \/ InSeq(Tail(s), x))
<1>1. PICK i \in 1..Len(s) : s[i] = x
  BY DEF InSeq
<1>2. s # << >>
  BY <1>1
<1>3. CASE i # 1
  <2>1. /\ Tail(s) \in Seq(S) /\ Len(Tail(s)) = Len(s) - 1
        /\ \A k \in 1..Len(Tail(s)) : Tail(s)[k] = s[k + 1]
    BY <1>2, HeadTailProperties
  <2> HIDE DEF InSeq
  <2>2. i \in Int /\ Len(s) \in Int
    OBVIOUS
  <2>3. i - 1 \in 1..Len(Tail(s)) /\ (i - 1) + 1 = i
    BY <1>3, <2>1, <2>2
  <2> DEFINE t == Tail(s)
             k == i - 1
  <2>4. t[k] = x
    <3>1. \A m \in 1..Len(t) : t[m] = s[m + 1]
      BY <2>1
    <3>2. k \in 1..Len(t) /\ k + 1 = i
      BY <2>3
    <3> HIDE DEF t, k
    <3> QED
      BY <1>1, <3>1, <3>2
  <2>5. DOMAIN Tail(s) = 1..Len(Tail(s))
    BY <2>1
  <2> QED
    BY <1>2, <2>3, <2>4, <2>5 DEF InSeq
<1> QED
  BY <1>1, <1>2, <1>3

\* The entries a command found when it began are still there.
BeforeKept(c) == \A e \in before[c] : e.id \notin raced => e \in Entries

\* The entries of kind k that the command should find in the directory.
Due(c, k) == {e \in before[c] : e.kind = k /\ e.dir = walk[c].dir /\ e.id \notin raced}

\* The command of a session that is in the middle of one.
OpPhase(c) ==
  /\ pc[c] \in {"lsdirs", "lsdirnames", "lsfilenames"} => req[c].op = "LIST"
  /\ pc[c] \in {"pwdname", "pwdparent"} => req[c].op = "PWD"
  /\ pc[c] \in {"getid", "incr", "link", "info"} => req[c].op \in CreateOps

\* What a listing has not shown yet it still has to look at.
ListPhase(c) ==
  /\ pc[c] = "lsdirnames" =>
       \A e \in Due(c, "dir") : InSeq(walk[c].todo, e.id) \/ <<"dir", e.name>> \in walk[c].names
  /\ pc[c] = "lsfilenames" \/ (pc[c] = "reply" /\ req[c].op = "LIST") =>
       \A e \in Due(c, "dir") : <<"dir", e.name>> \in walk[c].names
  /\ pc[c] = "lsfilenames" =>
       \A e \in Due(c, "file") : InSeq(walk[c].todo, e.id) \/ <<"file", e.name>> \in walk[c].names
  /\ pc[c] = "reply" /\ req[c].op = "LIST" =>
       \A e \in Due(c, "file") : <<"file", e.name>> \in walk[c].names

\* The same for the lookup of one component.
Wanted(c, k) == {e \in Due(c, k) : Matches(Component(c), e.name)}

WalkPhase(c) ==
  /\ pc[c] \in Searching \cup {"dirparent"} => obj[c].exists
  /\ pc[c] = "files" =>
       \A e \in Wanted(c, "file") : InSeq(walk[c].todo, e.id) \/ walk[c].hit # NotFound
  /\ pc[c] = "dirs" \/ (pc[c] = "act" /\ ~ obj[c].exists) => Wanted(c, "file") = {}
  /\ pc[c] = "dirs" =>
       \A e \in Wanted(c, "dir") : InSeq(walk[c].todo, e.id) \/ walk[c].hit # NotFound
  /\ pc[c] = "act" /\ ~ obj[c].exists => Wanted(c, "dir") = {}

SeenInv ==
  /\ TreeInv
  /\ \A c \in Clients : BeforeKept(c) /\ OpPhase(c) /\ ListPhase(c) /\ WalkPhase(c)

LEMMA SeenFacts ==
  ASSUME SeenInv, NEW c \in Clients
  PROVE  /\ TypeInv /\ TreeInv /\ BeforeKept(c) /\ OpPhase(c) /\ ListPhase(c) /\ WalkPhase(c)
         /\ pc \in [Clients -> Labels] /\ obj \in [Clients -> ObjType]
         /\ walk \in [Clients -> WalkType] /\ req \in [Clients -> ReqType]
         /\ DOMAIN before = Clients /\ DOMAIN req = Clients
         /\ walk[c] \in WalkType /\ walk[c].todo \in Seq(IdsOrNone)
BY Facts DEF SeenInv, TreeInv, DirInv, TypeIInv, TypeInv, TypeOK, SessionType

\* A session that does nothing.
LEMMA SeenKept ==
  ASSUME SeenInv, Grown, Entries \subseteq Entries', NEW d \in Clients,
         pc'[d] = pc[d], req'[d] = req[d], walk'[d] = walk[d], obj'[d] = obj[d],
         before'[d] = before[d]
  PROVE  BeforeKept(d)' /\ OpPhase(d)' /\ ListPhase(d)' /\ WalkPhase(d)'
<1> USE SeenFacts
<1>1. BeforeKept(d)' /\ OpPhase(d)'
  BY DEF Grown, BeforeKept, OpPhase
<1>2. \A k : Due(d, k)' \subseteq Due(d, k)
  BY DEF Grown, Due
<1>3. ListPhase(d)'
  BY <1>2 DEF ListPhase
<1>4. Component(d)' = Component(d)
  BY DEF Component
<1>5. \A k : Wanted(d, k)' \subseteq Wanted(d, k)
  BY <1>2, <1>4 DEF Wanted
<1>6. WalkPhase(d)'
  BY <1>5 DEF WalkPhase
<1> QED
  BY <1>1, <1>3, <1>6

\* The entries are noted when a command begins and dropped when it ends.
LEMMA BeforeOwn ==
  ASSUME SeenInv, NEW c \in Clients, Connect(c) \/ Crash(c) \/ Request(c) \/ Step(c)
  PROVE  \/ before'[c] = before[c] \/ before'[c] = {}
         \/ before'[c] = Entries
<1> USE SeenFacts
<1>1. CASE Connect(c)
  BY <1>1 DEF Connect
<1>2. CASE Crash(c) \/ Respond(c)
  BY <1>2 DEF Crash, Respond, Idle
<1>3. CASE Request(c)
  <2>1. CASE CreateRequest(c) \/ ListRequest(c) \/ PwdRequest(c)
    BY <2>1 DEF CreateRequest, ListRequest, PwdRequest, Begin
  <2>2. CASE PathRequest(c)
    BY <2>2 DEF PathRequest, Begin
  <2>3. CASE CdupRequest(c)
    BY <2>3 DEF CdupRequest, Segfault, Idle
  <2> QED
    BY <1>3, <2>1, <2>2, <2>3 DEF Request
<1>4. CASE Boot(c)
  BY <1>4 DEF Boot, BootExists, BootFlushall, BootMakeRoot, BootSetCount, BootSetCreated
<1>5. CASE Create(c)
  BY <1>5 DEF Create, GetId, IncrId, LinkEntry, WriteInfo
<1>6. CASE ParsePath(c)
  BY <1>6 DEF ParsePath, ReadWalkParent, FindFiles, ReadFileName, FoundFile, FindDot,
              FindDotDot, FindFolders, ReadFolderName, FoundFolder, NothingFound,
              ReadDirParent, Segfault, Idle
<1>7. CASE Act(c)
  BY <1>7 DEF Act, CwdAct, QueryAct, DeleteAct, MvFirst, MvDone, CreateAct
<1>8. CASE List(c) \/ Pwd(c)
  BY <1>8 DEF List, ListFolders, ListFolderName, ListFiles, ListFileName, ListDone,
              Pwd, PwdName, PwdParent, Segfault, Idle
<1> QED
  BY <1>1, <1>2, <1>3, <1>4, <1>5, <1>6, <1>7, <1>8 DEF Step

\* The command that a session begins.
LEMMA RequestOp ==
  /\ \A op, n : [NoReq EXCEPT !.op = op, !.name = n].op = op
  /\ \A op : [NoReq EXCEPT !.op = op].op = op
  /\ \A op, p, q : [NoReq EXCEPT !.op = op, !.path = p, !.path2 = q].op = op
BY DEF NoReq

LEMMA RequestPhase ==
  ASSUME SeenInv, NEW c \in Clients, Request(c)
  PROVE  /\ OpPhase(c)' /\ pc'[c] \notin {"lsdirnames", "lsfilenames", "files", "dirs"}
         /\ pc'[c] = "reply" => req'[c].op # "LIST"
         /\ pc'[c] \in {"lookparent", "lsfiles", "dirparent", "act"} => obj'[c].exists
<1> USE SeenFacts
<1>1. CASE CreateRequest(c)
  <2>1. PICK op \in {"MKD", "STOR"}, n \in NewNames :
          req' = [req EXCEPT ![c] = [NoReq EXCEPT !.op = op, !.name = n]]
    BY <1>1 DEF CreateRequest, Begin
  <2>2. req'[c].op = op
    BY <2>1, RequestOp
  <2>3. pc'[c] = "getid"
    BY <1>1 DEF CreateRequest, Begin, Goto
  <2> QED
    BY <2>2, <2>3 DEF OpPhase, CreateOps
<1>2. CASE ListRequest(c)
  <2>1. req'[c].op = "LIST" /\ pc'[c] = "lsdirs"
    BY <1>2, RequestOp DEF ListRequest, Begin, Goto
  <2> QED
    BY <2>1 DEF OpPhase
<1>3. CASE PwdRequest(c)
  <2>1. req'[c].op = "PWD" /\ pc'[c] \in {"reply", "pwdname"}
    BY <1>3, RequestOp DEF PwdRequest, Begin, Goto
  <2> QED
    BY <2>1 DEF OpPhase
<1>4. CASE PathRequest(c)
  <2>1. PICK p \in Paths :
          IF p.comps = << >>
          THEN /\ obj' = [obj EXCEPT ![c] = [InitObj EXCEPT
                            !.id = Root, !.parentId = NoRootParent, !.isDir = TRUE]]
               /\ Goto(c, "act")
          ELSE obj' = [obj EXCEPT ![c] = InitObj] /\ Goto(c, WalkLabel(p.comps))
    BY <1>4 DEF PathRequest, Begin
  <2>2. obj'[c].exists
    BY <2>1, RootObj, InitialLocals
  <2>3. pc'[c] \in {"act", "lookparent", "lsfiles"}
    BY <2>1 DEF WalkLabel, Goto
  <2> QED
    BY <2>2, <2>3 DEF OpPhase
<1>5. CASE CdupRequest(c)
  <2>1. pc'[c] \in {"ready", "segv"}
    BY <1>5 DEF CdupRequest, Segfault, Goto
  <2> QED
    BY <2>1 DEF OpPhase
<1> QED
  BY <1>1, <1>2, <1>3, <1>4, <1>5 DEF Request

LEMMA ActPhase ==
  ASSUME SeenInv, NEW c \in Clients, Act(c)
  PROVE  /\ OpPhase(c)' /\ pc'[c] \notin {"lsdirnames", "lsfilenames", "files", "dirs"}
         /\ pc'[c] = "reply" => req'[c].op # "LIST"
         /\ pc'[c] \in {"lookparent", "lsfiles", "dirparent", "act"} => obj'[c].exists
<1> USE SeenFacts
<1>1. CASE CwdAct(c) \/ QueryAct(c) \/ DeleteAct(c) \/ MvDone(c)
  <2>1. pc'[c] = "reply" /\ req' = req /\ req[c].op \in PathOps
    BY <1>1 DEF CwdAct, QueryAct, DeleteAct, MvDone, Reply, Goto, PathOps
  <2> QED
    BY <2>1 DEF OpPhase, PathOps
<1>2. CASE MvFirst(c)
  <2>1. IF req[c].path2.comps = << >>
        THEN /\ obj' = [obj EXCEPT ![c] = [InitObj EXCEPT
                          !.id = Root, !.parentId = NoRootParent, !.isDir = TRUE]]
             /\ Goto(c, "act")
        ELSE obj' = [obj EXCEPT ![c] = InitObj] /\ Goto(c, WalkLabel(req[c].path2.comps))
    BY <1>2 DEF MvFirst, SetObj
  <2>2. obj'[c].exists
    BY <2>1, RootObj, InitialLocals
  <2>3. pc'[c] \in {"act", "lookparent", "lsfiles"}
    BY <2>1 DEF WalkLabel, Goto
  <2> QED
    BY <2>2, <2>3 DEF OpPhase
<1>3. CASE CreateAct(c)
  <2>1. req[c].op = "CREATE" /\ req'[c].op = "CREATE"
    BY <1>3 DEF CreateAct, ReqType
  <2>2. pc'[c] \in {"getid", "reply"}
    BY <1>3 DEF CreateAct, Reply, Goto
  <2> QED
    BY <2>1, <2>2 DEF OpPhase, CreateOps
<1> QED
  BY <1>1, <1>2, <1>3 DEF Act

\* Steps that neither list nor walk a path.
LEMMA OtherPhase ==
  ASSUME SeenInv, NEW c \in Clients,
         Connect(c) \/ Crash(c) \/ Respond(c) \/ Boot(c) \/ Create(c) \/ Pwd(c)
  PROVE  /\ OpPhase(c)' /\ pc'[c] \notin {"lsdirnames", "lsfilenames", "files", "dirs"}
         /\ pc'[c] = "reply" => req'[c].op # "LIST"
         /\ pc'[c] \notin {"lookparent", "lsfiles", "dirparent", "act"}
<1> USE SeenFacts DEF Goto
<1>1. CASE Connect(c)
  BY <1>1 DEF Connect, OpPhase
<1>2. CASE Crash(c) \/ Respond(c)
  BY <1>2 DEF Crash, Respond, OpPhase
<1>3. CASE Boot(c)
  BY <1>3 DEF Boot, BootExists, BootFlushall, BootMakeRoot, BootSetCount, BootSetCreated, OpPhase
<1>4. CASE Create(c)
  <2>1. /\ pc[c] \in {"getid", "incr", "link", "info"} /\ req' = req
        /\ pc'[c] \in {"incr", "link", "info", "reply"}
    BY <1>4 DEF Create, GetId, IncrId, LinkEntry, WriteInfo
  <2> QED
    BY <2>1 DEF OpPhase, CreateOps
<1>5. CASE Pwd(c)
  <2>1. CASE Segfault(c)
    BY <2>1 DEF Segfault, OpPhase
  <2>2. CASE ~Segfault(c)
    <3>1. /\ pc[c] \in {"pwdname", "pwdparent"} /\ req' = req
          /\ pc'[c] \in {"pwdname", "pwdparent", "reply"}
      BY <1>5, <2>2 DEF Pwd, PwdName, PwdParent, Reply
    <3> QED
      BY <3>1 DEF OpPhase
  <2> QED
    BY <2>1, <2>2
<1> QED
  BY <1>1, <1>2, <1>3, <1>4, <1>5

\* The fields of a walk that is one entry further.
LEMMA WalkFields ==
  ASSUME NEW w \in WalkType, NEW t, NEW h, NEW ns
  PROVE  /\ [w EXCEPT !.todo = t].todo = t /\ [w EXCEPT !.todo = t].dir = w.dir
         /\ [w EXCEPT !.todo = t].names = w.names /\ [w EXCEPT !.todo = t].hit = w.hit
         /\ [w EXCEPT !.todo = t].comps = w.comps
         /\ [w EXCEPT !.todo = t, !.names = ns].todo = t
         /\ [w EXCEPT !.todo = t, !.names = ns].names = ns
         /\ [w EXCEPT !.todo = t, !.names = ns].dir = w.dir
         /\ [w EXCEPT !.todo = t, !.hit = h].todo = t
         /\ [w EXCEPT !.todo = t, !.hit = h].hit = h
         /\ [w EXCEPT !.todo = t, !.hit = h].dir = w.dir
         /\ [w EXCEPT !.todo = t, !.hit = h].comps = w.comps
BY DEF WalkType

\* What is due is in the store.
LEMMA DueParts ==
  ASSUME SeenInv, NEW c \in Clients
  PROVE  /\ \A e \in Due(c, "dir") : /\ e.id \in Dirs /\ e.name = dirInfo[e.id].name
                                     /\ InSeq(ListAt(folders, walk[c].dir), e.id)
         /\ \A e \in Due(c, "file") : /\ e.id \in DOMAIN fileInfo /\ e.name = fileInfo[e.id]
                                      /\ InSeq(ListAt(files, walk[c].dir), e.id)
         /\ \A e \in before[c] : e.dir = walk[c].dir /\ e.id \notin raced =>
              e \in Due(c, "dir") \/ e \in Due(c, "file")
<1> USE SeenFacts
<1>1. \A k : \A e \in Due(c, k) : e \in Entries /\ e.kind = k /\ e.dir = walk[c].dir
  BY DEF Due, BeforeKept
<1>2. \A d, id : /\ Has(folders, d, id) => InSeq(ListAt(folders, d), id)
                 /\ Has(files, d, id) => InSeq(ListAt(files, d), id)
  BY DEF Has, InSeq, ListAt
<1>3. \A e \in before[c] : e.id \notin raced => e.kind = "dir" \/ e.kind = "file"
  BY EntryParts DEF BeforeKept
<1>4. \A e \in Due(c, "dir") : /\ e.id \in Dirs /\ e.name = dirInfo[e.id].name
                               /\ InSeq(ListAt(folders, walk[c].dir), e.id)
  BY <1>1, <1>2, EntryParts
<1>5. \A e \in Due(c, "file") : /\ e.id \in DOMAIN fileInfo /\ e.name = fileInfo[e.id]
                                /\ InSeq(ListAt(files, walk[c].dir), e.id)
  BY <1>1, <1>2, EntryParts
<1> QED
  BY <1>3, <1>4, <1>5 DEF Due

\* Nothing is left to look at.
LEMMA NoneLeft == \A x : ~ InSeq(<< >>, x)
BY DEF InSeq

LEMMA ListSeen ==
  ASSUME SeenInv, NEW c \in Clients, List(c), UNCHANGED <<store, raced>>
  PROVE  OpPhase(c)' /\ ListPhase(c)' /\ WalkPhase(c)'
<1> DEFINE w == walk[c]
<1>1. /\ UNCHANGED <<req, obj, before>> /\ pc[c] \in {"lsdirs", "lsdirnames", "lsfilenames"}
      /\ pc'[c] \in {"lsdirnames", "lsfilenames", "reply"} /\ req[c].op = "LIST"
  BY SeenFacts DEF List, ListFolders, ListFolderName, ListFiles, ListFileName, ListDone, Goto,
                   Reply, OpPhase
<1>2. OpPhase(c)' /\ WalkPhase(c)'
  BY <1>1 DEF OpPhase, WalkPhase, Searching
<1>3. w \in WalkType /\ DOMAIN walk = Clients /\ pc \in [Clients -> Labels] /\ ListPhase(c)
      /\ w.todo \in Seq(IdsOrNone)
  BY SeenFacts
<1>4. ASSUME walk'[c].dir = w.dir PROVE \A k : Due(c, k)' = Due(c, k)
  BY <1>1, <1>4 DEF Due
<1>5. CASE ListFolders(c)
  <2>1. walk'[c] = [w EXCEPT !.todo = ListAt(folders, w.dir)] /\ pc'[c] = "lsdirnames"
    BY <1>3, <1>5 DEF ListFolders, SetWalk, Goto
  <2>2. walk'[c].dir = w.dir /\ walk'[c].todo = ListAt(folders, w.dir)
    BY <1>3, <2>1, WalkFields
  <2>3. ListPhase(c)'
    BY <1>4, <2>1, <2>2, DueParts DEF ListPhase
  <2> QED
    BY <1>2, <2>3
<1>6. CASE ListFolderName(c)
  <2> DEFINE id == Head(w.todo)
             ns == w.names \cup {<<"dir", dirInfo[i].name>> : i \in {id} \cap DOMAIN dirInfo}
  <2>1. /\ walk'[c] = [w EXCEPT !.todo = Tail(w.todo), !.names = ns]
        /\ pc'[c] = "lsdirnames" /\ pc[c] = "lsdirnames"
    BY <1>3, <1>6 DEF ListFolderName, SetWalk, Rest
  <2>2. walk'[c].dir = w.dir /\ walk'[c].todo = Tail(w.todo) /\ walk'[c].names = ns
    BY <1>3, <2>1, WalkFields
  <2>3. ASSUME NEW e \in Due(c, "dir")
        PROVE  InSeq(Tail(w.todo), e.id) \/ <<"dir", e.name>> \in ns
    <3>1. e.id \in Dirs /\ e.name = dirInfo[e.id].name
      BY DueParts
    <3>2. InSeq(w.todo, e.id) \/ <<"dir", e.name>> \in w.names
      BY <1>3, <2>1 DEF ListPhase
    <3>3. CASE e.id = id
      BY <3>1, <3>3 DEF Dirs
    <3>4. CASE e.id # id
      BY <1>3, <3>2, <3>4, InTail
    <3> QED
      BY <3>3, <3>4
  <2> HIDE DEF ns
  <2>4. ListPhase(c)'
    BY <1>4, <2>1, <2>2, <2>3 DEF ListPhase
  <2> QED
    BY <1>2, <2>4
<1>7. CASE ListFiles(c)
  <2>1. /\ walk'[c] = [w EXCEPT !.todo = ListAt(files, w.dir)]
        /\ pc'[c] = "lsfilenames" /\ pc[c] = "lsdirnames" /\ w.todo = << >>
    BY <1>3, <1>7 DEF ListFiles, SetWalk, Goto
  <2>2. walk'[c].dir = w.dir /\ walk'[c].todo = ListAt(files, w.dir) /\ walk'[c].names = w.names
    BY <1>3, <2>1, WalkFields
  <2>3. \A e \in Due(c, "dir") : <<"dir", e.name>> \in w.names
    BY <1>3, <2>1, NoneLeft DEF ListPhase
  <2>4. ListPhase(c)'
    BY <1>4, <2>1, <2>2, <2>3, DueParts DEF ListPhase
  <2> QED
    BY <1>2, <2>4
<1>8. CASE ListFileName(c)
  <2> DEFINE id == Head(w.todo)
             ns == w.names \cup {<<"file", fileInfo[i]>> : i \in {id} \cap DOMAIN fileInfo}
  <2>1. /\ walk'[c] = [w EXCEPT !.todo = Tail(w.todo), !.names = ns]
        /\ pc'[c] = "lsfilenames" /\ pc[c] = "lsfilenames"
    BY <1>3, <1>8 DEF ListFileName, SetWalk, Rest
  <2>2. walk'[c].dir = w.dir /\ walk'[c].todo = Tail(w.todo) /\ walk'[c].names = ns
    BY <1>3, <2>1, WalkFields
  <2>3. ASSUME NEW e \in Due(c, "file")
        PROVE  InSeq(Tail(w.todo), e.id) \/ <<"file", e.name>> \in ns
    <3>1. e.id \in DOMAIN fileInfo /\ e.name = fileInfo[e.id]
      BY DueParts
    <3>2. InSeq(w.todo, e.id) \/ <<"file", e.name>> \in w.names
      BY <1>3, <2>1 DEF ListPhase
    <3>3. CASE e.id = id
      BY <3>1, <3>3
    <3>4. CASE e.id # id
      BY <1>3, <3>2, <3>4, InTail
    <3> QED
      BY <3>3, <3>4
  <2>4. \A e \in Due(c, "dir") : <<"dir", e.name>> \in ns
    BY <1>3, <2>1 DEF ListPhase
  <2> HIDE DEF ns
  <2>5. ListPhase(c)'
    BY <1>4, <2>1, <2>2, <2>3, <2>4 DEF ListPhase
  <2> QED
    BY <1>2, <2>5
<1>9. CASE ListDone(c)
  <2>1. walk' = walk /\ pc'[c] = "reply" /\ pc[c] = "lsfilenames" /\ w.todo = << >>
    BY <1>3, <1>9 DEF ListDone, Reply, Goto
  <2>2. /\ \A e \in Due(c, "dir") : <<"dir", e.name>> \in w.names
        /\ \A e \in Due(c, "file") : <<"file", e.name>> \in w.names
    BY <1>3, <2>1, NoneLeft DEF ListPhase
  <2>3. ListPhase(c)'
    BY <1>4, <2>1, <2>2 DEF ListPhase
  <2> QED
    BY <1>2, <2>3
<1> QED
  BY <1>5, <1>6, <1>7, <1>8, <1>9 DEF List

\* A step of a walk that scans no list keeps the parser state or ends the walk.
LEMMA EnterSeen ==
  ASSUME SeenInv, NEW c \in Clients, NEW d, Enter(c, d), pc[c] \in Searching
  PROVE  pc'[c] \in {"dirparent", "lookparent", "lsfiles"} /\ obj'[c].exists
<1>1. obj[c].exists /\ obj[c] \in ObjType /\ DOMAIN obj = Clients /\ DOMAIN pc = Clients
  BY SeenFacts DEF WalkPhase
<1>2. CASE IsLast(c)
  <2>1. obj'[c] = [obj[c] EXCEPT !.id = d, !.isDir = TRUE] /\ pc'[c] = "dirparent"
    BY <1>1, <1>2 DEF Enter, SetObj, Goto
  <2> QED
    BY <1>1, <2>1 DEF ObjType
<1>3. CASE ~IsLast(c)
  BY <1>1, <1>3 DEF Enter, Goto, WalkLabel
<1> QED
  BY <1>2, <1>3

LEMMA FailsSeen ==
  ASSUME SeenInv, NEW c \in Clients, ParseFails(c), pc[c] \in Searching
  PROVE  pc'[c] = "act" /\ obj'[c].exists
<1>1. obj[c].exists /\ obj[c] \in ObjType /\ DOMAIN obj = Clients /\ DOMAIN pc = Clients
  BY SeenFacts DEF WalkPhase
<1>2. pc'[c] = "act" /\ obj'[c] = [obj[c] EXCEPT !.rc = -1]
  BY <1>1 DEF ParseFails, SetObj, Goto
<1> QED
  BY <1>1, <1>2 DEF ObjType

\* After a step that looks at no list the walk promises nothing new.
LEMMA WalkPlain ==
  ASSUME NEW c \in Clients,
         pc'[c] \in {"dirparent", "lookparent", "lsfiles", "act", "segv"},
         pc'[c] = "segv" \/ obj'[c].exists
  PROVE  OpPhase(c)' /\ ListPhase(c)' /\ WalkPhase(c)'
BY DEF OpPhase, ListPhase, WalkPhase, Searching

LEMMA ScanSeen ==
  ASSUME SeenInv, NEW c \in Clients, UNCHANGED <<store, raced>>,
         FindFiles(c) \/ ReadFileName(c) \/ FindFolders(c) \/ ReadFolderName(c)
  PROVE  OpPhase(c)' /\ ListPhase(c)' /\ WalkPhase(c)'
<1> DEFINE w == walk[c]
           n == Component(c)
<1>1. /\ w \in WalkType /\ DOMAIN walk = Clients /\ pc \in [Clients -> Labels] /\ WalkPhase(c)
      /\ w.todo \in Seq(IdsOrNone)
  BY SeenFacts
<1>2. UNCHANGED <<req, obj, before>> /\ pc[c] \in Searching /\ pc'[c] \in {"files", "dirs"}
  BY <1>1 DEF FindFiles, ReadFileName, FindFolders, ReadFolderName, Goto, NoFile, Searching
<1>3. OpPhase(c)' /\ ListPhase(c)' /\ obj'[c].exists
  BY <1>1, <1>2 DEF OpPhase, ListPhase, WalkPhase
<1>4. ASSUME walk'[c].dir = w.dir, walk'[c].comps = w.comps
      PROVE  \A k : Wanted(c, k)' = Wanted(c, k)
  BY <1>2, <1>4 DEF Wanted, Due, Component
<1>5. \A k : Wanted(c, k) \subseteq Due(c, k)
  BY DEF Wanted
<1>6. CASE FindFiles(c)
  <2>1. walk'[c] = [w EXCEPT !.todo = ListAt(files, w.dir), !.hit = NotFound] /\ pc'[c] = "files"
    BY <1>1, <1>6 DEF FindFiles, SetWalk, Goto
  <2>2. /\ walk'[c].dir = w.dir /\ walk'[c].comps = w.comps
        /\ walk'[c].todo = ListAt(files, w.dir)
    BY <1>1, <2>1, WalkFields
  <2>3. WalkPhase(c)'
    BY <1>3, <1>4, <1>5, <2>1, <2>2, DueParts DEF WalkPhase
  <2> QED
    BY <1>3, <2>3
<1>7. CASE ReadFileName(c)
  <2> DEFINE id == Head(w.todo)
             hit == IF FileMatches(n, id) THEN id ELSE w.hit
  <2>1. /\ walk'[c] = [w EXCEPT !.todo = Tail(w.todo), !.hit = hit]
        /\ pc'[c] = "files" /\ pc[c] = "files"
    BY <1>1, <1>7 DEF ReadFileName, SetWalk, Rest
  <2>2. /\ walk'[c].dir = w.dir /\ walk'[c].comps = w.comps
        /\ walk'[c].todo = Tail(w.todo) /\ walk'[c].hit = hit
    BY <1>1, <2>1, WalkFields
  <2>3. ASSUME NEW e \in Wanted(c, "file")
        PROVE  InSeq(Tail(w.todo), e.id) \/ hit # NotFound
    <3>1. e.id \in DOMAIN fileInfo /\ e.name = fileInfo[e.id] /\ Matches(n, e.name)
      BY <1>5, DueParts DEF Wanted
    <3>2. InSeq(w.todo, e.id) \/ w.hit # NotFound
      BY <1>1, <2>1 DEF WalkPhase
    <3>3. \A f \in DOMAIN fileInfo : f # NotFound
      BY TreeFacts, SeenFacts DEF NotFound
    <3>4. CASE e.id = id
      BY <3>1, <3>3, <3>4 DEF FileMatches
    <3>5. CASE w.hit # NotFound
      BY <3>3, <3>5 DEF FileMatches
    <3>6. CASE e.id # id /\ w.hit = NotFound
      BY <1>1, <3>2, <3>6, InTail
    <3> QED
      BY <3>4, <3>5, <3>6
  <2> HIDE DEF hit
  <2>4. WalkPhase(c)'
    BY <1>3, <1>4, <2>1, <2>2, <2>3 DEF WalkPhase
  <2> QED
    BY <1>3, <2>4
<1>8. CASE FindFolders(c)
  <2>1. /\ walk'[c] = [w EXCEPT !.todo = ListAt(folders, w.dir)] /\ pc'[c] = "dirs"
        /\ pc[c] = "files" /\ w.todo = << >> /\ w.hit = NotFound
    BY <1>1, <1>8 DEF FindFolders, NoFile, SetWalk, Goto
  <2>2. /\ walk'[c].dir = w.dir /\ walk'[c].comps = w.comps
        /\ walk'[c].todo = ListAt(folders, w.dir)
    BY <1>1, <2>1, WalkFields
  <2>3. Wanted(c, "file") = {}
    BY <1>1, <2>1, NoneLeft DEF WalkPhase
  <2>4. WalkPhase(c)'
    BY <1>3, <1>4, <1>5, <2>1, <2>2, <2>3, DueParts DEF WalkPhase
  <2> QED
    BY <1>3, <2>4
<1>9. CASE ReadFolderName(c)
  <2> DEFINE id == Head(w.todo)
             hit == IF FolderMatches(n, id) THEN id ELSE w.hit
  <2>1. /\ walk'[c] = [w EXCEPT !.todo = Tail(w.todo), !.hit = hit]
        /\ pc'[c] = "dirs" /\ pc[c] = "dirs"
    BY <1>1, <1>9 DEF ReadFolderName, SetWalk, Rest
  <2>2. /\ walk'[c].dir = w.dir /\ walk'[c].comps = w.comps
        /\ walk'[c].todo = Tail(w.todo) /\ walk'[c].hit = hit
    BY <1>1, <2>1, WalkFields
  <2>3. ASSUME NEW e \in Wanted(c, "dir")
        PROVE  InSeq(Tail(w.todo), e.id) \/ hit # NotFound
    <3>1. e.id \in Dirs /\ e.name = dirInfo[e.id].name /\ Matches(n, e.name)
      BY <1>5, DueParts DEF Wanted
    <3>2. InSeq(w.todo, e.id) \/ w.hit # NotFound
      BY <1>1, <2>1 DEF WalkPhase
    <3>3. \A d \in DOMAIN dirInfo : d # NotFound
      BY TreeFacts, SeenFacts DEF NotFound, Dirs
    <3>4. CASE e.id = id
      BY <3>1, <3>3, <3>4 DEF FolderMatches, Dirs
    <3>5. CASE w.hit # NotFound
      BY <3>3, <3>5 DEF FolderMatches
    <3>6. CASE e.id # id /\ w.hit = NotFound
      BY <1>1, <3>2, <3>6, InTail
    <3> QED
      BY <3>4, <3>5, <3>6
  <2>4. Wanted(c, "file") = {}
    BY <1>1, <2>1 DEF WalkPhase
  <2> HIDE DEF hit
  <2>5. WalkPhase(c)'
    BY <1>3, <1>4, <2>1, <2>2, <2>3, <2>4 DEF WalkPhase
  <2> QED
    BY <1>3, <2>5
<1> QED
  BY <1>6, <1>7, <1>8, <1>9

LEMMA ParseSeen ==
  ASSUME SeenInv, NEW c \in Clients, ParsePath(c), UNCHANGED <<store, raced>>
  PROVE  OpPhase(c)' /\ ListPhase(c)' /\ WalkPhase(c)'
<1> DEFINE w == walk[c]
<1>1. /\ DOMAIN walk = Clients /\ pc \in [Clients -> Labels] /\ WalkPhase(c)
      /\ obj \in [Clients -> ObjType]
  BY SeenFacts
<1>2. CASE FindFiles(c) \/ ReadFileName(c) \/ FindFolders(c) \/ ReadFolderName(c)
  BY <1>2, ScanSeen
<1>3. CASE Segfault(c) \/ (ParseFails(c) /\ pc[c] \in Searching)
  <2>1. pc'[c] = "segv" \/ (pc'[c] = "act" /\ obj'[c].exists)
    BY <1>1, <1>3, FailsSeen DEF Segfault, Goto
  <2> QED
    BY <2>1, WalkPlain
<1>4. CASE ReadWalkParent(c) /\ ~Segfault(c) /\ ~ParseFails(c)
  <2>1. obj' = obj /\ pc[c] = "lookparent" /\ pc'[c] = "lsfiles"
    BY <1>1, <1>4 DEF ReadWalkParent, Goto
  <2>2. obj'[c].exists
    BY <1>1, <2>1 DEF WalkPhase, Searching
  <2> QED
    BY <2>1, <2>2, WalkPlain
<1>5. CASE FoundFile(c) /\ ~ParseFails(c)
  <2>1. /\ obj'[c] = [obj[c] EXCEPT !.id = w.hit, !.isFile = TRUE, !.parentId = w.dir]
        /\ pc[c] = "files" /\ pc'[c] = "act"
    BY <1>1, <1>5 DEF FoundFile, SetObj, Goto
  <2>2. obj'[c].exists
    BY <1>1, <2>1 DEF WalkPhase, Searching, ObjType
  <2> QED
    BY <2>1, <2>2, WalkPlain
<1>6. CASE (FindDot(c) \/ FindDotDot(c) \/ FoundFolder(c)) /\ ~Segfault(c)
  <2>1. pc[c] \in Searching /\ \E d : Enter(c, d)
    BY <1>6 DEF FindDot, FindDotDot, FoundFolder, NoFile, Searching
  <2> QED
    BY <2>1, EnterSeen, WalkPlain
<1>7. CASE NothingFound(c) /\ ~ParseFails(c)
  <2>1. /\ pc[c] = "dirs" /\ pc'[c] = "act" /\ w.todo = << >> /\ w.hit = NotFound
        /\ walk'[c] = w /\ before' = before /\ req' = req
    BY <1>1, <1>7 DEF NothingFound, SetWalk, Goto
  <2>2. Wanted(c, "file") = {} /\ Wanted(c, "dir") = {}
    BY <1>1, <2>1, NoneLeft DEF WalkPhase
  <2>3. \A k : Wanted(c, k)' = Wanted(c, k)
    BY <2>1 DEF Wanted, Due, Component
  <2> QED
    BY <2>1, <2>2, <2>3 DEF OpPhase, ListPhase, WalkPhase, Searching
<1>8. CASE ReadDirParent(c) /\ ~Segfault(c)
  <2>1. /\ obj'[c] = [obj[c] EXCEPT !.parentId = ParentRead(c)]
        /\ pc[c] = "dirparent" /\ pc'[c] = "act"
    BY <1>1, <1>8 DEF ReadDirParent, SetObj, Goto
  <2>2. obj'[c].exists
    BY <1>1, <2>1 DEF WalkPhase, ObjType
  <2> QED
    BY <2>1, <2>2, WalkPlain
<1>9. (ReadWalkParent(c) \/ FoundFile(c) \/ NothingFound(c)) => pc[c] \in Searching
  BY DEF ReadWalkParent, FoundFile, NothingFound, Searching
<1> QED
  BY <1>2, <1>3, <1>4, <1>5, <1>6, <1>7, <1>8, <1>9 DEF ParsePath

LEMMA SeenOwn ==
  ASSUME SeenInv, [DefinedNext]_vars, NEW c \in Clients, Connect(c) \/ Crash(c) \/ Request(c) \/ Step(c)
  PROVE  BeforeKept(c)' /\ OpPhase(c)' /\ ListPhase(c)' /\ WalkPhase(c)'
<1>1. TreeInv /\ BeforeKept(c) /\ Grown /\ Entries \subseteq Entries'
  BY SeenFacts, Grows, EntriesStep DEF Shows
<1>2. BeforeKept(c)'
  BY <1>1, BeforeOwn DEF Grown, BeforeKept
<1>3. CASE List(c) \/ ParsePath(c)
  <2>1. UNCHANGED <<store, raced>>
    BY <1>1, <1>3, OutsideStep DEF Outside, TreeInv
  <2> QED
    BY <1>2, <1>3, <2>1, ListSeen, ParseSeen
<1>4. CASE ~(List(c) \/ ParsePath(c))
  <2>1. /\ OpPhase(c)' /\ pc'[c] \notin {"lsdirnames", "lsfilenames", "files", "dirs"}
        /\ pc'[c] = "reply" => req'[c].op # "LIST"
        /\ pc'[c] \in {"lookparent", "lsfiles", "dirparent", "act"} => obj'[c].exists
    BY <1>4, RequestPhase, ActPhase, OtherPhase DEF Step
  <2> QED
    BY <1>2, <2>1 DEF ListPhase, WalkPhase, Searching
<1> QED
  BY <1>3, <1>4

LEMMA NextSeen == SeenInv /\ [DefinedNext]_vars => SeenInv'
<1> SUFFICES ASSUME SeenInv, [DefinedNext]_vars PROVE SeenInv'
  OBVIOUS
<1>1. TreeInv' /\ Grown /\ Entries \subseteq Entries'
  BY NextTree, Grows, EntriesStep DEF SeenInv, Shows
<1>2. CASE UNCHANGED vars
  BY <1>1, <1>2, SeenKept DEF SeenInv, vars, session
<1>3. CASE DefinedNext
  <2>1. PICK c \in Clients : Connect(c) \/ Crash(c) \/ Request(c) \/ Step(c)
    BY <1>3 DEF DefinedNext
  <2>2. ASSUME NEW d \in Clients \ {c}
        PROVE  BeforeKept(d)' /\ OpPhase(d)' /\ ListPhase(d)' /\ WalkPhase(d)'
    <3>1. /\ pc'[d] = pc[d] /\ walk'[d] = walk[d] /\ obj'[d] = obj[d]
          /\ req'[d] = req[d] /\ before'[d] = before[d]
      BY <2>1, Others DEF SeenInv
    <3> QED
      BY <1>1, <3>1, SeenKept
  <2>3. BeforeKept(c)' /\ OpPhase(c)' /\ ListPhase(c)' /\ WalkPhase(c)'
    BY <2>1, SeenOwn
  <2> QED
    BY <1>1, <2>2, <2>3 DEF SeenInv
<1> QED
  BY <1>2, <1>3

LEMMA SeenAlways == DefinedSpec => []SeenInv
<1>1. Init => SeenInv
  BY InitTree DEF Init, SessionsOff, SeenInv, BeforeKept, OpPhase, ListPhase, WalkPhase, Searching
<1> QED
  BY <1>1, NextSeen, PTL DEF DefinedSpec

\* A listing shows every entry the directory had when the command began, however
\* many creations it runs next to.
THEOREM ListingsComplete ==
  ASSUME Garbage = {}
  PROVE  Spec => []ListingComplete
<1>0. [Next]_vars => [DefinedNext]_vars
  BY DefinedOnly
<1>1. SeenInv => ListingComplete
  <2> SUFFICES ASSUME SeenInv, NEW c \in Clients, pc[c] = "reply", req[c].op = "LIST",
                      NEW e \in before[c], e.dir = walk[c].dir, e.id \notin raced
               PROVE  <<e.kind, e.name>> \in walk[c].names
    BY DEF ListingComplete
  <2>1. e \in Due(c, "dir") \/ e \in Due(c, "file")
    BY DueParts
  <2> QED
    BY <2>1, SeenFacts DEF ListPhase, Due
<1> QED
  BY <1>1, SeenAlways, <1>0, PTL DEF Spec, DefinedSpec

\* A lookup that finds nothing under a name has missed nothing that matched it
\* when the command began: half created entries do not hide complete ones.
THEOREM LookupsFind ==
  ASSUME Garbage = {}
  PROVE  Spec => []FoundIfCommitted
<1>0. [Next]_vars => [DefinedNext]_vars
  BY DefinedOnly
<1>1. SeenInv => FoundIfCommitted
  <2> SUFFICES ASSUME SeenInv, NEW c \in Clients, pc[c] = "act", ~ obj[c].exists,
                      NEW e \in before[c], e.dir = walk[c].dir, e.id \notin raced,
                      Matches(Component(c), e.name)
               PROVE  FALSE
    BY DEF FoundIfCommitted
  <2>1. e \in Due(c, "dir") \/ e \in Due(c, "file")
    BY DueParts
  <2> QED
    BY <2>1, SeenFacts DEF WalkPhase, Wanted
<1> QED
  BY <1>1, SeenAlways, <1>0, PTL DEF Spec, DefinedSpec

-----------------------------------------------------------------------------
(* The file a name leads to.                                                *)

\* Every set of places in a list that is not empty has a last one.
LEMMA LastInSet ==
  ASSUME NEW n \in Nat, NEW S \in SUBSET (1..n), S # {}
  PROVE  \E m \in S : \A y \in S : y <= m
<1> DEFINE U == 1..n
           above(x) == S \cap (x..n)
           T == {above(x) : x \in S}
<1>1. IsWellFoundedOn(StrictSubsetOrdering(U), FiniteSubsetsOf(U))
  BY FS_StrictSubsetOrderingWellFounded
<1>2. T \subseteq FiniteSubsetsOf(U) /\ T # {}
  <2>1. IsFiniteSet(U)
    BY FS_Interval
  <2>2. \A V \in SUBSET U : IsFiniteSet(V)
    BY <2>1, FS_Subset
  <2>3. \A x \in S : above(x) \in SUBSET U
    OBVIOUS
  <2> QED
    BY <2>2, <2>3 DEF FiniteSubsetsOf
<1>3. PICK m \in S : \A y \in S : ~ (<<above(y), above(m)>> \in StrictSubsetOrdering(U))
  <2> HIDE DEF T
  <2>1. PICK t \in T : \A v \in T : ~ (<<v, t>> \in StrictSubsetOrdering(U))
    BY <1>1, <1>2, WFMin
  <2> QED
    BY <2>1 DEF T
<1>4. \A y \in S : y <= m
  <2> SUFFICES ASSUME NEW y \in S, y > m PROVE FALSE
    OBVIOUS
  <2>1. above(y) \subseteq above(m) /\ m \in above(m) /\ m \notin above(y)
    OBVIOUS
  <2>2. above(y) # above(m) /\ above(y) \in SUBSET U /\ above(m) \in SUBSET U
    BY <2>1
  <2> QED
    BY <1>3, <2>1, <2>2 DEF StrictSubsetOrdering
<1> QED
  BY <1>4

\* The name n leads to the file i when the hashes are h.
Fits(h, n, i) == i \in DOMAIN h /\ Matches(n, h[i])

\* FileAt is the last place whose file matches.
LastAt(d, n) ==
  /\ Len(files[d]) \in Nat /\ DOMAIN files[d] = 1..Len(files[d])
  /\ FileMatchesAt(d, n) = {i \in 1..Len(files[d]) : FileMatches(n, files[d][i])}
  /\ FileMatchesAt(d, n) = {} => FileAt(d, n) = 0
  /\ FileMatchesAt(d, n) # {} => /\ FileAt(d, n) \in FileMatchesAt(d, n)
                                 /\ \A j \in FileMatchesAt(d, n) : j <= FileAt(d, n)
                                 /\ FileFound(d, n) = files[d][FileAt(d, n)]
  /\ FileAt(d, n) = 0 => FileFound(d, n) = NotFound

LEMMA LastMatch == TreeInv => \A d \in DOMAIN files : \A n : LastAt(d, n)
<1> SUFFICES ASSUME TreeInv, NEW d \in DOMAIN files, NEW n
             PROVE  LastAt(d, n)
  OBVIOUS
<1> DEFINE at == FileMatchesAt(d, n)
           k == FileAt(d, n)
<1>1. files[d] \in Seq(IdsOrNone)
  BY TreeFacts DEF ListsType
<1>2. Len(files[d]) \in Nat /\ DOMAIN files[d] = 1..Len(files[d])
  BY <1>1
<1>3. at = {i \in 1..Len(files[d]) : FileMatches(n, files[d][i])}
  BY DEF FileMatchesAt, ListAt
<1>4. at = {} => k = 0
  BY DEF FileAt
<1>5. ASSUME at # {} PROVE k \in at /\ \A j \in at : j <= k
  <2>1. at \in SUBSET (1..Len(files[d]))
    BY <1>3
  <2> HIDE DEF at, k
  <2>2. \E m \in at : \A j \in at : j <= m
    BY <1>2, <1>5, <2>1, LastInSet
  <2>3. k = CHOOSE m \in at : \A j \in at : j <= m
    BY <1>5 DEF FileAt, at, k
  <2> QED
    BY <2>2, <2>3
<1>6. k # 0 => FileFound(d, n) = files[d][k]
  BY DEF FileFound
<1>7. at # {} => k # 0
  BY <1>2, <1>3, <1>5
<1> QED
  BY <1>2, <1>3, <1>4, <1>5, <1>6, <1>7 DEF LastAt, FileFound

LEMMA LastMatchNext ==
  ASSUME TreeInv, [DefinedNext]_vars
  PROVE  \A d \in DOMAIN files' : \A n : LastAt(d, n)'
<1>1. TreeInv'
  BY NextTree
<1>2. TreeInv' => (\A d \in DOMAIN files : \A n : LastAt(d, n))'
  BY LastMatch, PTL
<1> QED
  BY <1>1, <1>2

\* A new id in front of the list moves the last match with its place.
LEMMA LinkResolution ==
  ASSUME TreeInv, [DefinedNext]_vars, NEW c \in Clients, LinkEntry(c), NEW d \in DOMAIN files, NEW n,
         FileFound(d, n) # NotFound
  PROVE  FileFound(d, n)' = FileFound(d, n)
<1> DEFINE k == FileAt(d, n)
           l == FileAt(d, n)'
<1>1. fileInfo' = fileInfo /\ ListsType(files) /\ new[c] \in IdsOrNone
  BY LinkEntryParts, TreeFacts
<1>2. CASE files' = files
  BY <1>1, <1>2 DEF FileFound, FileAt, FileMatchesAt, FileMatches, ListAt
<1>3. CASE files' = Lpush(files, walk[c].dir, new[c])
  <2> DEFINE p == files'
             q == ListAt(files, walk[c].dir)
  <2>0. p = files' /\ q = ListAt(files, walk[c].dir)
    OBVIOUS
  <2> HIDE DEF p, q
  <2>1. Pushed(files, walk[c].dir, new[c], p, q)
    BY <1>1, <1>3, <2>0, LpushParts
  <2>2. d \in DOMAIN p
    BY <2>1 DEF Pushed
  <2>3. LastAt(d, n) /\ LastAt(d, n)'
    BY <2>0, <2>2, LastMatch, LastMatchNext
  <2>4. CASE walk[c].dir # d
    <3>1. p[d] = files[d]
      BY <2>1, <2>4 DEF Pushed
    <3> QED
      BY <1>1, <2>0, <2>2, <3>1 DEF FileFound, FileAt, FileMatchesAt, FileMatches, ListAt
  <2>5. CASE walk[c].dir = d
    <3>1. /\ q = files[d] /\ Len(p[d]) = Len(q) + 1 /\ Len(q) \in Nat
          /\ \A i \in 1..Len(q) : p[d][i + 1] = q[i]
      BY <2>1, <2>5 DEF Pushed
    <3>2. FileMatchesAt(d, n) # {} /\ k \in 1..Len(q) /\ FileMatches(n, q[k])
      BY <2>3, <3>1 DEF LastAt
    <3>3. \A i : FileMatches(n, i)' = FileMatches(n, i)
      BY <1>1 DEF FileMatches
    <3>4. FileMatchesAt(d, n)' = {i \in 1..Len(p[d]) : FileMatches(n, p[d][i])}
      BY <2>0, <2>3, <3>3 DEF LastAt
    <3> HIDE DEF k, l
    <3>5. k + 1 \in FileMatchesAt(d, n)'
      BY <3>1, <3>2, <3>4
    <3>6. l \in FileMatchesAt(d, n)' /\ k + 1 <= l /\ FileFound(d, n)' = p[d][l]
      BY <2>0, <2>3, <3>5 DEF LastAt, l
    <3>7. l - 1 \in 1..Len(q) /\ p[d][(l - 1) + 1] = q[l - 1] /\ (l - 1) + 1 = l
      BY <3>1, <3>2, <3>4, <3>6
    <3>8. l - 1 \in FileMatchesAt(d, n)
      BY <2>3, <3>1, <3>4, <3>6, <3>7 DEF LastAt
    <3>9. l - 1 <= k
      BY <2>3, <3>8 DEF LastAt, k
    <3>10. l - 1 = k
      BY <3>2, <3>6, <3>7, <3>9
    <3> QED
      BY <2>3, <3>1, <3>2, <3>6, <3>7, <3>10 DEF LastAt, k
  <2> QED
    BY <2>4, <2>5
<1> QED
  BY <1>2, <1>3, LinkEntryParts

\* The hash of a file is written: it is the only one that can take the name.
LEMMA WriteResolution ==
  ASSUME TreeInv, [DefinedNext]_vars, NEW c \in Clients, WriteInfo(c), NEW d \in DOMAIN files, NEW n,
         FileFound(d, n) # NotFound, FileFound(d, n)' # FileFound(d, n),
         FileFound(d, n) \notin raced, FileFound(d, n)' \notin raced
  PROVE  /\ FileFound(d, n)' \in {files[d][i] : i \in (FileAt(d, n) + 1)..Len(files[d])}
         /\ FileFound(d, n)' \notin DOMAIN fileInfo
<1> DEFINE k == FileAt(d, n)
           l == FileAt(d, n)'
           id == new[c]
<1>1. files' = files /\ pc[c] = "info"
  BY WriteInfoParts
<1>2. id \notin raced => id \notin DOMAIN fileInfo
  BY <1>1 DEF TreeInv, NewUnused, Owns
<1>3. \A i : i # id => (Fits(fileInfo', n, i) <=> Fits(fileInfo, n, i))
  <2>1. CASE req[c].op = "MKD"
    <3>1. fileInfo' = fileInfo
      BY <2>1, WriteInfoParts
    <3> QED
      BY <3>1 DEF Fits
  <2>2. CASE req[c].op # "MKD"
    <3>1. /\ DOMAIN fileInfo' = DOMAIN fileInfo \cup {id}
          /\ \A f \in DOMAIN fileInfo \ {id} : fileInfo'[f] = fileInfo[f]
      BY <2>2, WriteInfoParts
    <3> HIDE DEF id
    <3> QED
      BY <3>1 DEF Fits
  <2> QED
    BY <2>1, <2>2
<1>4. LastAt(d, n) /\ LastAt(d, n)'
  BY <1>1, LastMatch, LastMatchNext
<1>5. /\ FileMatchesAt(d, n) = {i \in 1..Len(files[d]) : Fits(fileInfo, n, files[d][i])}
      /\ FileMatchesAt(d, n)' = {i \in 1..Len(files[d]) : Fits(fileInfo', n, files[d][i])}
      /\ Len(files[d]) \in Nat
  BY <1>1, <1>4 DEF LastAt, FileMatches, Fits
<1>6. /\ k \in FileMatchesAt(d, n) /\ FileFound(d, n) = files[d][k]
      /\ \A j \in FileMatchesAt(d, n) : j <= k
  BY <1>4 DEF LastAt
<1>7. FileFound(d, n) \in DOMAIN fileInfo
  BY <1>5, <1>6 DEF Fits
<1>8. FileFound(d, n) # id
  BY <1>2, <1>7
<1> HIDE DEF k, l
<1>9. k \in FileMatchesAt(d, n)'
  BY <1>3, <1>5, <1>6, <1>8
<1>10. l \in FileMatchesAt(d, n)' /\ k <= l /\ FileFound(d, n)' = files[d][l]
  BY <1>1, <1>4, <1>9 DEF LastAt, l
<1>11. l # k
  BY <1>6, <1>10
<1>12. l \notin FileMatchesAt(d, n)
  BY <1>5, <1>6, <1>10, <1>11
<1>13. files[d][l] = id
  BY <1>3, <1>5, <1>10, <1>12
<1>14. l \in (k + 1)..Len(files[d])
  BY <1>5, <1>6, <1>10, <1>11
<1> QED
  BY <1>2, <1>10, <1>13, <1>14 DEF k

\* Once a name leads to a file, a later creation never takes the name over: only
\* a file that was listed earlier, whose hash was still to be written, can.  Ids
\* that were handed out twice aside.
THEOREM ResolutionsStable ==
  ASSUME Garbage = {}
  PROVE  Spec => ResolutionStable
<1>0. [Next]_vars => [DefinedNext]_vars
  BY DefinedOnly
<1>1. ASSUME TreeInv, [DefinedNext]_vars, NEW d \in DOMAIN files, NEW n \in Names,
             FileFound(d, n) # NotFound, FileFound(d, n)' # FileFound(d, n),
             {FileFound(d, n), FileFound(d, n)'} \cap raced = {}
      PROVE  /\ FileFound(d, n)' \in {files[d][i] : i \in (FileAt(d, n) + 1)..Len(files[d])}
             /\ FileFound(d, n)' \notin DOMAIN fileInfo
  <2>1. UNCHANGED <<files, fileInfo>> => FileFound(d, n)' = FileFound(d, n)
    BY DEF FileFound, FileAt, FileMatchesAt, FileMatches, ListAt
  <2>2. DefinedNext
    BY <1>1, <2>1 DEF vars, store
  <2>3. PICK c \in Clients : Connect(c) \/ Crash(c) \/ Request(c) \/ Step(c)
    BY <2>2 DEF DefinedNext
  <2>4. CASE Outside(c)
    BY <1>1, <2>1, <2>4, OutsideStep DEF TreeInv, store
  <2>5. CASE GetId(c) \/ IncrId(c)
    BY <1>1, <2>1, <2>5 DEF GetId, IncrId, store
  <2>6. CASE LinkEntry(c)
    BY <1>1, <2>6, LinkResolution
  <2>7. CASE WriteInfo(c)
    BY <1>1, <2>7, WriteResolution
  <2> QED
    BY <2>3, <2>4, <2>5, <2>6, <2>7, StepSplit
<1>2. TreeInv /\ [DefinedNext]_vars =>
        [\A d \in DOMAIN files, n \in Names :
           LET old == FileFound(d, n)
               now == FileFound(d, n)'
           IN  old # NotFound /\ now # old /\ {old, now} \cap raced = {} =>
                 /\ now \in {files[d][i] : i \in (FileAt(d, n) + 1)..Len(files[d])}
                 /\ now \notin DOMAIN fileInfo]_vars
  BY <1>1
<1> QED
  BY <1>2, TreeAlways, <1>0, PTL DEF Spec, DefinedSpec, ResolutionStable

-----------------------------------------------------------------------------
(* One session at a time may also start from an empty Redis server.         *)

OneSession == \A c, d \in Clients : c = d

\* What vfs_buildDatabase writes.
EmptyStore == folders = NoKeys /\ files = NoKeys /\ fileInfo = NoKeys

RootOnly == [x \in {Root} |-> RootInfo]

BuiltFresh ==
  /\ TypeIInv /\ DOMAIN before = Clients
  /\ created /\ count = 1 /\ EmptyStore /\ dirInfo = RootOnly
  /\ \A c \in Clients : pc[c] = "ready" /\ cwd[c] = RootCwd /\ before[c] = {}

LEMMA FreshSeen == BuiltFresh => SeenInv
<1> SUFFICES ASSUME BuiltFresh PROVE SeenInv
  OBVIOUS
<1>1. DOMAIN dirInfo = {Root} /\ dirInfo[Root].parent = Root /\ Root = 0 /\ DOMAIN NoKeys = {}
      /\ folders = NoKeys /\ files = NoKeys /\ fileInfo = NoKeys
  BY NoKeysType DEF BuiltFresh, EmptyStore, RootOnly, RootInfo, Root
<1>2. TreeShape
  BY <1>1 DEF BuiltFresh, TreeShape, ParentBelowChild, CountAboveIds, Dirs
<1>3. \A c \in Clients : Held(c)
  BY <1>1 DEF BuiltFresh, Held, CwdHeld, WalkHeld, ObjHeld, NewHeld, InDir, Searching, Booting,
              RootCwd, Dirs
<1>4. OneOwner /\ \A c \in Clients : NewUnused(c)
  BY DEF BuiltFresh, OneOwner, NewUnused, Owns
<1>5. OnceListed /\ DirsListed
  BY <1>1 DEF OnceListed, Once, Nowhere, DirsListed, Dirs
<1>6. TreeInv
  BY <1>2, <1>3, <1>4, <1>5 DEF BuiltFresh, DirInv, TreeInv
<1>7. \A c \in Clients : BeforeKept(c) /\ OpPhase(c) /\ ListPhase(c) /\ WalkPhase(c)
  BY DEF BuiltFresh, BeforeKept, OpPhase, ListPhase, WalkPhase, Searching
<1> QED
  BY <1>6, <1>7 DEF SeenInv

\* How far the session is with a database that does not say it is built.
BootPhase(c) ==
  /\ pc[c] \in {"off", "segv", "exists"} \cup Booting /\ before[c] = {}
  /\ pc[c] \notin {"off", "segv"} => cwd[c] = RootCwd
  /\ pc[c] \in {"mkroot", "setcount", "setcreated"} => EmptyStore
  /\ pc[c] = "mkroot" => dirInfo = NoKeys
  /\ pc[c] \in {"setcount", "setcreated"} => dirInfo = RootOnly
  /\ pc[c] = "setcreated" => count = 1

SoloInv ==
  /\ TypeIInv /\ DOMAIN before = Clients
  /\ created => SeenInv
  /\ ~ created => \A c \in Clients : BootPhase(c)

LEMMA SoloBoot ==
  ASSUME OneSession, SoloInv, [DefinedNext]_vars, ~ created, NEW c \in Clients,
         Connect(c) \/ Crash(c) \/ Request(c) \/ Step(c)
  PROVE  SoloInv'
<1>1. TypeIInv'
  BY NextType DEF SoloInv
<1>2. /\ BootPhase(c) /\ TypeIInv /\ pc \in [Clients -> Labels] /\ DOMAIN cwd = Clients
      /\ DOMAIN before = Clients /\ \A d \in Clients : d = c
  BY DEF SoloInv, TypeIInv, TypeInv, TypeOK, SessionType, OneSession
<1>3. DOMAIN before' = Clients
  BY <1>2, OwnRequest
<1>4. ASSUME ~ created', BootPhase(c)' PROVE SoloInv'
  BY <1>1, <1>2, <1>3, <1>4 DEF SoloInv
<1> USE <1>2
<1>5. CASE Connect(c)
  <2>1. UNCHANGED <<store, before>> /\ pc'[c] = "exists" /\ cwd'[c] = RootCwd
    BY <1>5 DEF Connect, Goto
  <2>2. ~ created' /\ BootPhase(c)'
    BY <2>1 DEF BootPhase, store
  <2> QED
    BY <1>4, <2>2
<1>6. CASE Crash(c)
  <2>1. UNCHANGED store /\ pc'[c] = "off" /\ before'[c] = {}
    BY <1>6 DEF Crash, Goto, Idle
  <2>2. ~ created' /\ BootPhase(c)'
    BY <2>1 DEF BootPhase, store
  <2> QED
    BY <1>4, <2>2
<1>7. CASE BootExists(c)
  <2>1. UNCHANGED <<store, before, cwd>> /\ pc'[c] = "flushall" /\ pc[c] = "exists"
    BY <1>7 DEF BootExists, Goto, NeedsBuild
  <2>2. ~ created' /\ BootPhase(c)'
    BY <2>1 DEF BootPhase, store, Booting
  <2> QED
    BY <1>4, <2>2
<1>8. CASE BootFlushall(c)
  <2>1. /\ pc'[c] = "mkroot" /\ pc[c] = "flushall" /\ ~ created' /\ UNCHANGED <<before, cwd>>
        /\ folders' = NoKeys /\ files' = NoKeys /\ dirInfo' = NoKeys /\ fileInfo' = NoKeys
    BY <1>8 DEF BootFlushall, Goto
  <2>2. BootPhase(c)'
    BY <2>1 DEF BootPhase, Booting, EmptyStore
  <2> QED
    BY <1>4, <2>1, <2>2
<1>9. CASE BootMakeRoot(c)
  <2>1. /\ pc'[c] = "setcount" /\ pc[c] = "mkroot" /\ UNCHANGED <<created, before, cwd>>
        /\ UNCHANGED <<folders, files, fileInfo>> /\ dirInfo' = Hmset(dirInfo, Root, RootInfo)
    BY <1>9 DEF BootMakeRoot, Goto
  <2>2. dirInfo' = RootOnly
    BY <2>1, NoKeysType DEF BootPhase, Hmset, RootOnly, Root, NoKey
  <2>3. BootPhase(c)'
    BY <2>1, <2>2 DEF BootPhase, Booting, EmptyStore
  <2> QED
    BY <1>4, <2>1, <2>3
<1>10. CASE BootSetCount(c)
  <2>1. /\ pc'[c] = "setcreated" /\ pc[c] = "setcount" /\ UNCHANGED <<created, before, cwd>>
        /\ UNCHANGED <<folders, files, fileInfo, dirInfo>> /\ count' = 1
    BY <1>10 DEF BootSetCount, Goto
  <2>2. BootPhase(c)'
    BY <2>1 DEF BootPhase, Booting, EmptyStore
  <2> QED
    BY <1>4, <2>1, <2>2
<1>11. CASE BootSetCreated(c)
  <2>1. /\ pc'[c] = "ready" /\ pc[c] = "setcreated" /\ UNCHANGED <<before, cwd>>
        /\ UNCHANGED <<folders, files, fileInfo, dirInfo, count>> /\ created'
    BY <1>11 DEF BootSetCreated, Goto
  <2>2. BuiltFresh'
    BY <1>1, <1>3, <2>1 DEF BuiltFresh, BootPhase, Booting, EmptyStore
  <2>3. BuiltFresh' => SeenInv'
    BY FreshSeen, PTL
  <2> QED
    BY <1>1, <1>3, <2>1, <2>2, <2>3 DEF SoloInv
<1>12. CASE Request(c)
  <2>1. pc[c] = "ready"
    BY <1>12, ZenonT(30) DEF Request, CreateRequest, PathRequest, ListRequest, PwdRequest, CdupRequest, Begin
  <2> QED
    BY <2>1 DEF BootPhase, Booting
<1>13. CASE Create(c) \/ Act(c) \/ List(c) \/ Pwd(c) \/ Respond(c)
  BY <1>13 DEF BootPhase, Booting, Create, GetId, IncrId, LinkEntry, WriteInfo,
               Act, CwdAct, QueryAct, DeleteAct, MvFirst, MvDone, CreateAct,
               List, ListFolders, ListFolderName, ListFiles, ListFileName, ListDone,
               Pwd, PwdName, PwdParent, Respond
<1>14. CASE ParsePath(c)
  BY <1>14 DEF BootPhase, Booting, ParsePath, ReadWalkParent, FindFiles, ReadFileName, FoundFile,
               FindDot, FindDotDot, FindFolders, ReadFolderName, FoundFolder, NothingFound,
               ReadDirParent, NoFile
<1> QED
  BY <1>5, <1>6, <1>7, <1>8, <1>9, <1>10, <1>11, <1>12, <1>13, <1>14 DEF Step, Boot

LEMMA InitSolo == ColdInit => SoloInv
BY InitType DEF ColdInit, SessionsOff, SoloInv, BootPhase

LEMMA NextSolo ==
  ASSUME OneSession, SoloInv, [DefinedNext]_vars
  PROVE  SoloInv'
<1>1. TypeIInv'
  BY NextType DEF SoloInv
<1>2. CASE created
  <2>1. SeenInv'
    BY <1>2, NextSeen DEF SoloInv
  <2> QED
    BY <2>1 DEF SoloInv, SeenInv, TreeInv, DirInv, TreeShape
<1>3. CASE UNCHANGED vars /\ ~ created
  BY <1>1, <1>3 DEF vars, store, session, SoloInv, BootPhase, EmptyStore
<1>4. CASE DefinedNext /\ ~ created
  BY <1>4, SoloBoot DEF DefinedNext
<1> QED
  BY <1>2, <1>3, <1>4

\* As long as one session at a time boots, a database that says it is built has
\* a root and a counter, wherever the session that built it died.
THEOREM BuildSound ==
  ASSUME OneSession, Garbage = {}
  PROVE  ColdSpec => []BuiltWhenCreated
<1>0. [Next]_vars => [DefinedNext]_vars
  BY DefinedOnly
<1>1. SoloInv /\ [DefinedNext]_vars => SoloInv'
  BY NextSolo
<1>2. SoloInv => BuiltWhenCreated
  BY DEF SoloInv, SeenInv, TreeInv, DirInv, TreeShape, BuiltWhenCreated, Dirs
<1> QED
  BY <1>1, <1>2, InitSolo, <1>0, PTL DEF ColdSpec

-----------------------------------------------------------------------------
(* FUSE create.                                                             *)

Creating == {"getid", "incr", "link", "info"}

\* One session sees no entry that it did not find when its command began, and a
\* file it creates has a name its directory does not show.
Watched(c) ==
  /\ req[c].op \in PathOps /\ pc[c] \in Searching \cup {"dirparent", "act"} =>
       Entries \subseteq before[c]
  /\ req[c].op = "CREATE" /\ pc[c] \in Creating =>
       \A e \in Entries : e.dir = walk[c].dir => e.name # req[c].name

\* Where a command goes on from.
LEMMA WatchedStep ==
  ASSUME SeenInv, NEW c \in Clients, Connect(c) \/ Crash(c) \/ Request(c) \/ Step(c)
  PROVE  /\ \/ pc'[c] \notin Searching \cup {"dirparent", "act"} \/ before'[c] = Entries
            \/ /\ pc[c] \in Searching \cup {"dirparent", "act"}
               /\ before'[c] = before[c] /\ req'[c].op = req[c].op
         /\ \/ pc'[c] \notin Creating \/ req'[c].op # "CREATE" \/ CreateAct(c)
            \/ pc[c] \in Creating /\ UNCHANGED <<req, walk>>
<1> USE SeenFacts DEF Goto, Creating, Searching
<1>1. CASE Connect(c)
  BY <1>1 DEF Connect
<1>2. CASE Crash(c) \/ Respond(c)
  BY <1>2 DEF Crash, Respond
<1>3. CASE CreateRequest(c)
  <2>1. PICK op \in {"MKD", "STOR"}, n \in NewNames :
          req' = [req EXCEPT ![c] = [NoReq EXCEPT !.op = op, !.name = n]]
    BY <1>3 DEF CreateRequest, Begin
  <2>2. req'[c].op = op
    BY <2>1, RequestOp
  <2>3. pc'[c] = "getid"
    BY <1>3 DEF CreateRequest, Begin
  <2> QED
    BY <2>2, <2>3
<1>4. CASE PathRequest(c)
  <2>1. PICK op \in PathOps, p \in Paths, q \in Paths :
          LET r == [NoReq EXCEPT !.op = op, !.path = p, !.path2 = q]
          IN  before' = [before EXCEPT ![c] = IF r.op \in PathOps \cup {"LIST"} THEN Entries ELSE {}]
    BY <1>4 DEF PathRequest, Begin
  <2>2. before'[c] = Entries
    BY <2>1, RequestOp
  <2>3. pc'[c] \in {"act", "lookparent", "lsfiles"}
    BY <1>4 DEF PathRequest, Begin, WalkLabel
  <2> QED
    BY <2>2, <2>3
<1>5. CASE ListRequest(c) \/ PwdRequest(c) \/ CdupRequest(c)
  BY <1>5 DEF ListRequest, PwdRequest, CdupRequest, Begin, Segfault
<1>6. CASE Boot(c)
  BY <1>6 DEF Boot, BootExists, BootFlushall, BootMakeRoot, BootSetCount, BootSetCreated
<1>7. CASE Create(c)
  BY <1>7 DEF Create, GetId, IncrId, LinkEntry, WriteInfo
<1>8. CASE ParsePath(c)
  <2>1. CASE Segfault(c)
    BY <2>1 DEF Segfault
  <2>2. CASE ~Segfault(c)
    BY <1>8, <2>2 DEF ParsePath, ReadWalkParent, FindFiles, ReadFileName, FoundFile, FindDot,
                      FindDotDot, FindFolders, ReadFolderName, FoundFolder, NothingFound,
                      ReadDirParent, Enter, ParseFails, WalkLabel, NoFile
  <2> QED
    BY <2>1, <2>2
<1>9. CASE CwdAct(c) \/ QueryAct(c) \/ DeleteAct(c) \/ MvDone(c)
  BY <1>9 DEF CwdAct, QueryAct, DeleteAct, MvDone, Reply
<1>10. CASE MvFirst(c)
  <2>1. pc[c] = "act" /\ before' = before /\ req' = [req EXCEPT ![c].path2 = NoPath]
        /\ pc'[c] \in {"act", "lookparent", "lsfiles"}
    BY <1>10 DEF MvFirst, WalkLabel
  <2>2. req'[c].op = req[c].op
    BY <2>1 DEF ReqType
  <2> QED
    BY <2>1, <2>2
<1>11. CASE CreateAct(c)
  BY <1>11 DEF CreateAct, Reply
<1>12. CASE List(c) \/ Pwd(c)
  BY <1>12 DEF List, ListFolders, ListFolderName, ListFiles, ListFileName, ListDone,
               Pwd, PwdName, PwdParent, Reply, Segfault
<1> QED
  BY <1>1, <1>2, <1>3, <1>4, <1>5, <1>6, <1>7, <1>8, <1>9, <1>10, <1>11, <1>12
  DEF Step, Act, Request

\* The name that CREATE takes is free.
LEMMA FreeName ==
  ASSUME SeenInv, NEW c \in Clients, Watched(c), CreateAct(c), IsFree(obj[c])
  PROVE  /\ walk' = walk /\ req'[c].name = Component(c)
         /\ \A e \in Entries : e.dir = walk[c].dir => e.name # Component(c)
<1>1. /\ pc[c] = "act" /\ req[c].op = "CREATE" /\ ~ obj[c].exists /\ walk' = walk
      /\ req' = [req EXCEPT ![c].name = Component(c)]
  BY DEF CreateAct, IsFree
<1>2. req'[c].name = Component(c)
  BY <1>1, SeenFacts DEF ReqType
<1>3. ASSUME NEW e \in Entries, e.dir = walk[c].dir, e.name = Component(c) PROVE FALSE
  <2>1. e \in before[c] /\ e.id \notin raced
    BY <1>1, EntryParts, SeenFacts DEF Watched, PathOps
  <2>2. e \in Due(c, "dir") \/ e \in Due(c, "file")
    BY <1>3, <2>1, DueParts
  <2>3. e.name \in Names
    <3>1. /\ dirInfo \in [Dirs -> [parent : IdsOrNone, name : Names]]
          /\ fileInfo \in [DOMAIN fileInfo -> Names]
      BY SeenFacts DEF TypeInv, TypeOK, StoreType, Dirs
    <3>2. CASE e.kind = "dir"
      <4>1. e.id \in Dirs /\ e.name = dirInfo[e.id].name
        BY <3>2, EntryParts, SeenFacts
      <4> QED
        BY <3>1, <4>1
    <3>3. CASE e.kind # "dir"
      <4>1. e.id \in DOMAIN fileInfo /\ e.name = fileInfo[e.id]
        BY <3>3, EntryParts, SeenFacts
      <4> QED
        BY <3>1, <4>1
    <3> QED
      BY <3>2, <3>3
  <2>4. Matches(Component(c), e.name)
    BY <1>3, <2>3, NamesAssumption DEF NamesAssumption, Matches
  <2> QED
    BY <1>1, <2>2, <2>4, SeenFacts DEF WalkPhase, Wanted
<1> QED
  BY <1>1, <1>2, <1>3

LEMMA NextWatched ==
  ASSUME OneSession, SeenInv, [DefinedNext]_vars, NEW c \in Clients, Watched(c)
  PROVE  Watched(c)'
<1>1. CASE UNCHANGED vars
  BY <1>1 DEF vars, store, session, Watched, Entries, ListedIn
<1>2. CASE DefinedNext
  <2>1. Connect(c) \/ Crash(c) \/ Request(c) \/ Step(c)
    BY <1>2 DEF DefinedNext, OneSession
  <2>2. CASE WriteInfo(c)
    <3>1. pc'[c] = "reply"
      BY <2>2, WriteInfoParts, SeenFacts
    <3> QED
      BY <3>1 DEF Watched, Searching, Creating
  <2>3. CASE ~WriteInfo(c)
    <3>1. Entries' = Entries
      BY <2>3, EntriesStep, SeenFacts DEF Shows, OneSession
    <3>2. req'[c].op \in PathOps /\ pc'[c] \in Searching \cup {"dirparent", "act"} =>
            Entries' \subseteq before'[c]
      BY <2>1, <3>1, WatchedStep DEF Watched
    <3>3. ASSUME req'[c].op = "CREATE", pc'[c] \in Creating
          PROVE  \A e \in Entries' : e.dir = walk'[c].dir => e.name # req'[c].name
      <4>1. CASE CreateAct(c)
        <5>1. IsFree(obj[c])
          BY <3>3, <4>1, SeenFacts DEF CreateAct, Reply, Goto, Creating
        <5> QED
          BY <3>1, <4>1, <5>1, FreeName
      <4>2. CASE pc[c] \in Creating /\ UNCHANGED <<req, walk>>
        BY <3>1, <3>3, <4>2 DEF Watched
      <4> QED
        BY <2>1, <3>3, <4>1, <4>2, WatchedStep
    <3> QED
      BY <3>2, <3>3 DEF Watched
  <2> QED
    BY <2>2, <2>3
<1> QED
  BY <1>1, <1>2

\* A session that is alone never gives a directory a second entry of a name with
\* FUSE create, from an empty Redis server on.
THEOREM CreatesNewNames ==
  ASSUME OneSession, Garbage = {}
  PROVE  ColdSpec => CreateAddsNewName
<1>0. [Next]_vars => [DefinedNext]_vars
  BY DefinedOnly
<1> DEFINE Inv == SoloInv /\ (created => \A c \in Clients : Watched(c))
<1>1. ColdInit => Inv
  BY InitSolo DEF ColdInit
<1>2. ASSUME Inv, [DefinedNext]_vars PROVE Inv'
  <2>1. SoloInv'
    BY <1>2, NextSolo
  <2>2. CASE created
    BY <1>2, <2>1, <2>2, NextWatched DEF SoloInv
  <2>3. CASE ~ created
    <3> SUFFICES ASSUME created', NEW c \in Clients PROVE Watched(c)'
      BY <2>1
    <3>1. BootSetCreated(c)
      <4>1. DefinedNext /\ BootPhase(c)
        BY <1>2, <2>3 DEF vars, store, SoloInv
      <4>2. Connect(c) \/ Crash(c) \/ Request(c) \/ Step(c)
        BY <4>1 DEF DefinedNext, OneSession
      <4>3. ~ BootSetCreated(c) => created' = created \/ created' = FALSE
        BY <4>2, StoreOnly, <1>2
        DEF Step, Boot, BootExists, BootFlushall, BootMakeRoot, BootSetCount, store, SoloInv,
            TypeIInv, Create, GetId, IncrId, LinkEntry, WriteInfo
      <4> QED
        BY <2>3, <4>3
    <3>2. pc'[c] = "ready"
      BY <1>2, <3>1 DEF BootSetCreated, Goto, SoloInv, TypeIInv, TypeInv, TypeOK, SessionType
    <3> QED
      BY <3>2 DEF Watched, Searching, Creating
  <2> QED
    BY <2>2, <2>3
<1>3. Inv /\ [DefinedNext]_vars =>
        [\A c \in Clients :
           pc[c] = "info" /\ req[c].op = "CREATE" /\ pc'[c] = "reply" =>
             \A e \in Entries : e.dir = walk[c].dir => e.name # req[c].name]_vars
  <2> SUFFICES ASSUME Inv, NEW c \in Clients, pc[c] = "info", req[c].op = "CREATE"
               PROVE  \A e \in Entries : e.dir = walk[c].dir => e.name # req[c].name
    OBVIOUS
  <2>1. created
    BY DEF SoloInv, BootPhase, Booting
  <2> QED
    BY <2>1 DEF Watched, Creating
<1> QED
  BY <1>1, <1>2, <1>3, <1>0, PTL DEF ColdSpec, CreateAddsNewName

=============================================================================
