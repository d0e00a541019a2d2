---------------------------- MODULE VfsDirProofs ----------------------------
(***************************************************************************)
(* The tree of folders of a built database, for any sessions, names, paths *)
(* and commands but those that read unwritten memory (Garbage = {}): ids   *)
(* are fresh, parents are older than their children and the directories    *)
(* that sessions hold exist.                                               *)
(***************************************************************************)
EXTENDS VfsProofs

Dirs == DOMAIN dirInfo

Booting == {"flushall", "mkroot", "setcount", "setcreated"}

\* While a session is here it searches, or creates in, the directory walk.dir.
InDir == Searching \cup {"dirparent", "act", "getid", "incr", "link", "info"}

\* The keys: the root is there, a parent exists and is older than its child,
\* and every id that is listed or has a hash is below the counter.
TreeShape ==
  /\ created /\ count \in Nat /\ count >= 1
  /\ Root \in Dirs
  /\ \A d \in Dirs : dirInfo[d].parent \in Dirs
  /\ ParentBelowChild
  /\ CountAboveIds

\* The directories and the id a session holds.
CwdHeld(c) ==
  pc[c] \notin {"off", "segv"} =>
    cwd[c].id \in Dirs /\ (cwd[c].id # Root => cwd[c].parentId \in Dirs)

WalkHeld(c) ==
  /\ pc[c] \in InDir => walk[c].dir \in Dirs
  /\ pc[c] = "dirs" /\ walk[c].hit # NotFound => walk[c].hit \in Dirs

ObjHeld(c) ==
  /\ pc[c] = "dirparent" => obj[c].id \in Dirs
  /\ pc[c] = "act" /\ obj[c].isDir =>
       obj[c].id \in Dirs /\ (obj[c].id # Root => obj[c].parentId \in Dirs)

\* The id of a creation is above its directory, and below the counter once the
\* counter is incremented.
NewHeld(c) ==
  /\ pc[c] \in {"incr", "link", "info"} =>
       new[c] \in Nat /\ walk[c].dir < new[c] /\ new[c] <= count
  /\ pc[c] \in {"link", "info"} => new[c] < count

Held(c) ==
  pc[c] \notin Booting /\ CwdHeld(c) /\ WalkHeld(c) /\ ObjHeld(c) /\ NewHeld(c)

\* A database that is built is not built again, so no session is in the middle
\* of the bootstrap; the rest is what each step relies on.
DirInv == TypeIInv /\ TreeShape /\ \A c \in Clients : Held(c)

-----------------------------------------------------------------------------
\* A session changes only its own variables.
LEMMA OwnStep ==
  ASSUME TypeIInv, NEW c \in Clients, NEW d \in Clients \ {c},
         Connect(c) \/ Crash(c) \/ Request(c) \/ Step(c)
  PROVE  /\ pc'[d] = pc[d] /\ cwd'[d] = cwd[d] /\ walk'[d] = walk[d]
         /\ obj'[d] = obj[d] /\ new'[d] = new[d]
<1>1. /\ DOMAIN pc = Clients /\ DOMAIN cwd = Clients /\ DOMAIN walk = Clients
      /\ DOMAIN obj = Clients /\ DOMAIN new = Clients
  BY DEF TypeIInv, TypeInv, TypeOK, SessionType
<1> USE <1>1 DEF Goto, SetWalk, SetObj
<1>2. CASE Connect(c)
  BY <1>2 DEF Connect
<1>3. CASE Crash(c) \/ Respond(c)
  BY <1>3 DEF Crash, Respond, Idle
<1>4. CASE Request(c)
  <2>1. CASE CreateRequest(c) \/ ListRequest(c) \/ PwdRequest(c)
    BY <2>1 DEF CreateRequest, ListRequest, PwdRequest, Begin
  <2>2. CASE PathRequest(c)
    BY <2>2 DEF PathRequest, Begin
  <2>3. CASE CdupRequest(c)
    BY <2>3 DEF CdupRequest, Segfault, Idle
  <2> QED
    BY <1>4, <2>1, <2>2, <2>3 DEF Request
<1>5. CASE Boot(c)
  BY <1>5 DEF Boot, BootExists, BootFlushall, BootMakeRoot, BootSetCount, BootSetCreated
<1>6. CASE Create(c)
  BY <1>6 DEF Create, GetId, IncrId, LinkEntry, WriteInfo
<1>7. CASE ParsePath(c)
  BY <1>7 DEF ParsePath, ReadWalkParent, FindFiles, ReadFileName, FoundFile, FindDot,
              FindDotDot, FindFolders, ReadFolderName, FoundFolder, NothingFound,
              ReadDirParent, Enter, ParseFails, Segfault, Idle
<1>8. CASE Act(c)
  BY <1>8 DEF Act, CwdAct, QueryAct, DeleteAct, MvFirst, MvDone, CreateAct, Reply
<1>9. CASE List(c) \/ Pwd(c)
  BY <1>9 DEF List, ListFolders, ListFolderName, ListFiles, ListFileName, ListDone,
              Reply, Pwd, PwdName, PwdParent, Segfault, Idle
<1> QED
  BY <1>2, <1>3, <1>4, <1>5, <1>6, <1>7, <1>8, <1>9 DEF Step

\* What another session holds it still holds when folders are added and the
\* counter grows.
LEMMA HeldKept ==
  ASSUME DirInv, NEW d \in Clients, Dirs \subseteq Dirs', count' \in Nat, count <= count',
         pc'[d] = pc[d], cwd'[d] = cwd[d], walk'[d] = walk[d], obj'[d] = obj[d],
         new'[d] = new[d]
  PROVE  Held(d)'
<1>1. count \in Nat /\ (new[d] <= count => new[d] <= count' \/ new[d] \notin Nat)
      /\ (new[d] < count => new[d] < count' \/ new[d] \notin Nat)
  BY DEF DirInv, TreeShape
<1>2. Held(d)
  BY DEF DirInv
<1>3. CwdHeld(d)' /\ WalkHeld(d)' /\ ObjHeld(d)'
  BY <1>2 DEF Held, CwdHeld, WalkHeld, ObjHeld
<1>4. NewHeld(d)'
  BY <1>1, <1>2 DEF Held, NewHeld
<1> QED
  BY <1>2, <1>3, <1>4 DEF Held
LEMMA TreeShapeKept ==
  ASSUME DirInv, UNCHANGED store
  PROVE  TreeShape' /\ Dirs' = Dirs /\ count' = count
BY DEF DirInv, TreeShape, ParentBelowChild, CountAboveIds, Dirs, store

-----------------------------------------------------------------------------
(* What a step does to what its own session holds.                          *)

\* A step after which the session holds no directory but its cwd.
LEMMA HeldLeave ==
  ASSUME DirInv, NEW c \in Clients, NEW l \in Labels \ (InDir \cup Booting),
         Goto(c, l), UNCHANGED <<store, cwd>>, pc[c] \notin {"off", "segv"} \/ l \in {"off", "segv"}
  PROVE  Held(c)'
<1>1. pc'[c] = l /\ Dirs' = Dirs
  BY DEF DirInv, TypeIInv, TypeInv, TypeOK, SessionType, Goto, Dirs, store
<1>2. CwdHeld(c)
  BY DEF DirInv, Held
<1> QED
  BY <1>1, <1>2 DEF Held, CwdHeld, WalkHeld, ObjHeld, NewHeld, InDir, Searching

LEMMA HeldSegfault ==
  ASSUME DirInv, NEW c \in Clients, Segfault(c)
  PROVE  Held(c)'
BY HeldLeave DEF Segfault, Labels, InDir, Searching, Booting

\* A step that searches on, in a directory that exists.
LEMMA HeldSearch ==
  ASSUME DirInv, NEW c \in Clients, NEW l \in Searching \ {"dirs"}, NEW w \in WalkType,
         pc' = [pc EXCEPT ![c] = l], walk' = [walk EXCEPT ![c] = w], w.dir \in Dirs,
         UNCHANGED <<store, cwd>>, pc[c] \notin {"off", "segv"}
  PROVE  Held(c)'
<1>1. pc'[c] = l /\ walk'[c] = w /\ Dirs' = Dirs
  BY DEF DirInv, TypeIInv, TypeInv, TypeOK, SessionType, Dirs, store
<1>2. CwdHeld(c)
  BY DEF DirInv, Held
<1> QED
  BY <1>1, <1>2 DEF Held, CwdHeld, WalkHeld, ObjHeld, NewHeld, InDir, Searching, Booting

\* A step that ends the search, in a directory that exists.
LEMMA HeldAct ==
  ASSUME DirInv, NEW c \in Clients, NEW w \in WalkType, NEW o \in ObjType,
         pc' = [pc EXCEPT ![c] = "act"], walk' = [walk EXCEPT ![c] = w], w.dir \in Dirs,
         obj' = [obj EXCEPT ![c] = o],
         o.isDir => o.id \in Dirs /\ (o.id # Root => o.parentId \in Dirs),
         UNCHANGED <<store, cwd>>, pc[c] \notin {"off", "segv"}
  PROVE  Held(c)'
<1>1. pc'[c] = "act" /\ walk'[c] = w /\ obj'[c] = o /\ Dirs' = Dirs
  BY DEF DirInv, TypeIInv, TypeInv, TypeOK, SessionType, Dirs, store
<1>2. CwdHeld(c)
  BY DEF DirInv, Held
<1> QED
  BY <1>1, <1>2 DEF Held, CwdHeld, WalkHeld, ObjHeld, NewHeld, InDir, Searching, Booting

LEMMA RootHeld ==
  ASSUME DirInv
  PROVE  LET o == [InitObj EXCEPT !.id = Root, !.parentId = NoRootParent, !.isDir = TRUE]
         IN  /\ o \in ObjType /\ o.id = Root
             /\ NoWalk \in WalkType /\ NoWalk.dir = Root /\ Root \in Dirs
BY InitialLocals, RootObj DEF InitObj, NoWalk, DirInv, TreeShape

LEMMA StartHeld ==
  ASSUME DirInv, NEW c \in Clients, pc[c] \notin {"off", "segv"},
         NEW p \in [abs : BOOLEAN, comps : Seq(Names)]
  PROVE  StartWalk(c, p) \in WalkType /\ StartWalk(c, p).dir \in Dirs
<1> DEFINE d == IF p.abs THEN Root ELSE cwd[c].id
<1>1. d \in Dirs /\ d \in IdsOrNone
  BY DEF DirInv, TreeShape, Held, CwdHeld, TypeIInv, TypeInv, TypeOK, StoreType, Dirs, IdsOrNone
<1>2. StartWalk(c, p) = [NoWalk EXCEPT !.dir = d, !.comps = p.comps]
  BY DEF StartWalk
<1> HIDE DEF d
<1> QED
  BY <1>1, <1>2, InitialLocals DEF WalkType

LEMMA LabelSearches ==
  ASSUME NEW s
  PROVE  WalkLabel(s) \in Searching \ {"dirs"}
BY DEF WalkLabel, Searching

LEMMA HeldFails ==
  ASSUME DirInv, NEW c \in Clients, ParseFails(c), pc[c] \in Searching, UNCHANGED <<store, cwd>>
  PROVE  Held(c)'
<1> DEFINE o == [obj[c] EXCEPT !.rc = -1]
<1>1. obj[c] \in ObjType /\ walk[c] \in WalkType /\ walk[c].dir \in Dirs
  BY DEF DirInv, TypeIInv, TypeInv, TypeOK, SessionType, Held, WalkHeld, InDir
<1>2. o \in ObjType /\ ~o.isDir
  BY <1>1 DEF DirInv, TypeIInv, Parsed, ObjType
<1>3. /\ pc' = [pc EXCEPT ![c] = "act"] /\ obj' = [obj EXCEPT ![c] = o]
      /\ walk' = [walk EXCEPT ![c] = walk[c]]
  BY DEF ParseFails, Goto, SetObj, SetWalk
<1> HIDE DEF o
<1> QED
  BY <1>1, <1>2, <1>3, HeldAct DEF Searching

LEMMA HeldEnter ==
  ASSUME DirInv, NEW c \in Clients, NEW d \in Dirs, Enter(c, d), pc[c] \in Searching,
         UNCHANGED <<store, cwd>>
  PROVE  Held(c)'
<1>1. /\ walk[c] \in WalkType /\ walk[c].dir \in Dirs /\ walk[c].comps # << >>
      /\ obj[c] \in ObjType /\ walk[c].comps \in Seq(Names)
  BY DEF DirInv, TypeIInv, TypeInv, TypeOK, SessionType, WalkShape, Held, WalkHeld, InDir,
         Searching, Walking, WalkType
<1>2. CASE IsLast(c)
  <2> DEFINE o == [obj[c] EXCEPT !.id = d, !.isDir = TRUE]
  <2>a. o.id = d
    BY <1>1 DEF ObjType
  <2>b. /\ pc' = [pc EXCEPT ![c] = "dirparent"] /\ walk' = [walk EXCEPT ![c] = walk[c]]
        /\ obj' = [obj EXCEPT ![c] = o]
    BY <1>2 DEF Enter, SetObj, SetWalk, Goto
  <2> HIDE DEF o
  <2>1. /\ pc'[c] = "dirparent" /\ walk'[c] = walk[c] /\ obj'[c].id = d /\ Dirs' = Dirs
        /\ cwd'[c] = cwd[c]
    BY <2>a, <2>b DEF DirInv, TypeIInv, TypeInv, TypeOK, SessionType, Dirs, store
  <2>2. CwdHeld(c)
    BY DEF DirInv, Held
  <2> QED
    BY <1>1, <2>1, <2>2
    DEF Held, CwdHeld, WalkHeld, ObjHeld, NewHeld, InDir, Searching, Booting
<1>3. CASE ~IsLast(c)
  <2> DEFINE t == Tail(walk[c].comps)
             w == [walk[c] EXCEPT !.dir = d, !.comps = t, !.todo = << >>, !.hit = NotFound]
  <2>1. t \in Seq(Names) /\ d \in IdsOrNone /\ NotFound \in IdsOrNone
    BY <1>1, HeadTailProperties, InitialLocals
    DEF DirInv, TypeIInv, TypeInv, TypeOK, StoreType, Dirs, IdsOrNone
  <2>2. /\ pc' = [pc EXCEPT ![c] = WalkLabel(t)] /\ walk' = [walk EXCEPT ![c] = w]
    BY <1>3 DEF Enter, SetWalk, Goto
  <2> HIDE DEF t
  <2>3. w \in WalkType /\ w.dir = d
    <3>1. << >> \in Seq(IdsOrNone)
      OBVIOUS
    <3> QED
      BY <1>1, <2>1, <3>1 DEF WalkType
  <2> HIDE DEF w
  <2>4. WalkLabel(t) \in Searching \ {"dirs"}
    BY LabelSearches
  <2>5. pc[c] \notin {"off", "segv"}
    BY DEF Searching
  <2> QED
    BY <2>2, <2>3, <2>4, <2>5, HeldSearch
<1> QED
  BY <1>2, <1>3

LEMMA RequestHeld ==
  ASSUME DirInv, NEW c \in Clients, Request(c)
  PROVE  Held(c)'
<1>1. UNCHANGED store
  BY StoreOnly DEF DirInv, TypeIInv
<1>2. CASE CreateRequest(c)
  <2>1. /\ pc[c] = "ready" /\ Goto(c, "getid") /\ cwd' = cwd
        /\ walk' = [walk EXCEPT ![c] = [NoWalk EXCEPT !.dir = cwd[c].id]]
    BY <1>2 DEF CreateRequest, Begin
  <2>2. [NoWalk EXCEPT !.dir = cwd[c].id].dir = cwd[c].id
    BY DEF NoWalk
  <2>3. cwd[c].id \in Dirs /\ CwdHeld(c)
    BY <2>1 DEF DirInv, Held, CwdHeld
  <2>4. pc'[c] = "getid" /\ walk'[c].dir \in Dirs /\ Dirs' = Dirs
    BY <1>1, <2>1, <2>2, <2>3
    DEF Goto, DirInv, TypeIInv, TypeInv, TypeOK, SessionType, Dirs, store
  <2> QED
    BY <2>1, <2>3, <2>4
    DEF Held, CwdHeld, WalkHeld, ObjHeld, NewHeld, InDir, Searching, Booting
<1>3. CASE PathRequest(c)
  <2>1. PICK p \in Paths :
          /\ pc[c] = "ready" /\ cwd' = cwd
          /\ IF p.comps = << >>
             THEN /\ obj' = [obj EXCEPT ![c] = [InitObj EXCEPT
                         !.id = Root, !.parentId = NoRootParent, !.isDir = TRUE]]
                  /\ walk' = [walk EXCEPT ![c] = NoWalk]
                  /\ Goto(c, "act")
             ELSE /\ obj' = [obj EXCEPT ![c] = InitObj]
                  /\ walk' = [walk EXCEPT ![c] = StartWalk(c, p)]
                  /\ Goto(c, WalkLabel(p.comps))
    BY <1>3 DEF PathRequest, Begin
  <2>2. p \in [abs : BOOLEAN, comps : Seq(Names)]
    BY PathsAssumption DEF PathsAssumption
  <2>3. CASE p.comps = << >>
    <3> DEFINE o == [InitObj EXCEPT !.id = Root, !.parentId = NoRootParent, !.isDir = TRUE]
    <3>1. /\ pc' = [pc EXCEPT ![c] = "act"] /\ walk' = [walk EXCEPT ![c] = NoWalk]
          /\ obj' = [obj EXCEPT ![c] = o] /\ UNCHANGED <<store, cwd>>
          /\ pc[c] \notin {"off", "segv"}
      BY <1>1, <2>1, <2>3 DEF Goto
    <3>2. /\ o \in ObjType /\ o.id = Root
          /\ NoWalk \in WalkType /\ NoWalk.dir \in Dirs /\ Root \in Dirs
      BY RootHeld
    <3> HIDE DEF o
    <3> QED
      BY <3>1, <3>2, HeldAct
  <2>4. CASE p.comps # << >>
    <3> DEFINE w == StartWalk(c, p)
               l == WalkLabel(p.comps)
    <3>1. pc' = [pc EXCEPT ![c] = l] /\ walk' = [walk EXCEPT ![c] = w]
      BY <2>1, <2>4 DEF Goto
    <3>2. w \in WalkType /\ w.dir \in Dirs /\ l \in Searching \ {"dirs"}
      BY <2>1, <2>2, StartHeld, LabelSearches
    <3> HIDE DEF w, l
    <3> QED
      BY <1>1, <2>1, <3>1, <3>2, HeldSearch
  <2> QED
    BY <2>3, <2>4
<1>4. CASE ListRequest(c) \/ PwdRequest(c)
  <2>1. /\ pc[c] = "ready" /\ cwd' = cwd
        /\ \E l \in {"lsdirs", "reply", "pwdname"} : Goto(c, l)
    BY <1>4 DEF ListRequest, PwdRequest, Begin
  <2> QED
    BY <1>1, <2>1, HeldLeave DEF Labels, InDir, Searching, Booting
<1>5. CASE CdupRequest(c)
  <2>1. CASE cwd[c].parentId \in Dirs
    <3>1. /\ pc[c] = "ready" /\ pc' = pc /\ Dirs' = Dirs
          /\ cwd'[c] = [id |-> cwd[c].parentId, parentId |-> dirInfo[cwd[c].parentId].parent]
      BY <1>1, <1>5, <2>1
      DEF CdupRequest, Dirs, store, DirInv, TypeIInv, TypeInv, TypeOK, SessionType
    <3>2. dirInfo[cwd[c].parentId].parent \in Dirs
      BY <2>1 DEF DirInv, TreeShape
    <3> QED
      BY <2>1, <3>1, <3>2
      DEF Held, CwdHeld, WalkHeld, ObjHeld, NewHeld, InDir, Searching, Booting
  <2>2. CASE cwd[c].parentId \notin Dirs
    BY <1>5, <2>2, HeldSegfault DEF CdupRequest, Dirs
  <2> QED
    BY <2>1, <2>2
<1> QED
  BY <1>2, <1>3, <1>4, <1>5 DEF Request

LEMMA WalkKept ==
  ASSUME DirInv, NEW c \in Clients, ParsePath(c)
  PROVE  Held(c)'
<1>1. UNCHANGED store
  BY StoreOnly DEF DirInv, TypeIInv
<1>2. /\ walk[c] \in WalkType /\ obj[c] \in ObjType
      /\ Held(c) /\ Parsed /\ walk \in [Clients -> WalkType]
      /\ pc \in [Clients -> Labels] /\ obj \in [Clients -> ObjType]
      /\ \A d \in Dirs : dirInfo[d].parent \in Dirs
  BY DEF DirInv, TreeShape, TypeIInv, TypeInv, TypeOK, SessionType
<1>3. Dirs' = Dirs
  BY <1>1 DEF Dirs, store
<1> USE <1>2, <1>3
<1>4. CASE ReadWalkParent(c)
  <2>1. CASE walk[c].dir \notin Dirs
    BY <1>4, <2>1, HeldSegfault DEF ReadWalkParent, Dirs
  <2>2. CASE walk[c].dir \in Dirs /\ Component(c) = Empty
    BY <1>1, <1>4, <2>2, HeldFails DEF ReadWalkParent, Dirs, Searching
  <2>3. CASE walk[c].dir \in Dirs /\ Component(c) # Empty
    BY <1>4, <2>3 DEF ReadWalkParent, Dirs, Goto, Held, CwdHeld, WalkHeld, ObjHeld, NewHeld,
                      InDir, Searching, Booting
  <2> QED
    BY <2>1, <2>2, <2>3
<1>5. CASE FindFiles(c)
  <2>1. /\ pc[c] = "lsfiles" /\ pc'[c] = "files" /\ walk'[c].dir = walk[c].dir /\ cwd' = cwd
    BY <1>5 DEF FindFiles, SetWalk, Goto, WalkType
  <2> QED
    BY <2>1 DEF Held, CwdHeld, WalkHeld, ObjHeld, NewHeld, InDir, Searching, Booting
<1>6. CASE ReadFileName(c)
  <2>1. /\ pc[c] = "files" /\ pc'[c] = "files" /\ walk'[c].dir = walk[c].dir /\ cwd' = cwd
    BY <1>6 DEF ReadFileName, SetWalk, WalkType
  <2> QED
    BY <2>1 DEF Held, CwdHeld, WalkHeld, ObjHeld, NewHeld, InDir, Searching, Booting
<1>7. CASE FoundFile(c)
  <2>1. CASE IsLast(c)
    <3> DEFINE o == [obj[c] EXCEPT !.id = walk[c].hit, !.isFile = TRUE,
                                   !.parentId = walk[c].dir]
    <3>1. /\ pc[c] = "files" /\ pc'[c] = "act" /\ obj'[c] = o /\ walk'[c] = walk[c] /\ cwd' = cwd
      BY <1>7, <2>1 DEF FoundFile, SetObj, SetWalk, Goto
    <3>2. ~o.isDir
      BY <3>1 DEF Parsed, Searching, ObjType
    <3> HIDE DEF o
    <3> QED
      BY <3>1, <3>2 DEF Held, CwdHeld, WalkHeld, ObjHeld, NewHeld, InDir, Searching, Booting
  <2>2. CASE ~IsLast(c)
    BY <1>1, <1>7, <2>2, HeldFails DEF FoundFile, Searching
  <2> QED
    BY <2>1, <2>2
<1>8. CASE FindDot(c)
  <2>1. walk[c].dir \in Dirs
    BY <1>8 DEF FindDot, NoFile, Held, WalkHeld, InDir, Searching
  <2> QED
    BY <1>1, <1>8, <2>1, HeldEnter DEF FindDot, NoFile, Searching
<1>9. CASE FindDotDot(c)
  BY <1>1, <1>9, HeldEnter, HeldSegfault DEF FindDotDot, NoFile, Searching, Dirs
<1>10. CASE FindFolders(c)
  <2>1. /\ pc[c] = "files" /\ pc'[c] = "dirs" /\ walk'[c].dir = walk[c].dir /\ cwd' = cwd
        /\ walk'[c].hit = NotFound
    BY <1>10 DEF FindFolders, NoFile, SetWalk, Goto, WalkType
  <2> QED
    BY <2>1 DEF Held, CwdHeld, WalkHeld, ObjHeld, NewHeld, InDir, Searching, Booting
<1>11. CASE ReadFolderName(c)
  <2> DEFINE id == Head(walk[c].todo)
  <2>1. /\ pc[c] = "dirs" /\ pc'[c] = "dirs" /\ walk'[c].dir = walk[c].dir /\ cwd' = cwd
        /\ walk'[c].hit = IF FolderMatches(Component(c), id) THEN id ELSE walk[c].hit
    BY <1>11 DEF ReadFolderName, SetWalk, WalkType
  <2> QED
    BY <2>1 DEF FolderMatches, Held, CwdHeld, WalkHeld, ObjHeld, NewHeld, InDir, Searching,
                Booting, Dirs
<1>12. CASE FoundFolder(c)
  <2>1. walk[c].hit \in Dirs
    BY <1>12 DEF FoundFolder, Held, WalkHeld
  <2> QED
    BY <1>1, <1>12, <2>1, HeldEnter DEF FoundFolder, Searching
<1>13. CASE NothingFound(c)
  <2>1. CASE IsLast(c)
    <3> DEFINE o == [obj[c] EXCEPT !.exists = FALSE, !.parentId = walk[c].dir]
    <3>1. /\ pc[c] = "dirs" /\ pc'[c] = "act" /\ obj'[c] = o /\ walk'[c] = walk[c] /\ cwd' = cwd
      BY <1>13, <2>1 DEF NothingFound, SetObj, SetWalk, Goto
    <3>2. ~o.isDir
      BY <3>1 DEF Parsed, Searching, ObjType
    <3> HIDE DEF o
    <3> QED
      BY <3>1, <3>2 DEF Held, CwdHeld, WalkHeld, ObjHeld, NewHeld, InDir, Searching, Booting
  <2>2. CASE ~IsLast(c)
    BY <1>1, <1>13, <2>2, HeldFails DEF NothingFound, Searching
  <2> QED
    BY <2>1, <2>2
<1>14. CASE ReadDirParent(c)
  <2>1. CASE obj[c].id \notin Dirs
    BY <1>14, <2>1, HeldSegfault DEF ReadDirParent, Dirs
  <2>2. CASE obj[c].id \in Dirs
    <3> DEFINE o == [obj[c] EXCEPT !.parentId = dirInfo[obj[c].id].parent]
    <3>1. /\ pc[c] = "dirparent" /\ pc'[c] = "act" /\ obj'[c] = o /\ walk' = walk /\ cwd' = cwd
      BY <1>14, <2>2 DEF ReadDirParent, ParentRead, SetObj, Goto, Dirs
    <3>2. o.id \in Dirs /\ o.parentId \in Dirs
      BY <2>2 DEF ObjType
    <3> HIDE DEF o
    <3> QED
      BY <3>1, <3>2 DEF Held, CwdHeld, WalkHeld, ObjHeld, NewHeld, InDir, Searching, Booting
  <2> QED
    BY <2>1, <2>2
<1> QED
  BY <1>4, <1>5, <1>6, <1>7, <1>8, <1>9, <1>10, <1>11, <1>12, <1>13, <1>14 DEF ParsePath
LEMMA ActHeld ==
  ASSUME DirInv, NEW c \in Clients, Act(c)
  PROVE  Held(c)'
<1>1. UNCHANGED store
  BY StoreOnly DEF DirInv, TypeIInv
<1>2. /\ req[c] \in ReqType /\ Held(c) /\ walk \in [Clients -> WalkType]
      /\ cwd \in [Clients -> [id : IdsOrNone, parentId : IdsOrNone]]
      /\ pc \in [Clients -> Labels]
  BY DEF DirInv, TypeIInv, TypeInv, TypeOK, SessionType
<1>3. Dirs' = Dirs
  BY <1>1 DEF Dirs, store
<1>4. "reply" \in Labels \ (InDir \cup Booting)
  BY DEF Labels, InDir, Searching, Booting
<1>5. CASE CwdAct(c)
  <2>1. /\ pc[c] = "act" /\ pc'[c] = "reply"
        /\ \/ cwd'[c] = cwd[c]
           \/ obj[c].isDir /\ cwd'[c] = [id |-> obj[c].id, parentId |-> obj[c].parentId]
    BY <1>2, <1>5 DEF CwdAct, IsDirectory, Reply, Goto
  <2> QED
    BY <1>2, <1>3, <2>1 DEF Held, CwdHeld, WalkHeld, ObjHeld, NewHeld, InDir, Searching, Booting
<1>6. CASE QueryAct(c) \/ DeleteAct(c) \/ MvDone(c)
  <2>1. pc[c] = "act" /\ cwd' = cwd /\ Goto(c, "reply")
    BY <1>6 DEF QueryAct, DeleteAct, MvDone, Reply
  <2> QED
    BY <1>1, <1>4, <2>1, HeldLeave
<1>7. CASE MvFirst(c)
  <2> DEFINE p == req[c].path2
  <2>1. p \in [abs : BOOLEAN, comps : Seq(Names)] /\ pc[c] = "act" /\ cwd' = cwd
    BY <1>2, <1>7 DEF ReqType, MvFirst
  <2>2. CASE p.comps = << >>
    <3> DEFINE o == [InitObj EXCEPT !.id = Root, !.parentId = NoRootParent, !.isDir = TRUE]
    <3>1. /\ pc' = [pc EXCEPT ![c] = "act"] /\ walk' = [walk EXCEPT ![c] = NoWalk]
          /\ obj' = [obj EXCEPT ![c] = o]
      BY <1>7, <2>2 DEF MvFirst, SetObj, SetWalk, Goto
    <3>2. /\ o \in ObjType /\ o.id = Root
          /\ NoWalk \in WalkType /\ NoWalk.dir \in Dirs /\ Root \in Dirs
      BY RootHeld
    <3>3. pc[c] \notin {"off", "segv"}
      BY <2>1
    <3> HIDE DEF o
    <3> QED
      BY <1>1, <2>1, <3>1, <3>2, <3>3, HeldAct
  <2>3. CASE p.comps # << >>
    <3> DEFINE w == StartWalk(c, p)
               l == WalkLabel(p.comps)
    <3>1. pc' = [pc EXCEPT ![c] = l] /\ walk' = [walk EXCEPT ![c] = w]
      BY <1>7, <2>3 DEF MvFirst, SetWalk, Goto
    <3>2. w \in WalkType /\ w.dir \in Dirs /\ l \in Searching \ {"dirs"}
      BY <2>1, StartHeld, LabelSearches
    <3>3. pc[c] \notin {"off", "segv"}
      BY <2>1
    <3> HIDE DEF w, l
    <3> QED
      BY <1>1, <2>1, <3>1, <3>2, <3>3, HeldSearch
  <2> QED
    BY <2>2, <2>3
<1>8. CASE CreateAct(c)
  <2>1. CASE IsFree(obj[c])
    <3>1. pc[c] = "act" /\ pc'[c] = "getid" /\ UNCHANGED <<cwd, walk>>
      BY <1>2, <1>8, <2>1 DEF CreateAct, Goto
    <3> QED
      BY <1>2, <1>3, <3>1
      DEF Held, CwdHeld, WalkHeld, ObjHeld, NewHeld, InDir, Searching, Booting
  <2>2. CASE ~IsFree(obj[c])
    <3>1. pc[c] = "act" /\ cwd' = cwd /\ Goto(c, "reply")
      BY <1>8, <2>2 DEF CreateAct, Reply
    <3> QED
      BY <1>1, <1>4, <3>1, HeldLeave
  <2> QED
    BY <2>1, <2>2
<1> QED
  BY <1>5, <1>6, <1>7, <1>8 DEF Act

LEMMA ListHeld ==
  ASSUME DirInv, NEW c \in Clients, List(c) \/ Pwd(c)
  PROVE  Held(c)'
<1>1. UNCHANGED store
  BY StoreOnly DEF DirInv, TypeIInv
<1>2. CASE Segfault(c)
  BY <1>2, HeldSegfault
<1>3. CASE pc' = pc /\ cwd' = cwd /\ pc[c] \in {"lsdirnames", "lsfilenames"}
  <2>1. Dirs' = Dirs /\ CwdHeld(c)
    BY <1>1 DEF Dirs, store, DirInv, Held
  <2> QED
    BY <1>3, <2>1 DEF Held, CwdHeld, WalkHeld, ObjHeld, NewHeld, InDir, Searching, Booting
<1>4. ASSUME NEW l \in {"lsdirnames", "lsfilenames", "reply", "pwdparent", "pwdname"},
             Goto(c, l), cwd' = cwd, pc[c] \notin {"off", "segv"}
      PROVE  Held(c)'
  <2>1. l \in Labels \ (InDir \cup Booting)
    BY DEF Labels, InDir, Searching, Booting
  <2> QED
    BY <1>1, <1>4, <2>1, HeldLeave
<1>5. CASE List(c)
  BY <1>3, <1>4, <1>5
  DEF List, ListFolders, ListFolderName, ListFiles, ListFileName, ListDone, Reply
<1>6. CASE Pwd(c)
  BY <1>2, <1>4, <1>6 DEF Pwd, PwdName, PwdParent, Reply
<1> QED
  BY <1>5, <1>6

\* A session of a built database boots in one step.
LEMMA ConnectHeld ==
  ASSUME DirInv, NEW c \in Clients, Connect(c) \/ Crash(c) \/ Respond(c) \/ Boot(c)
  PROVE  Held(c)' /\ UNCHANGED store
<1> USE DEF Labels, InDir, Searching, Booting
<1>1. CASE Connect(c)
  <2>1. pc'[c] = "exists" /\ cwd'[c].id = Root /\ Dirs' = Dirs /\ Root \in Dirs
    BY <1>1 DEF Connect, Goto, RootCwd, Dirs, store, DirInv, TypeIInv, TypeInv, TypeOK,
                SessionType, TreeShape
  <2> QED
    BY <1>1, <2>1 DEF Connect, Held, CwdHeld, WalkHeld, ObjHeld, NewHeld
<1>2. CASE Crash(c) \/ Respond(c)
  BY <1>2, HeldLeave DEF Crash, Respond
<1>3. CASE Boot(c)
  <2>1. BootExists(c) /\ created
    BY <1>3 DEF Boot, BootFlushall, BootMakeRoot, BootSetCount, BootSetCreated,
                DirInv, Held, TreeShape
  <2>2. pc[c] = "exists" /\ Goto(c, "ready") /\ UNCHANGED <<store, cwd>>
    BY <2>1 DEF BootExists, NeedsBuild
  <2> QED
    BY <2>2, HeldLeave
<1> QED
  BY <1>1, <1>2, <1>3
-----------------------------------------------------------------------------
(* Creation.                                                                *)

Below(lists, n) == \A d \in DOMAIN lists : \A i \in DOMAIN lists[d] : lists[d][i] < n

LEMMA LpushBelow ==
  ASSUME NEW l, l \in [DOMAIN l -> Seq(IdsOrNone)], NEW n \in Nat, Below(l, n),
         NEW d, NEW id \in IdsOrNone, id < n
  PROVE  Below(Lpush(l, d, id), n)
<1> DEFINE q == ListAt(l, d)
           p == <<id>> \o q
<1>1. q \in Seq(IdsOrNone) /\ \A i \in DOMAIN q : q[i] < n
  BY ListType DEF ListAt, Below
<1>2. \A i \in DOMAIN p : p[i] < n
  <2>1. /\ <<id>> \in Seq(IdsOrNone) /\ p \in Seq(IdsOrNone) /\ Len(p) = 1 + Len(q)
        /\ \A i \in 1..Len(p) : p[i] = IF i <= 1 THEN id ELSE q[i - 1]
    BY <1>1
  <2> HIDE DEF p
  <2>2. DOMAIN p = 1..Len(p) /\ DOMAIN q = 1..Len(q) /\ Len(q) \in Nat
    BY <1>1, <2>1
  <2> HIDE DEF q
  <2>3. \A i \in 1..Len(p) : i <= 1 \/ i - 1 \in 1..Len(q)
    BY <2>1, <2>2
  <2> QED
    BY <1>1, <2>1, <2>2, <2>3
<1>3. \A x \in DOMAIN Lpush(l, d, id) :
        Lpush(l, d, id)[x] = p \/ (x \in DOMAIN l /\ Lpush(l, d, id)[x] = l[x])
  BY DEF Lpush
<1> HIDE DEF p
<1> QED
  BY <1>2, <1>3 DEF Below

LEMMA CountAboveParts ==
  CountAboveIds <=> /\ Below(folders, count) /\ Below(files, count)
                    /\ \A d \in Dirs \cup DOMAIN fileInfo : d < count
BY DEF CountAboveIds, Below, Dirs

LEMMA BelowMore ==
  ASSUME NEW l, l \in [DOMAIN l -> Seq(IdsOrNone)], NEW n \in Nat, Below(l, n)
  PROVE  Below(l, n + 1)
<1>1. \A d \in DOMAIN l : \A i \in DOMAIN l[d] : l[d][i] \in IdsOrNone
  OBVIOUS
<1> QED
  BY <1>1 DEF Below, IdsOrNone

LEMMA CreateHeld ==
  ASSUME DirInv, NEW c \in Clients, Create(c)
  PROVE  /\ TreeShape' /\ Held(c)'
         /\ Dirs \subseteq Dirs' /\ count' \in Nat /\ count <= count'
<1>1. /\ Held(c) /\ TreeShape /\ StoreType /\ new[c] \in IdsOrNone
      /\ pc \in [Clients -> Labels] /\ new \in [Clients -> IdsOrNone]
      /\ count \in Nat /\ CountAboveIds /\ count # NoKey /\ Dirs \subseteq Nat
  BY DEF DirInv, TypeIInv, TypeInv, TypeOK, StoreType, SessionType, TreeShape, NoKey, Dirs
<1>2. pc[c] \in {"getid", "incr", "link", "info"} => walk[c].dir \in Dirs
  BY <1>1 DEF Held, WalkHeld, InDir
<1>3. CASE GetId(c)
  <2>1. /\ pc[c] = "getid" /\ pc'[c] = "incr" /\ new'[c] = count
        /\ UNCHANGED <<store, cwd, walk>>
    BY <1>1, <1>3 DEF GetId, Goto
  <2>2. TreeShape' /\ Dirs' = Dirs /\ count' = count
    BY <2>1, TreeShapeKept
  <2>3. walk[c].dir < count /\ walk[c].dir \in Nat
    BY <1>1, <1>2, <2>1, CountAboveParts
  <2> QED
    BY <1>1, <2>1, <2>2, <2>3
    DEF Held, CwdHeld, WalkHeld, ObjHeld, NewHeld, InDir, Searching, Booting
<1>4. CASE IncrId(c)
  <2>1. /\ pc[c] = "incr" /\ pc'[c] = "link" /\ count' = count + 1
        /\ UNCHANGED <<created, folders, files, dirInfo, fileInfo, cwd, walk, new>>
    BY <1>1, <1>4 DEF IncrId, Goto, Incremented
  <2>2. CountAboveIds'
    <3>1. Below(folders, count + 1) /\ Below(files, count + 1)
      BY <1>1, BelowMore, CountAboveParts DEF StoreType
    <3>2. \A d \in Dirs \cup DOMAIN fileInfo : d < count + 1
      BY <1>1, CountAboveParts DEF StoreType
    <3> QED
      BY <2>1, <3>1, <3>2 DEF CountAboveIds, Below, Dirs
  <2>3. TreeShape' /\ Dirs' = Dirs
    BY <1>1, <2>1, <2>2 DEF TreeShape, ParentBelowChild, Dirs
  <2>4. new[c] < count + 1 /\ new[c] <= count + 1
    BY <1>1, <2>1 DEF Held, NewHeld
  <2> QED
    BY <1>1, <2>1, <2>3, <2>4
    DEF Held, CwdHeld, WalkHeld, ObjHeld, NewHeld, InDir, Searching, Booting
<1>5. CASE LinkEntry(c)
  <2>1. /\ pc[c] = "link" /\ pc'[c] = "info"
        /\ UNCHANGED <<created, count, dirInfo, fileInfo, cwd, walk, new>>
        /\ folders' \in {folders, Lpush(folders, walk[c].dir, new[c])}
        /\ files' \in {files, Lpush(files, walk[c].dir, new[c])}
    BY <1>1, <1>5 DEF LinkEntry, Goto, Container
  <2>2. new[c] < count
    BY <1>1, <2>1 DEF Held, NewHeld
  <2>3. Below(folders', count) /\ Below(files', count)
    BY <1>1, <2>1, <2>2, LpushBelow, CountAboveParts DEF StoreType
  <2>4. CountAboveIds'
    BY <1>1, <2>1, <2>3, CountAboveParts DEF CountAboveIds, Below, Dirs
  <2>5. TreeShape' /\ Dirs' = Dirs
    BY <1>1, <2>1, <2>4 DEF TreeShape, ParentBelowChild, Dirs
  <2> QED
    BY <1>1, <2>1, <2>5
    DEF Held, CwdHeld, WalkHeld, ObjHeld, NewHeld, InDir, Searching, Booting
<1>6. CASE WriteInfo(c)
  <2>1. /\ pc[c] = "info" /\ pc'[c] = "reply"
        /\ UNCHANGED <<created, count, folders, files, cwd, walk, new>>
        /\ \/ /\ dirInfo' = Hmset(dirInfo, new[c], DirHash(c))
              /\ fileInfo' = fileInfo
           \/ /\ fileInfo' = Hmset(fileInfo, new[c], req[c].name)
              /\ dirInfo' = dirInfo
    BY <1>1, <1>6 DEF WriteInfo, Goto
  <2>2. new[c] \in Nat /\ new[c] < count /\ walk[c].dir \in Dirs /\ walk[c].dir < new[c]
    BY <1>1, <1>2, <2>1 DEF Held, NewHeld
  <2>3. new[c] # NoKey
    BY <2>2 DEF NoKey
  <2>4. /\ Dirs' \in {Dirs, Dirs \cup {new[c]}}
        /\ DOMAIN fileInfo' \in {DOMAIN fileInfo, DOMAIN fileInfo \cup {new[c]}}
        /\ \A d \in Dirs' : \/ dirInfo'[d].parent = walk[c].dir /\ d = new[c]
                            \/ d \in Dirs /\ dirInfo'[d].parent = dirInfo[d].parent
    BY <2>1, <2>3 DEF Hmset, Dirs, DirHash
  <2>5. CountAboveIds'
    BY <1>1, <2>1, <2>2, <2>4, CountAboveParts DEF CountAboveIds, Below, Dirs
  <2>6. \A d \in Dirs' : /\ dirInfo'[d].parent \in Dirs'
                         /\ d # Root => dirInfo'[d].parent < d
    BY <1>1, <2>2, <2>4 DEF TreeShape, ParentBelowChild, Dirs
  <2>7. TreeShape' /\ Dirs \subseteq Dirs'
    <3>1. Dirs \subseteq Dirs' /\ Root \in Dirs'
      BY <1>1, <2>4 DEF TreeShape
    <3>2. ParentBelowChild'
      BY <2>6 DEF ParentBelowChild, Dirs
    <3>3. created' /\ count' \in Nat /\ count' >= 1
      BY <1>1, <2>1 DEF TreeShape
    <3> QED
      BY <2>5, <2>6, <3>1, <3>2, <3>3 DEF TreeShape
  <2>8. pc'[c] = "reply" /\ cwd' = cwd /\ pc[c] = "info" /\ count' = count
    BY <2>1
  <2>9. Held(c)'
    BY <1>1, <2>7, <2>8
    DEF Held, CwdHeld, WalkHeld, ObjHeld, NewHeld, InDir, Searching, Booting
  <2> QED
    BY <1>1, <2>7, <2>8, <2>9
<1> QED
  BY <1>3, <1>4, <1>5, <1>6 DEF Create

-----------------------------------------------------------------------------
LEMMA InitDirs == Init => DirInv
<1> SUFFICES ASSUME Init PROVE DirInv
  OBVIOUS
<1>1. TypeIInv
  BY InitType
<1>2. dirInfo = [x \in {Root} |-> RootInfo] /\ RootInfo.parent = Root /\ Root = 0
  BY DEF Init, RootInfo, Root
<1>3. TreeShape
  BY <1>2, NoKeysType DEF Init, TreeShape, ParentBelowChild, CountAboveIds, Dirs
<1>4. ASSUME NEW c \in Clients PROVE Held(c)
  BY DEF Init, SessionsOff, Held, CwdHeld, WalkHeld, ObjHeld, NewHeld, InDir, Searching, Booting
<1> QED
  BY <1>1, <1>3, <1>4 DEF DirInv

LEMMA NextDirs == DirInv /\ [DefinedNext]_vars => DirInv'
<1> SUFFICES ASSUME DirInv, [DefinedNext]_vars PROVE DirInv'
  OBVIOUS
<1>1. TypeIInv'
  BY NextType DEF DirInv
<1>2. CASE UNCHANGED vars
  <2>1. TreeShape'
    BY <1>2, TreeShapeKept DEF vars
  <2>2. ASSUME NEW c \in Clients PROVE Held(c)'
    BY <1>2 DEF vars, store, session, DirInv, Held, CwdHeld, WalkHeld, ObjHeld, NewHeld, Dirs
  <2> QED
    BY <1>1, <2>1, <2>2 DEF DirInv
<1>3. CASE DefinedNext
  <2>1. PICK c \in Clients : Connect(c) \/ Crash(c) \/ Request(c) \/ Step(c)
    BY <1>3 DEF DefinedNext
  <2>2. /\ TreeShape' /\ Held(c)'
        /\ Dirs \subseteq Dirs' /\ count' \in Nat /\ count <= count'
    <3>1. CASE Create(c)
      BY <3>1, CreateHeld
    <3>2. CASE Held(c)' /\ UNCHANGED store
      BY <3>2, TreeShapeKept DEF DirInv, TreeShape
    <3>3. CASE Connect(c) \/ Crash(c) \/ Respond(c) \/ Boot(c)
      BY <3>2, <3>3, ConnectHeld
    <3>4. CASE Request(c) \/ ParsePath(c) \/ Act(c) \/ List(c) \/ Pwd(c)
      BY <3>2, <3>4, StoreOnly, RequestHeld, WalkKept, ActHeld, ListHeld DEF DirInv, TypeIInv
    <3> QED
      BY <2>1, <3>1, <3>3, <3>4 DEF Step
  <2>3. ASSUME NEW d \in Clients PROVE Held(d)'
    <3>1. CASE d = c
      BY <2>2, <3>1
    <3>2. CASE d # c
      BY <2>1, <2>2, <3>2, OwnStep, HeldKept DEF DirInv
    <3> QED
      BY <3>1, <3>2
  <2> QED
    BY <1>1, <2>2, <2>3 DEF DirInv
<1> QED
  BY <1>2, <1>3

\* Folders form a tree that is climbed in finitely many steps: the parent of a
\* folder exists and has a smaller id, however sessions interleave and die, if
\* none of them works with unwritten memory.
THEOREM ParentsBelow ==
  ASSUME Garbage = {}
  PROVE  Spec => []ParentBelowChild
<1>0. [Next]_vars => [DefinedNext]_vars
  BY DefinedOnly
<1>1. DirInv => ParentBelowChild
  BY DEF DirInv, TreeShape
<1> QED
  BY <1>1, InitDirs, NextDirs, <1>0, PTL DEF Spec

\* The counter stays above every id that was listed or written, so the id a
\* session reads is new, unless another one read it too.  Sessions that work with
\* unwritten memory are left out.
THEOREM IdsFresh ==
  ASSUME Garbage = {}
  PROVE  Spec => []CountAboveIds
<1>0. [Next]_vars => [DefinedNext]_vars
  BY DefinedOnly
<1>1. DirInv => CountAboveIds
  BY DEF DirInv, TreeShape
<1> QED
  BY <1>1, InitDirs, NextDirs, <1>0, PTL DEF Spec

\* If no session sends CDUP at the root or a command without its parameter, the
\* two ways to an id that nobody wrote, every folder id a session works with or
\* keeps as its cwd names a folder with a hash.  Half-created entries, crashes
\* and other sessions never make reading a parent meet a NULL reply.
THEOREM HeldDirsSound ==
  ASSUME Garbage = {}
  PROVE  Spec => []HeldDirsExist
<1>0. [Next]_vars => [DefinedNext]_vars
  BY DefinedOnly
<1>1. DirInv => HeldDirsExist
  BY DEF DirInv, TypeIInv, TreeShape, Held, CwdHeld, WalkHeld, ObjHeld, InDir, Searching,
         HeldDirsExist, Dirs
<1> QED
  BY <1>1, InitDirs, NextDirs, <1>0, PTL DEF Spec
=============================================================================
