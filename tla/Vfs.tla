-------------------------------- MODULE Vfs --------------------------------
(***************************************************************************)
(* The virtual file system: a tree of folders and files kept in Redis,     *)
(* shared by every FTP session (one process each) and by the FUSE program. *)
(*                                                                         *)
(* One Redis command is atomic; an operation of the file system is several *)
(* commands, so sessions interleave between any two of them.  Every action *)
(* below is one Redis command of one session with the code that runs up to *)
(* the next command, or a step of the session that issues no command.      *)
(***************************************************************************)
EXTENDS Integers, Sequences, FiniteSets

CONSTANTS Clients,  \* the sessions
          Names,    \* file names, folder names and components of paths
          Dot,      \* the component "."
          DotDot,   \* the component ".."
          Empty,    \* the component between two adjacent slashes
          Prefix,   \* pairs <<n, m>> of Names where n is a prefix of m
          NewNames, \* the names MKD and STOR are called with
          Paths,    \* the paths the other commands are called with
          Ops,      \* the commands the sessions use
          Garbage,  \* ids that memory which was never written may hold; none: the
                    \* clients send no command that reads such memory
          MaxIds    \* bound: no creation starts that would take a larger id

NamesAssumption ==
  /\ {Dot, DotDot, Empty} \cup NewNames \subseteq Names
  /\ Prefix \subseteq Names \X Names
  /\ \A n \in Names : <<n, n>> \in Prefix /\ <<Empty, n>> \in Prefix

\* A path is absolute or relative, and its components.  The empty path is not
\* among Paths: EmptyPathRequest has it.
PathsAssumption ==
  \A p \in Paths : /\ p \in [abs : BOOLEAN, comps : Seq(Names)]
                   /\ p.abs \/ p.comps # << >>

\* Negative ids in unwritten memory are left out.
GarbageAssumption == Garbage \subseteq Nat

ASSUME NamesAssumption
ASSUME PathsAssumption
ASSUME GarbageAssumption

CreateOps == {"MKD", "STOR", "CREATE"}
PathOps   == {"CREATE", "CWD", "SIZE", "RETR", "GETATTR", "DELE", "MV"}

Root         == 0    \* ROOT_FOLDER_ID
NoRootParent == -1   \* ROOT_PARENT_ID
NotFound     == -1
NoKey        == -1   \* GET of a missing key; getNewId's result for it

VARIABLES
  created,   \* the key isVirtualFileSystemCreated exists
  count,     \* the key current_id_count, or NoKey
  folders,   \* the lists FOLDER_<id>_folders, newest first
  files,     \* the lists FOLDER_<id>_files, newest first
  dirInfo,   \* the hashes FOLDER_<id>_info: parent and name
  fileInfo,  \* the hashes FILE_<id>_info: the name
  pc,        \* what the session does next
  cwd,       \* the session's current directory: its id and cached parent id
  req,       \* the command being executed
  walk,      \* the directory being searched and the ids still to be looked at
  obj,       \* vfsPathParserState_t, the result of __vfs_parsePath
  new,       \* the id getNewId read
  reply,     \* the outcome the session reports to its client
  raced,     \* history: ids handed out while another session held them
  before     \* history: the entries of the tree when the command began

store   == <<created, count, folders, files, dirInfo, fileInfo>>
session == <<pc, cwd, req, walk, obj, new, reply>>
vars    == <<store, session, raced, before>>

-----------------------------------------------------------------------------
(* The Redis commands.  A list or hash that does not exist has no key.      *)

ListAt(lists, d) == IF d \in DOMAIN lists THEN lists[d] ELSE << >>

Lpush(lists, d, id) ==
  [x \in DOMAIN lists \cup {d} |->
     IF x = d THEN <<id>> \o ListAt(lists, d) ELSE lists[x]]

Lrem(lists, d, id) ==
  [x \in DOMAIN lists |->
     IF x = d THEN SelectSeq(lists[x], LAMBDA i : i # id) ELSE lists[x]]

\* The hash of id -1 is written under a key (2^64 - 1) that no reader asks
\* for: the id read back from a list is clamped to LONG_MAX.
Hmset(hashes, id, value) ==
  IF id = NoKey THEN hashes
  ELSE [x \in DOMAIN hashes \cup {id} |-> IF x = id THEN value ELSE hashes[x]]

NoKeys == [x \in {} |-> 0]

Matches(n, m) == <<n, m>> \in Prefix   \* strncmp(n, m, strlen(n)) == 0

\* What strtol gives for the decimal digits of n after the first one (ids of
\* at most nine digits).
Tens == {10, 100, 1000, 10000, 100000, 1000000, 10000000, 100000000}
WithoutFirstDigit(n) ==
  IF n < 10 THEN 0
  ELSE n % (CHOOSE p \in Tens : p <= n /\ \A q \in Tens : q <= n => q <= p)

\* What a reader can see of the tree: the entries whose id is listed and whose
\* hash is written, for ids handed out once.
ListedIn(lists) == {e \in (DOMAIN lists) \X (0..count) :
                      \E i \in DOMAIN lists[e[1]] : lists[e[1]][i] = e[2]}

Entries ==
  {[dir |-> e[1], kind |-> "dir", id |-> e[2], name |-> dirInfo[e[2]].name] :
     e \in {x \in ListedIn(folders) : x[2] \in DOMAIN dirInfo \ raced}}
  \cup
  {[dir |-> e[1], kind |-> "file", id |-> e[2], name |-> fileInfo[e[2]]] :
     e \in {x \in ListedIn(files) : x[2] \in DOMAIN fileInfo \ raced}}

-----------------------------------------------------------------------------
NoPath  == [abs |-> FALSE, comps |-> << >>]
NoReq   == [op |-> "none", name |-> Empty, path |-> NoPath, path2 |-> NoPath]
NoWalk  == [dir |-> Root, comps |-> << >>, todo |-> << >>, hit |-> NotFound,
            names |-> {}]
NoReply == [ok |-> TRUE, id |-> NotFound]

\* init_vfsPathParserState, with the status __vfs_parsePath returns.
InitObj == [rc |-> 0, exists |-> TRUE, isFile |-> FALSE, isDir |-> FALSE,
            id |-> NotFound, parentId |-> NotFound]

\* __private_mkdir( 0, 0, "root" ); nothing reads the name of the root.
RootInfo == [parent |-> Root, name |-> Dot]

RootCwd == [id |-> Root, parentId |-> NoRootParent]

SessionsOff ==
  /\ pc     = [c \in Clients |-> "off"]
  /\ cwd    = [c \in Clients |-> RootCwd]
  /\ req    = [c \in Clients |-> NoReq]
  /\ walk   = [c \in Clients |-> NoWalk]
  /\ obj    = [c \in Clients |-> InitObj]
  /\ new    = [c \in Clients |-> NotFound]
  /\ reply  = [c \in Clients |-> NoReply]
  /\ raced  = {}
  /\ before = [c \in Clients |-> {}]

\* A database that vfs_buildDatabase has built, before any client connects.
Init ==
  /\ created  = TRUE
  /\ count    = 1
  /\ folders  = NoKeys
  /\ files    = NoKeys
  /\ dirInfo  = [x \in {Root} |-> RootInfo]
  /\ fileInfo = NoKeys
  /\ SessionsOff

\* An empty Redis server.
ColdInit ==
  /\ created  = FALSE
  /\ count    = NoKey
  /\ folders  = NoKeys
  /\ files    = NoKeys
  /\ dirInfo  = NoKeys
  /\ fileInfo = NoKeys
  /\ SessionsOff

-----------------------------------------------------------------------------
(* Connections: ftpServer.c's main forks a process for each client.         *)

Goto(c, label) == pc' = [pc EXCEPT ![c] = label]

Connect(c) ==
  /\ pc[c] \in {"off", "segv"}
  /\ Goto(c, "exists")
  /\ cwd' = [cwd EXCEPT ![c] = RootCwd]
  /\ UNCHANGED <<store, req, walk, obj, new, reply, raced, before>>

AlwaysBuild == TRUE   \* mutant: every connection rebuilds
NeedsBuild  == ~created

\* EXISTS isVirtualFileSystemCreated
BootExists(c) ==
  /\ pc[c] = "exists"
  /\ Goto(c, IF NeedsBuild THEN "flushall" ELSE "ready")
  /\ UNCHANGED <<store, cwd, req, walk, obj, new, reply, raced, before>>

BootFlushall(c) ==
  /\ pc[c] = "flushall"
  /\ created' = FALSE
  /\ count' = NoKey
  /\ folders' = NoKeys
  /\ files' = NoKeys
  /\ dirInfo' = NoKeys
  /\ fileInfo' = NoKeys
  /\ Goto(c, "mkroot")
  /\ UNCHANGED <<cwd, req, walk, obj, new, reply, raced, before>>

\* Mutant: the flag is set before the tree is there.
BootMakeRootFlagged(c) ==
  /\ pc[c] = "mkroot"
  /\ dirInfo' = Hmset(dirInfo, Root, RootInfo)
  /\ created' = TRUE
  /\ Goto(c, "setcount")
  /\ UNCHANGED <<count, folders, files, fileInfo,
                 cwd, req, walk, obj, new, reply, raced, before>>

BootMakeRoot(c) ==
  /\ pc[c] = "mkroot"
  /\ dirInfo' = Hmset(dirInfo, Root, RootInfo)
  /\ Goto(c, "setcount")
  /\ UNCHANGED <<created, count, folders, files, fileInfo,
                 cwd, req, walk, obj, new, reply, raced, before>>

BootSetCount(c) ==
  /\ pc[c] = "setcount"
  /\ count' = 1
  /\ Goto(c, "setcreated")
  /\ UNCHANGED <<created, folders, files, dirInfo, fileInfo,
                 cwd, req, walk, obj, new, reply, raced, before>>

BootSetCreated(c) ==
  /\ pc[c] = "setcreated"
  /\ created' = TRUE
  /\ Goto(c, "ready")
  /\ UNCHANGED <<count, folders, files, dirInfo, fileInfo,
                 cwd, req, walk, obj, new, reply, raced, before>>

\* The locals of a session between two commands.
Idle(c) ==
  /\ req'    = [req EXCEPT ![c] = NoReq]
  /\ walk'   = [walk EXCEPT ![c] = NoWalk]
  /\ obj'    = [obj EXCEPT ![c] = InitObj]
  /\ new'    = [new EXCEPT ![c] = NotFound]
  /\ reply'  = [reply EXCEPT ![c] = NoReply]
  /\ before' = [before EXCEPT ![c] = {}]

\* The process ends: QUIT or end of file between two commands, or it is killed
\* in the middle of one.
Crash(c) ==
  /\ pc[c] \notin {"off", "segv"}
  /\ Goto(c, "off")
  /\ Idle(c)
  /\ UNCHANGED <<store, cwd, raced>>

\* A NULL reply is dereferenced.
Segfault(c) ==
  /\ Goto(c, "segv")
  /\ Idle(c)
  /\ UNCHANGED <<store, cwd, raced>>

-----------------------------------------------------------------------------
(* Commands of the client.                                                  *)

\* Creations that have not yet taken their id.
Pending ==
  {c \in Clients : req[c].op \in CreateOps /\ pc[c] \notin {"link", "info", "reply"}}

Room == count + Cardinality(Pending) <= MaxIds

Begin(c, r, w, label) ==
  /\ pc[c] = "ready"
  /\ r.op \in Ops
  /\ r.op \in CreateOps => Room
  /\ req' = [req EXCEPT ![c] = r]
  /\ walk' = [walk EXCEPT ![c] = w]
  /\ before' = [before EXCEPT ![c] =
                  IF r.op \in PathOps \cup {"LIST"} THEN Entries ELSE {}]
  /\ Goto(c, label)
  /\ UNCHANGED <<store, cwd, new, reply, raced>>

\* MKD, and STOR once the file is uploaded, create NewNames in the cwd; names
\* are not parsed as paths.
CreateRequest(c) ==
  \E op \in {"MKD", "STOR"}, n \in NewNames :
    /\ obj' = obj
    /\ Begin(c, [NoReq EXCEPT !.op = op, !.name = n],
             [NoWalk EXCEPT !.dir = cwd[c].id], "getid")

\* __vfs_parsePath up to its first Redis command: the special case for "/",
\* otherwise the walk starts at the root or at the cwd.  The last component
\* is searched for after the parent of its directory is read.
StartWalk(c, p) ==
  [NoWalk EXCEPT !.dir = IF p.abs THEN Root ELSE cwd[c].id, !.comps = p.comps]

WalkLabel(comps) == IF Len(comps) = 1 THEN "lookparent" ELSE "lsfiles"

PathRequest(c) ==
  \E op \in PathOps, p \in Paths, q \in Paths \cup {NoPath} :
    /\ op # "MV" => q = p
    /\ IF p.comps = << >>
       THEN /\ obj' = [obj EXCEPT ![c] = [InitObj EXCEPT
                         !.id = Root, !.parentId = NoRootParent, !.isDir = TRUE]]
            /\ Begin(c, [NoReq EXCEPT !.op = op, !.path = p, !.path2 = q],
                     NoWalk, "act")
       ELSE /\ obj' = [obj EXCEPT ![c] = InitObj]
            /\ Begin(c, [NoReq EXCEPT !.op = op, !.path = p, !.path2 = q],
                     StartWalk(c, p), WalkLabel(p.comps))

\* What a vfsPathParserState_t on the stack holds before it is initialised.
Unwritten ==
  [rc : {-1}, exists : BOOLEAN, isFile : BOOLEAN, isDir : BOOLEAN,
   id : Garbage, parentId : Garbage]

\* A command of FTP without a parameter: __vfs_parsePath returns before it
\* initialises its result, and all but RNTO use the result as it is.  RNTO after
\* RNFR, both without a parameter, is left out; with one of them empty the other
\* path decides (MvFirst, MvDone).
EmptyPathRequest(c) ==
  \E op \in PathOps \ {"CREATE", "GETATTR"}, q \in Paths \cup {NoPath},
     o \in Unwritten :
    /\ op = "MV" <=> q # NoPath
    /\ obj' = [obj EXCEPT ![c] = o]
    /\ Begin(c, [NoReq EXCEPT !.op = op, !.path2 = q], NoWalk, "act")

ListRequest(c) ==
  /\ obj' = obj
  /\ Begin(c, [NoReq EXCEPT !.op = "LIST"], [NoWalk EXCEPT !.dir = cwd[c].id],
           "lsdirs")

PwdRequest(c) ==
  /\ obj' = obj
  /\ Begin(c, [NoReq EXCEPT !.op = "PWD"], [NoWalk EXCEPT !.dir = cwd[c].id],
           IF cwd[c].id = Root THEN "reply" ELSE "pwdname")

\* vfs_getParent below the root: the cached parent becomes the cwd, and its
\* own parent is read.
CdupRequest(c) ==
  LET p == cwd[c].parentId IN
  /\ pc[c] = "ready" /\ "CDUP" \in Ops /\ cwd[c].id # Root
  /\ IF p \in DOMAIN dirInfo
     THEN /\ cwd' = [cwd EXCEPT ![c] = [id |-> p, parentId |-> dirInfo[p].parent]]
          /\ UNCHANGED <<store, pc, req, walk, obj, new, reply, raced, before>>
     ELSE Segfault(c)

\* vfs_getParent returns 0 at the root and leaves its result unset: the cwd
\* becomes whatever the stack holds.
CdupAtRoot(c) ==
  /\ pc[c] = "ready" /\ "CDUP" \in Ops /\ cwd[c].id = Root
  /\ \E id, p \in Garbage : cwd' = [cwd EXCEPT ![c] = [id |-> id, parentId |-> p]]
  /\ UNCHANGED <<store, pc, req, walk, obj, new, reply, raced, before>>

\* The response is sent and the session waits for the next command.
Respond(c) ==
  /\ pc[c] = "reply"
  /\ Goto(c, "ready")
  /\ Idle(c)
  /\ UNCHANGED <<store, cwd, raced>>

-----------------------------------------------------------------------------
(* Creation: __vfs_mkdir and __vfs_createFile, one Redis command a step.     *)

\* GET current_id_count; without the key the id is -1 and INCR is skipped.
GetId(c) ==
  /\ pc[c] = "getid"
  /\ new' = [new EXCEPT ![c] = count]
  /\ Goto(c, IF count = NoKey THEN "link" ELSE "incr")
  /\ raced' = raced \cup
       {i \in {count} : \E d \in Clients \ {c} : pc[d] = "incr" /\ new[d] = i}
  /\ UNCHANGED <<store, cwd, req, walk, obj, reply, before>>

NotIncremented(n) == n   \* mutant: INCR forgotten
Incremented(n)    == IF n = NoKey THEN 1 ELSE n + 1

\* INCR current_id_count; its result is not used.
IncrId(c) ==
  /\ pc[c] = "incr"
  /\ count' = Incremented(count)
  /\ Goto(c, "link")
  /\ UNCHANGED <<created, folders, files, dirInfo, fileInfo,
                 cwd, req, walk, obj, new, reply, raced, before>>

LinkInParent(c) == cwd[c].parentId   \* mutant: listed one level too high
Container(c)    == walk[c].dir

\* LPUSH of the id on the list of the containing directory.
LinkEntry(c) ==
  /\ pc[c] = "link"
  /\ IF req[c].op = "MKD"
     THEN folders' = Lpush(folders, Container(c), new[c]) /\ files' = files
     ELSE files' = Lpush(files, Container(c), new[c]) /\ folders' = folders
  /\ Goto(c, "info")
  /\ UNCHANGED <<created, count, dirInfo, fileInfo,
                 cwd, req, walk, obj, new, reply, raced, before>>

DirHashNoParent(c) == [name |-> req[c].name]                      \* mutant
DirHashSelf(c)     == [parent |-> new[c], name |-> req[c].name]   \* mutant
DirHash(c)         == [parent |-> walk[c].dir, name |-> req[c].name]

\* HMSET of the new entry's hash.
WriteInfo(c) ==
  /\ pc[c] = "info"
  /\ IF req[c].op = "MKD"
     THEN /\ dirInfo' = Hmset(dirInfo, new[c], DirHash(c))
          /\ fileInfo' = fileInfo
     ELSE /\ fileInfo' = Hmset(fileInfo, new[c], req[c].name)
          /\ dirInfo' = dirInfo
  /\ reply' = [reply EXCEPT ![c] = [ok |-> TRUE, id |-> new[c]]]
  /\ Goto(c, "reply")
  /\ UNCHANGED <<created, count, folders, files, cwd, req, walk, obj, new,
                 raced, before>>

-----------------------------------------------------------------------------
(* __vfs_parsePath: walk the components, __vfs_findObjectInDir at each one,  *)
(* files before folders.                                                     *)

Component(c) == Head(walk[c].comps)
IsLast(c)    == Len(walk[c].comps) = 1

\* The loop over a list goes on after an entry without a hash.
StopAtBroken(todo, hashes) ==   \* mutant
  IF Head(todo) \in DOMAIN hashes THEN Tail(todo) ELSE << >>
StayAtBroken(todo, hashes) ==   \* mutant: a continue that skips the increment
  IF Head(todo) \in DOMAIN hashes THEN Tail(todo) ELSE todo
Rest(todo, hashes) == Tail(todo)

FolderMatches(n, id) == id \in DOMAIN dirInfo /\ Matches(n, dirInfo[id].name)
FileMatches(n, id)   == id \in DOMAIN fileInfo /\ Matches(n, fileInfo[id])

SetWalk(c, w) == walk' = [walk EXCEPT ![c] = w]
SetObj(c, o)  == obj' = [obj EXCEPT ![c] = o]

\* vfs_findFileNameInDir in one go: the place in d's list of the last file that
\* matches n, 0 if none does.
FileMatchesAt(d, n) == {i \in 1..Len(ListAt(files, d)) : FileMatches(n, files[d][i])}

FirstFileAt(d, n) ==   \* mutant: the first match wins
  LET at == FileMatchesAt(d, n) IN
  IF at = {} THEN 0 ELSE CHOOSE i \in at : \A j \in at : j >= i
FileAt(d, n) ==
  LET at == FileMatchesAt(d, n) IN
  IF at = {} THEN 0 ELSE CHOOSE i \in at : \A j \in at : j <= i

FileFound(d, n) == IF FileAt(d, n) = 0 THEN NotFound ELSE files[d][FileAt(d, n)]

\* __vfs_parsePath fails; its state keeps what init_vfsPathParserState put there.
ParseFails(c) ==
  /\ SetObj(c, [obj[c] EXCEPT !.rc = -1])
  /\ SetWalk(c, walk[c])
  /\ Goto(c, "act")

\* HGET FOLDER_<dir>_info parent, before the last component is searched for.
ReadWalkParent(c) ==
  /\ pc[c] = "lookparent"
  /\ IF walk[c].dir \notin DOMAIN dirInfo THEN Segfault(c)
     ELSE /\ IF Component(c) = Empty THEN ParseFails(c)
             ELSE Goto(c, "lsfiles") /\ UNCHANGED <<obj, walk>>
          /\ UNCHANGED <<store, cwd, req, new, reply, raced, before>>

\* LRANGE FOLDER_<dir>_files
FindFiles(c) ==
  /\ pc[c] = "lsfiles"
  /\ SetWalk(c, [walk[c] EXCEPT !.todo = ListAt(files, walk[c].dir),
                                !.hit = NotFound])
  /\ Goto(c, "files")
  /\ UNCHANGED <<store, cwd, req, obj, new, reply, raced, before>>

\* HGET FILE_<id>_info name: a file without a name is skipped, the last match
\* of the list wins.
ReadFileName(c) ==
  LET id == Head(walk[c].todo) IN
  /\ pc[c] = "files" /\ walk[c].todo # << >>
  /\ SetWalk(c, [walk[c] EXCEPT
       !.todo = Rest(@, fileInfo),
       !.hit = IF FileMatches(Component(c), id) THEN id ELSE @])
  /\ UNCHANGED <<store, pc, cwd, req, obj, new, reply, raced, before>>

\* A file was found: the result if the component is the last one, an error if
\* the path goes on.
FoundFile(c) ==
  /\ pc[c] = "files"
  /\ walk[c].todo = << >> /\ walk[c].hit # NotFound
  /\ IF IsLast(c)
     THEN /\ SetObj(c, [obj[c] EXCEPT !.id = walk[c].hit, !.isFile = TRUE,
                                      !.parentId = walk[c].dir])
          /\ SetWalk(c, walk[c])
          /\ Goto(c, "act")
     ELSE ParseFails(c)
  /\ UNCHANGED <<store, cwd, req, new, reply, raced, before>>

\* The component names directory d: its parent is read if it is the last one,
\* else the walk goes on from it.
Enter(c, d) ==
  IF IsLast(c)
  THEN /\ SetObj(c, [obj[c] EXCEPT !.id = d, !.isDir = TRUE])
       /\ SetWalk(c, walk[c])
       /\ Goto(c, "dirparent")
  ELSE /\ SetWalk(c, [walk[c] EXCEPT !.dir = d, !.comps = Tail(@),
                                     !.todo = << >>, !.hit = NotFound])
       /\ Goto(c, WalkLabel(Tail(walk[c].comps)))
       /\ obj' = obj

NoFile(c) == /\ pc[c] = "files"
             /\ walk[c].todo = << >> /\ walk[c].hit = NotFound

\* vfs_findDirNameInDir on "."
FindDot(c) ==
  /\ NoFile(c) /\ Component(c) = Dot
  /\ Enter(c, walk[c].dir)
  /\ UNCHANGED <<store, cwd, req, new, reply, raced, before>>

\* vfs_findDirNameInDir on "..": HGET FOLDER_<dir>_info parent
FindDotDot(c) ==
  /\ NoFile(c) /\ Component(c) = DotDot
  /\ IF walk[c].dir \notin DOMAIN dirInfo THEN Segfault(c)
     ELSE /\ Enter(c, dirInfo[walk[c].dir].parent)
          /\ UNCHANGED <<store, cwd, req, new, reply, raced, before>>

\* LRANGE FOLDER_<dir>_folders
FindFolders(c) ==
  /\ NoFile(c) /\ Component(c) \notin {Dot, DotDot}
  /\ SetWalk(c, [walk[c] EXCEPT !.todo = ListAt(folders, walk[c].dir)])
  /\ Goto(c, "dirs")
  /\ UNCHANGED <<store, cwd, req, obj, new, reply, raced, before>>

\* HGET FOLDER_<id>_info name
ReadFolderName(c) ==
  LET id == Head(walk[c].todo) IN
  /\ pc[c] = "dirs" /\ walk[c].todo # << >>
  /\ SetWalk(c, [walk[c] EXCEPT
       !.todo = Rest(@, dirInfo),
       !.hit = IF FolderMatches(Component(c), id) THEN id ELSE @])
  /\ UNCHANGED <<store, pc, cwd, req, obj, new, reply, raced, before>>

FoundFolder(c) ==
  /\ pc[c] = "dirs"
  /\ walk[c].todo = << >> /\ walk[c].hit # NotFound
  /\ Enter(c, walk[c].hit)
  /\ UNCHANGED <<store, cwd, req, new, reply, raced, before>>

\* Nothing matches: an error unless the component is the last one.
NothingFound(c) ==
  /\ pc[c] = "dirs"
  /\ walk[c].todo = << >> /\ walk[c].hit = NotFound
  /\ IF IsLast(c)
     THEN /\ SetObj(c, [obj[c] EXCEPT !.exists = FALSE, !.parentId = walk[c].dir])
          /\ SetWalk(c, walk[c])
          /\ Goto(c, "act")
     ELSE ParseFails(c)
  /\ UNCHANGED <<store, cwd, req, new, reply, raced, before>>

ParentWalked(c) == walk[c].dir   \* mutant: the directory searched, as for a file
ParentRead(c)   == dirInfo[obj[c].id].parent

\* HGET FOLDER_<id>_info parent of the directory that was found
ReadDirParent(c) ==
  /\ pc[c] = "dirparent"
  /\ IF obj[c].id \notin DOMAIN dirInfo THEN Segfault(c)
     ELSE /\ SetObj(c, [obj[c] EXCEPT !.parentId = ParentRead(c)])
          /\ Goto(c, "act")
          /\ UNCHANGED <<store, cwd, req, walk, new, reply, raced, before>>

-----------------------------------------------------------------------------
(* What each command does with the parsed path.                             *)

Reply(c, ok, id) ==
  /\ reply' = [reply EXCEPT ![c] = [ok |-> ok, id |-> id]]
  /\ Goto(c, "reply")

Exists(o)      == o.exists   \* mutant: a file will do
IsDirectory(o) == o.exists /\ o.isDir

\* CWD: vfs_set_cwd with the parsed object.
CwdAct(c) ==
  LET ok == IsDirectory(obj[c]) IN
  /\ pc[c] = "act" /\ req[c].op = "CWD"
  /\ cwd' = IF ok THEN [cwd EXCEPT ![c] = [id |-> obj[c].id,
                                           parentId |-> obj[c].parentId]]
            ELSE cwd
  /\ Reply(c, ok, obj[c].id)
  /\ UNCHANGED <<store, req, walk, obj, new, raced, before>>

\* SIZE: HGET FILE_<id>_info size of whatever id the path gave.  RETR: its
\* apiUrl, and the download, for a file.  FUSE getattr: ENOENT unless the parser
\* says that the object exists.
Found(c) ==
  CASE req[c].op = "SIZE"    -> obj[c].id \in DOMAIN fileInfo
    [] req[c].op = "RETR"    -> obj[c].isFile
    [] req[c].op = "GETATTR" -> obj[c].exists

QueryAct(c) ==
  /\ pc[c] = "act" /\ req[c].op \in {"SIZE", "RETR", "GETATTR"}
  /\ Reply(c, Found(c), obj[c].id)
  /\ UNCHANGED <<store, cwd, req, walk, obj, new, raced, before>>

\* DELE and RMD: __vfs_deleteObjectWithPath returns when the path was parsed
\* WITHOUT error, and the reply does not depend on it.  It goes on to remove
\* something only with a result that was never initialised.
DeleteAct(c) ==
  LET goesOn == obj[c].rc # 0 /\ obj[c].exists IN
  /\ pc[c] = "act" /\ req[c].op = "DELE"
  /\ folders' = IF goesOn /\ obj[c].isDir
                THEN Lrem(folders, obj[c].parentId, obj[c].id) ELSE folders
  /\ files' = IF goesOn /\ ~obj[c].isDir /\ obj[c].isFile
              THEN Lrem(files, obj[c].parentId, obj[c].id) ELSE files
  /\ Reply(c, TRUE, obj[c].id)
  /\ UNCHANGED <<created, count, dirInfo, fileInfo,
                 cwd, req, walk, obj, new, raced, before>>

\* RNTO: __vfs_mv returns if the old path was parsed without error, and goes
\* on to parse the new one otherwise.
MvFirst(c) ==
  /\ pc[c] = "act" /\ req[c].op = "MV" /\ obj[c].rc # 0
  /\ req[c].path2.abs \/ req[c].path2.comps # << >>
  /\ req' = [req EXCEPT ![c].path2 = NoPath]
  /\ IF req[c].path2.comps = << >>
     THEN /\ SetObj(c, [InitObj EXCEPT !.id = Root, !.parentId = NoRootParent,
                                       !.isDir = TRUE])
          /\ SetWalk(c, NoWalk)
          /\ Goto(c, "act")
     ELSE /\ SetObj(c, InitObj)
          /\ SetWalk(c, StartWalk(c, req[c].path2))
          /\ Goto(c, WalkLabel(req[c].path2.comps))
  /\ UNCHANGED <<store, cwd, new, reply, raced, before>>

\* It returns if the new path was parsed.  If neither was, one of the states at
\* least is what init_vfsPathParserState made it, neither a file nor a directory,
\* and no branch moves anything.
MvDone(c) ==
  /\ pc[c] = "act" /\ req[c].op = "MV"
  /\ obj[c].rc = 0 \/ req[c].path2 = NoPath
  /\ Reply(c, TRUE, obj[c].id)
  /\ UNCHANGED <<store, cwd, req, walk, obj, new, raced, before>>

ParentExists(o) == o.rc = 0 /\ o.parentId = Root   \* mutant: a taken name will do
IsFree(o)       == o.rc = 0 /\ o.parentId = Root /\ ~o.exists

\* FUSE create: vfs_createNewEmptyFile wants parentId 0 and a free name, and
\* creates the last component of the path in the directory of the path.
CreateAct(c) ==
  /\ pc[c] = "act" /\ req[c].op = "CREATE"
  /\ IF IsFree(obj[c])
     THEN /\ req' = [req EXCEPT ![c].name = Component(c)]
          /\ Goto(c, "getid")
          /\ reply' = reply
     ELSE /\ req' = req
          /\ Reply(c, FALSE, NotFound)
  /\ UNCHANGED <<store, cwd, walk, obj, new, raced, before>>

-----------------------------------------------------------------------------
(* LIST (and FUSE readdir): folders, then files; entries without a name are  *)
(* skipped.                                                                  *)

ListFolders(c) ==
  /\ pc[c] = "lsdirs"
  /\ SetWalk(c, [walk[c] EXCEPT !.todo = ListAt(folders, walk[c].dir)])
  /\ Goto(c, "lsdirnames")
  /\ UNCHANGED <<store, cwd, req, obj, new, reply, raced, before>>

ListFolderName(c) ==
  LET id == Head(walk[c].todo) IN
  /\ pc[c] = "lsdirnames" /\ walk[c].todo # << >>
  /\ SetWalk(c, [walk[c] EXCEPT
       !.todo = Rest(@, dirInfo),
       !.names = @ \cup {<<"dir", dirInfo[i].name>> : i \in {id} \cap DOMAIN dirInfo}])
  /\ UNCHANGED <<store, pc, cwd, req, obj, new, reply, raced, before>>

ListFiles(c) ==
  /\ pc[c] = "lsdirnames" /\ walk[c].todo = << >>
  /\ SetWalk(c, [walk[c] EXCEPT !.todo = ListAt(files, walk[c].dir)])
  /\ Goto(c, "lsfilenames")
  /\ UNCHANGED <<store, cwd, req, obj, new, reply, raced, before>>

ListFileName(c) ==
  LET id == Head(walk[c].todo) IN
  /\ pc[c] = "lsfilenames" /\ walk[c].todo # << >>
  /\ SetWalk(c, [walk[c] EXCEPT
       !.todo = Rest(@, fileInfo),
       !.names = @ \cup {<<"file", fileInfo[i]>> : i \in {id} \cap DOMAIN fileInfo}])
  /\ UNCHANGED <<store, pc, cwd, req, obj, new, reply, raced, before>>

ListDone(c) ==
  /\ pc[c] = "lsfilenames" /\ walk[c].todo = << >>
  /\ Reply(c, TRUE, walk[c].dir)
  /\ UNCHANGED <<store, cwd, req, walk, obj, new, raced, before>>

-----------------------------------------------------------------------------
(* PWD: vfs_getDirPathFromId climbs to the root, a name and a parent a turn. *)

\* A directory without a name leaves the name buffer as it was.
PwdName(c) ==
  LET d == walk[c].dir IN
  /\ pc[c] = "pwdname"
  /\ \E n \in IF d \in DOMAIN dirInfo THEN {dirInfo[d].name} ELSE Names :
       SetWalk(c, [walk[c] EXCEPT !.comps = <<n>> \o @])
  /\ Goto(c, "pwdparent")
  /\ UNCHANGED <<store, cwd, req, obj, new, reply, raced, before>>

AtRoot(d) == d = Root

\* strtol starts at the second character of a number that is not quoted.
PwdParent(c) ==
  LET d == walk[c].dir IN
  /\ pc[c] = "pwdparent"
  /\ IF d \notin DOMAIN dirInfo THEN Segfault(c)
     ELSE LET up == WithoutFirstDigit(dirInfo[d].parent) IN
          /\ SetWalk(c, [walk[c] EXCEPT !.dir = up])
          /\ IF AtRoot(up) THEN Reply(c, TRUE, cwd[c].id)
             ELSE Goto(c, "pwdname") /\ reply' = reply
          /\ UNCHANGED <<store, cwd, req, obj, new, raced, before>>

-----------------------------------------------------------------------------
\* What the client decides.
Request(c) ==
  \/ CreateRequest(c)
  \/ PathRequest(c)
  \/ ListRequest(c)
  \/ PwdRequest(c)
  \/ CdupRequest(c)

\* Commands that read memory which was never written.
Undefined(c) == CdupAtRoot(c) \/ EmptyPathRequest(c)

\* What the session's process does on its own.
Boot(c) ==
  \/ BootExists(c)
  \/ BootFlushall(c)
  \/ BootMakeRoot(c)
  \/ BootSetCount(c)
  \/ BootSetCreated(c)

Create(c) ==
  \/ GetId(c)
  \/ IncrId(c)
  \/ LinkEntry(c)
  \/ WriteInfo(c)

ParsePath(c) ==
  \/ ReadWalkParent(c)
  \/ FindFiles(c)
  \/ ReadFileName(c)
  \/ FoundFile(c)
  \/ FindDot(c)
  \/ FindDotDot(c)
  \/ FindFolders(c)
  \/ ReadFolderName(c)
  \/ FoundFolder(c)
  \/ NothingFound(c)
  \/ ReadDirParent(c)

Act(c) ==
  \/ CwdAct(c)
  \/ QueryAct(c)
  \/ DeleteAct(c)
  \/ MvFirst(c)
  \/ MvDone(c)
  \/ CreateAct(c)

List(c) ==
  \/ ListFolders(c)
  \/ ListFolderName(c)
  \/ ListFiles(c)
  \/ ListFileName(c)
  \/ ListDone(c)

Pwd(c) ==
  \/ PwdName(c)
  \/ PwdParent(c)

Step(c) ==
  \/ Boot(c)
  \/ Create(c)
  \/ ParsePath(c)
  \/ Act(c)
  \/ List(c)
  \/ Pwd(c)
  \/ Respond(c)

DefinedNext ==
  \E c \in Clients :
    \/ Connect(c)
    \/ Crash(c)
    \/ Request(c)
    \/ Step(c)

Next == DefinedNext \/ \E c \in Clients : Undefined(c)

Spec     == Init /\ [][Next]_vars
ColdSpec == ColdInit /\ [][Next]_vars

\* A process that has received a command runs: nothing in it waits for another
\* session.
Fairness == \A c \in Clients : WF_vars(Step(c))
ColdFairSpec == ColdSpec /\ Fairness

=============================================================================
