--------------------------- MODULE VfsProperties ---------------------------
(***************************************************************************)
(* What should hold of the virtual file system.                            *)
(*                                                                         *)
(* TypeOK, BuiltWhenCreated, CreateAddsNewName and RequestsEnd also hold   *)
(* of sessions that read memory which was never written (CDUP at the root, *)
(* a command without its parameter).  The other properties need            *)
(* Garbage = {}: after such a read a session works with any id, and DELE   *)
(* may take entries off a list.                                            *)
(***************************************************************************)
EXTENDS Vfs

Labels == {"off", "segv", "exists", "flushall", "mkroot", "setcount",
           "setcreated", "ready", "getid", "incr", "link", "info",
           "lookparent", "lsfiles", "files", "dirs", "dirparent", "act",
           "lsdirs", "lsdirnames", "lsfilenames", "pwdname", "pwdparent",
           "reply"}

IdsOrNone == Nat \cup {-1}

ReqType == [op : CreateOps \cup PathOps \cup {"none", "LIST", "PWD"},
            name : Names,
            path : [abs : BOOLEAN, comps : Seq(Names)],
            path2 : [abs : BOOLEAN, comps : Seq(Names)]]

WalkType == [dir : IdsOrNone, comps : Seq(Names), todo : Seq(IdsOrNone),
             hit : IdsOrNone, names : SUBSET ({"dir", "file"} \X Names)]

ObjType == [rc : {0, -1}, exists : BOOLEAN, isFile : BOOLEAN, isDir : BOOLEAN,
            id : IdsOrNone, parentId : IdsOrNone]

StoreType ==
  /\ created \in BOOLEAN
  /\ count \in IdsOrNone
  /\ DOMAIN folders \subseteq IdsOrNone
  /\ folders \in [DOMAIN folders -> Seq(IdsOrNone)]
  /\ DOMAIN files \subseteq IdsOrNone
  /\ files \in [DOMAIN files -> Seq(IdsOrNone)]
  /\ DOMAIN dirInfo \subseteq Nat
  /\ dirInfo \in [DOMAIN dirInfo -> [parent : IdsOrNone, name : Names]]
  /\ DOMAIN fileInfo \subseteq Nat
  /\ fileInfo \in [DOMAIN fileInfo -> Names]

SessionType ==
  /\ pc \in [Clients -> Labels]
  /\ cwd \in [Clients -> [id : IdsOrNone, parentId : IdsOrNone]]
  /\ req \in [Clients -> ReqType]
  /\ walk \in [Clients -> WalkType]
  /\ obj \in [Clients -> ObjType]
  /\ new \in [Clients -> IdsOrNone]
  /\ reply \in [Clients -> [ok : BOOLEAN, id : IdsOrNone]]

\* The types of the Redis keys and of the locals of the sessions.
TypeOK == StoreType /\ SessionType

\* The parent of a directory exists and is older than the directory, whatever
\* sessions interleave with or die in the creation, and even when two of them
\* were given the same id: no cycle, so CDUP, ".." and PWD climb to the root.
\* Garbage = {}: MKD after CDUP at the root may write any id as the parent.
ParentBelowChild ==
  \A d \in DOMAIN dirInfo \ {Root} :
    dirInfo[d].parent \in DOMAIN dirInfo /\ dirInfo[d].parent < d

\* Every directory id that a session keeps across Redis commands names a directory
\* whose hash is written, dangling entries included, so no HGET of a parent
\* returns the NULL that __vfs_getDirParent would dereference.  Garbage = {}: CDUP
\* at the root makes unwritten memory the cwd (CwdExists), CWD without a parameter
\* may, and the next HGET of that cwd's parent returns NULL.
HeldDirsExist ==
  \A c \in Clients :
    /\ pc[c] \notin {"off", "segv", "exists"} =>
         /\ cwd[c].id \in DOMAIN dirInfo
         /\ cwd[c].id # Root => cwd[c].parentId \in DOMAIN dirInfo
    /\ pc[c] \in {"lookparent", "lsfiles", "files", "dirs", "dirparent",
                  "getid", "incr", "link", "info"} => walk[c].dir \in DOMAIN dirInfo
    /\ pc[c] = "dirs" /\ walk[c].hit # NotFound => walk[c].hit \in DOMAIN dirInfo
    /\ pc[c] = "dirparent" => obj[c].id \in DOMAIN dirInfo

\* getNewId never gives out an id that is listed or has a hash: whatever was
\* created or half created earlier is below the counter.
CountAboveIds ==
  /\ \A d \in DOMAIN folders : \A i \in DOMAIN folders[d] : folders[d][i] < count
  /\ \A d \in DOMAIN files : \A i \in DOMAIN files[d] : files[d][i] < count
  /\ \A d \in DOMAIN dirInfo \cup DOMAIN fileInfo : d < count

\* The parent a session cached for its cwd is the one in the database, so that
\* CDUP goes where ".." would: ids that were handed out twice aside, and a cwd
\* taken from unwritten memory (Garbage = {}).
CwdParentFresh ==
  \A c \in Clients :
    pc[c] \notin {"off", "segv"} /\ cwd[c].id \notin {Root} \cup raced =>
      cwd[c].parentId = dirInfo[cwd[c].id].parent

Occurrences(lists, id) ==
  {x \in (DOMAIN lists) \X (1..MaxIds) :
     x[2] <= Len(lists[x[1]]) /\ lists[x[1]][x[2]] = id}

\* An id handed out once is listed at most once in the whole tree, and a
\* directory is listed where its hash says.
EntryConsistent ==
  /\ \A id \in (0..count) \ raced :
       Cardinality(Occurrences(folders, id)) + Cardinality(Occurrences(files, id)) <= 1
  /\ \A d \in DOMAIN dirInfo \ ({Root} \cup raced) :
       \E i \in 1..Len(ListAt(folders, dirInfo[d].parent)) :
         folders[dirInfo[d].parent][i] = d

\* An entry the tree shows is never lost or changed.
EntriesKept == [][Entries \subseteq Entries']_vars

\* When a lookup finds nothing under a name, no entry that matches it was in
\* the directory when the command began: entries half created by others do not
\* hide complete ones.
FoundIfCommitted ==
  \A c \in Clients :
    pc[c] = "act" /\ ~obj[c].exists =>
      ~ \E e \in before[c] : /\ e.dir = walk[c].dir /\ e.id \notin raced
                             /\ Matches(Component(c), e.name)

\* A listing shows every entry the directory had when the command began.
ListingComplete ==
  \A c \in Clients :
    pc[c] = "reply" /\ req[c].op = "LIST" =>
      \A e \in before[c] : e.dir = walk[c].dir /\ e.id \notin raced =>
        <<e.kind, e.name>> \in walk[c].names

\* Once a name leads to a file it leads to the same file: later creations of
\* the same name or of a longer one never take it over, only a file that was
\* listed earlier and had no hash yet can (ids that were handed out twice aside:
\* their hash is written twice, and the file changes its name).
ResolutionStable ==
  [][\A d \in DOMAIN files, n \in Names :
       LET old == FileFound(d, n)
           now == FileFound(d, n)'
       IN  old # NotFound /\ now # old /\ {old, now} \cap raced = {} =>
             /\ now \in {files[d][i] : i \in (FileAt(d, n) + 1)..Len(files[d])}
             /\ now \notin DOMAIN fileInfo]_vars

\* FUSE create refuses a name its directory already shows: it never adds a
\* second entry of a name.  It checks first and creates later, so this needs a
\* single session.
CreateAddsNewName ==
  [][\A c \in Clients :
       pc[c] = "info" /\ req[c].op = "CREATE" /\ pc'[c] = "reply" =>
         \A e \in Entries : e.dir = walk[c].dir => e.name # req[c].name]_vars

\* The tree of a database that says it is built has a root and a counter, even
\* if the process that was building it died: the flag is the last key written.
BuiltWhenCreated == created => Root \in DOMAIN dirInfo /\ count > 0

\* Every command ends: paths, lists and the climb of PWD are finite, also from a
\* cwd that is its own parent.  Ids have one digit here, so that PWD, which drops
\* the first digit of a parent's id, stops after one step.
RequestsEnd ==
  \A c \in Clients :
    pc[c] \notin {"off", "segv", "ready"} ~> pc[c] \in {"off", "segv", "ready"}

Tree == INSTANCE VfsTree WITH tree <- Entries, unique <- raced = {}

\* The sessions together implement one tree with atomic creation: an entry
\* appears when its hash is written, in a directory that exists, whatever the
\* other sessions are doing, and stays.  Ids that were handed out twice are left
\* out (ParentIsContainer has them), and so is unwritten memory (Garbage = {}).
TreeSpec == Tree!Spec

-----------------------------------------------------------------------------
(* What the comments and the replies of the code say and the code does not  *)
(* do.                                                                      *)

\* vfs.h: the parentId of an object is the id of the folder it is in.
ParentIsContainer ==
  \A d \in DOMAIN folders : \A i \in DOMAIN folders[d] :
    folders[d][i] \in DOMAIN dirInfo => dirInfo[folders[d][i]].parent = d

\* vfs_getParent "will return -1 if failure, for example if getDirParent is
\* called on root": a session's cwd is always a directory.
CwdExists ==
  \A c \in Clients : pc[c] = "ready" => cwd[c].id \in DOMAIN dirInfo
=============================================================================
