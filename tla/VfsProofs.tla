----------------------------- MODULE VfsProofs -----------------------------
(***************************************************************************)
(* Theorems about Vfs, for any sessions, names, paths and commands but     *)
(* those that read memory which was never written: the theorems assume     *)
(* Garbage = {} (see VfsProperties).                                       *)
(***************************************************************************)
EXTENDS VfsProperties, SequenceTheorems, TLAPS

LEMMA ModType ==
  ASSUME NEW n \in Nat, NEW p \in Nat \ {0}
  PROVE  n % p \in Nat
BY SMT

LEMMA DigitsType ==
  ASSUME NEW n \in IdsOrNone
  PROVE  WithoutFirstDigit(n) \in Nat
<1>1. CASE n < 10
  BY <1>1 DEF WithoutFirstDigit
<1>2. CASE ~(n < 10)
  <2>1. n \in Nat
    BY <1>2 DEF IdsOrNone
  <2>2. \E p \in Tens : p <= n /\ \A q \in Tens : q <= n => q <= p
    BY <1>2, <2>1 DEF Tens
  <2> DEFINE P == CHOOSE p \in Tens : p <= n /\ \A q \in Tens : q <= n => q <= p
  <2>3. P \in Tens
    BY <2>2
  <2> HIDE DEF P
  <2>4. P \in Nat \ {0}
    BY <2>3 DEF Tens
  <2>5. n % P \in Nat
    BY <2>1, <2>4, ModType
  <2> QED
    BY <1>2, <2>5 DEF WithoutFirstDigit, P
<1> QED
  BY <1>1, <1>2 DEF IdsOrNone

-----------------------------------------------------------------------------
(* Types.                                                                   *)

Walking == {"lookparent", "lsfiles", "files", "dirs", "dirparent"}

\* A session that walks a path has a component to look for.
WalkShape ==
  \A c \in Clients :
    /\ pc[c] \in Walking => walk[c].comps # << >>
    /\ pc[c] = "act" /\ ~obj[c].exists => walk[c].comps # << >>

TypeInv == TypeOK /\ WalkShape

LEMMA ListType ==
  ASSUME NEW l, l \in [DOMAIN l -> Seq(IdsOrNone)], NEW d
  PROVE  ListAt(l, d) \in Seq(IdsOrNone)
BY DEF ListAt

LEMMA FoundType ==
  ASSUME TypeOK, NEW c \in Clients, req[c].op \in {"SIZE", "RETR", "GETATTR"}
  PROVE  Found(c) \in BOOLEAN
<1>1. obj[c].isFile \in BOOLEAN /\ obj[c].exists \in BOOLEAN
  BY DEF TypeOK, SessionType, ObjType
<1>2. CASE req[c].op = "SIZE"
  BY <1>2 DEF Found
<1>3. CASE req[c].op = "RETR"
  BY <1>1, <1>3 DEF Found
<1>4. CASE req[c].op = "GETATTR"
  BY <1>1, <1>4 DEF Found
<1> QED
  BY <1>2, <1>3, <1>4

LEMMA InitialLocals ==
  /\ NoWalk \in WalkType /\ NoReq \in ReqType /\ InitObj \in ObjType
  /\ NoReply \in [ok : BOOLEAN, id : IdsOrNone] /\ NotFound \in IdsOrNone
  /\ InitObj.exists = TRUE
<1>1. NotFound \in IdsOrNone /\ Root \in IdsOrNone
  BY DEF NotFound, Root, IdsOrNone
<1>2. << >> \in Seq(IdsOrNone) /\ << >> \in Seq(Names)
  OBVIOUS
<1>3. NoWalk \in WalkType
  BY <1>1, <1>2 DEF NoWalk, WalkType
<1>4. NoReq \in ReqType
  <2>1. NoPath \in [abs : BOOLEAN, comps : Seq(Names)]
    BY <1>2 DEF NoPath
  <2>2. Empty \in Names
    BY NamesAssumption DEF NamesAssumption
  <2> QED
    BY <2>1, <2>2 DEF NoReq, ReqType
<1>5. InitObj \in ObjType /\ InitObj.exists = TRUE
  BY <1>1 DEF InitObj, ObjType
<1> QED
  BY <1>1, <1>3, <1>4, <1>5 DEF NoReply

LEMMA RootObj ==
  LET o == [InitObj EXCEPT !.id = Root, !.parentId = NoRootParent, !.isDir = TRUE]
  IN  o \in ObjType /\ o.exists = TRUE
BY DEF InitObj, NotFound, Root, NoRootParent, ObjType, IdsOrNone

\* What the steps of a walk do to the walk.
LEMMA WalkTodo ==
  ASSUME NEW w \in WalkType, NEW t \in Seq(IdsOrNone)
  PROVE  /\ [w EXCEPT !.todo = t] \in WalkType
         /\ [w EXCEPT !.todo = t].comps = w.comps
BY DEF WalkType

LEMMA WalkScan ==
  ASSUME NEW w \in WalkType, NEW t \in Seq(IdsOrNone), NEW h \in IdsOrNone
  PROVE  /\ [w EXCEPT !.todo = t, !.hit = h] \in WalkType
         /\ [w EXCEPT !.todo = t, !.hit = h].comps = w.comps
BY DEF WalkType

LEMMA WalkNames ==
  ASSUME NEW w \in WalkType, NEW t \in Seq(IdsOrNone),
         NEW ns \in SUBSET ({"dir", "file"} \X Names)
  PROVE  /\ [w EXCEPT !.todo = t, !.names = ns] \in WalkType
         /\ [w EXCEPT !.todo = t, !.names = ns].comps = w.comps
BY DEF WalkType

LEMMA WalkComps ==
  ASSUME NEW w \in WalkType, NEW s \in Seq(Names)
  PROVE  [w EXCEPT !.comps = s] \in WalkType
BY DEF WalkType

LEMMA WalkDir ==
  ASSUME NEW w \in WalkType, NEW d \in IdsOrNone
  PROVE  [w EXCEPT !.dir = d] \in WalkType
BY DEF WalkType

LEMMA ObjEdits ==
  ASSUME NEW o \in ObjType, NEW i \in IdsOrNone, NEW p \in IdsOrNone
  PROVE  /\ [o EXCEPT !.rc = -1] \in ObjType
         /\ [o EXCEPT !.parentId = p] \in ObjType
         /\ [o EXCEPT !.id = i, !.isDir = TRUE] \in ObjType
         /\ [o EXCEPT !.id = i, !.isFile = TRUE, !.parentId = p] \in ObjType
         /\ [o EXCEPT !.exists = FALSE, !.parentId = p] \in ObjType
BY DEF ObjType

\* A command that ends, or dies, clears the locals of its session.
LEMMA IdleStep ==
  ASSUME TypeInv, NEW c \in Clients, NEW l \in Labels \ (Walking \cup {"act"}), Goto(c, l), Idle(c),
         UNCHANGED cwd
  PROVE  SessionType' /\ WalkShape'
BY InitialLocals DEF TypeInv, TypeOK, SessionType, WalkShape, Goto, Idle

LEMMA BeginStep ==
  ASSUME TypeInv, NEW c \in Clients, NEW r \in ReqType, NEW w \in WalkType,
         NEW l \in Labels, NEW o \in ObjType,
         Begin(c, r, w, l), obj' = obj \/ obj' = [obj EXCEPT ![c] = o],
         l \in Walking => w.comps # << >>,
         l = "act" => obj'[c].exists
  PROVE  SessionType' /\ WalkShape'
BY DEF TypeInv, TypeOK, SessionType, WalkShape, Begin, Goto, store

LEMMA BeginSame ==
  ASSUME TypeInv, NEW c \in Clients, NEW r \in ReqType, NEW w \in WalkType,
         NEW l \in Labels \ (Walking \cup {"act"}), Begin(c, r, w, l), obj' = obj
  PROVE  SessionType' /\ WalkShape'
BY DEF TypeInv, TypeOK, SessionType, WalkShape, Begin, Goto, store

LEMMA RequestStep ==
  ASSUME TypeInv, NEW c \in Clients, Request(c)
  PROVE  SessionType' /\ WalkShape'
<1> USE InitialLocals, RootObj
<1>0. {"getid", "lsdirs", "pwdname", "reply"} \subseteq Labels \ (Walking \cup {"act"})
  BY DEF Labels, Walking
<1>1. ASSUME NEW d \in IdsOrNone, NEW s \in Seq(Names)
      PROVE  /\ [NoWalk EXCEPT !.dir = d] \in WalkType
             /\ [NoWalk EXCEPT !.dir = d, !.comps = s] \in WalkType
             /\ [NoWalk EXCEPT !.dir = d, !.comps = s].comps = s
  BY DEF WalkType
<1>2. cwd[c].id \in IdsOrNone /\ Root \in IdsOrNone
  BY DEF TypeInv, TypeOK, SessionType, Root, IdsOrNone
<1> DEFINE w == [NoWalk EXCEPT !.dir = cwd[c].id]
<1>w. w \in WalkType
  BY <1>2 DEF WalkType
<1> HIDE DEF w
<1>3. CASE CreateRequest(c)
  <2>1. PICK op \in {"MKD", "STOR"}, n \in NewNames :
          /\ obj' = obj
          /\ Begin(c, [NoReq EXCEPT !.op = op, !.name = n],
                   w, "getid")
    BY <1>3 DEF CreateRequest, w
  <2>2. [NoReq EXCEPT !.op = op, !.name = n] \in ReqType
    BY NamesAssumption DEF ReqType, NamesAssumption, CreateOps
  <2> QED
    BY <1>0, <1>w, <2>1, <2>2, BeginSame
<1>4. CASE PathRequest(c)
  <2>1. PICK op \in PathOps, p \in Paths, q \in Paths \cup {NoPath} :
          IF p.comps = << >>
          THEN /\ obj' = [obj EXCEPT ![c] = [InitObj EXCEPT
                         !.id = Root, !.parentId = NoRootParent, !.isDir = TRUE]]
               /\ Begin(c, [NoReq EXCEPT !.op = op, !.path = p, !.path2 = q],
                        NoWalk, "act")
          ELSE /\ obj' = [obj EXCEPT ![c] = InitObj]
               /\ Begin(c, [NoReq EXCEPT !.op = op, !.path = p, !.path2 = q],
                        StartWalk(c, p), WalkLabel(p.comps))
    BY <1>4 DEF PathRequest
  <2>2. p \in [abs : BOOLEAN, comps : Seq(Names)] /\ q \in [abs : BOOLEAN, comps : Seq(Names)]
    <3>1. NoPath \in [abs : BOOLEAN, comps : Seq(Names)]
      BY DEF NoPath
    <3> QED
      BY <3>1, PathsAssumption DEF PathsAssumption
  <2>3. [NoReq EXCEPT !.op = op, !.path = p, !.path2 = q] \in ReqType
    BY <2>2 DEF ReqType
  <2>4. obj \in [Clients -> ObjType]
    BY DEF TypeInv, TypeOK, SessionType
  <2>5. CASE p.comps = << >>
    <3> DEFINE o == [InitObj EXCEPT !.id = Root, !.parentId = NoRootParent, !.isDir = TRUE]
    <3>1. o \in ObjType /\ o.exists = TRUE
      OBVIOUS
    <3> HIDE DEF o
    <3>2. obj' = [obj EXCEPT ![c] = o]
      BY <2>1, <2>5 DEF o
    <3>3. obj'[c].exists
      BY <2>4, <3>1, <3>2
    <3>4. Begin(c, [NoReq EXCEPT !.op = op, !.path = p, !.path2 = q], NoWalk, "act")
      BY <2>1, <2>5
    <3> QED
      BY <2>3, <3>1, <3>2, <3>3, <3>4, BeginStep DEF Labels, Walking
  <2>6. CASE p.comps # << >>
    <3> DEFINE v == StartWalk(c, p)
    <3>1. v \in WalkType /\ v.comps = p.comps
      <4> DEFINE d == IF p.abs THEN Root ELSE cwd[c].id
      <4>1. d \in IdsOrNone /\ p.comps \in Seq(Names)
        BY <1>2, <2>2
      <4>2. v = [NoWalk EXCEPT !.dir = d, !.comps = p.comps]
        BY DEF StartWalk
      <4> HIDE DEF d, v
      <4> QED
        BY <1>1, <4>1, <4>2
    <3>2. WalkLabel(p.comps) \in Labels /\ WalkLabel(p.comps) # "act"
      BY DEF WalkLabel, Labels
    <3> HIDE DEF v
    <3>3. Begin(c, [NoReq EXCEPT !.op = op, !.path = p, !.path2 = q], v, WalkLabel(p.comps))
      BY <2>1, <2>6 DEF v
    <3>4. obj' = [obj EXCEPT ![c] = InitObj]
      BY <2>1, <2>6
    <3> QED
      BY <2>3, <2>6, <3>1, <3>2, <3>3, <3>4, BeginStep
  <2> QED
    BY <2>5, <2>6
<1>5. CASE ListRequest(c)
  <2>1. [NoReq EXCEPT !.op = "LIST"] \in ReqType
    BY DEF ReqType
  <2>2. obj' = obj /\ Begin(c, [NoReq EXCEPT !.op = "LIST"], w, "lsdirs")
    BY <1>5 DEF ListRequest, w
  <2> QED
    BY <1>0, <1>w, <2>1, <2>2, BeginSame
<1>6. CASE PwdRequest(c)
  <2>1. [NoReq EXCEPT !.op = "PWD"] \in ReqType
    BY DEF ReqType
  <2>2. obj' = obj /\ \E l \in {"reply", "pwdname"} :
          Begin(c, [NoReq EXCEPT !.op = "PWD"], w, l)
    BY <1>6 DEF PwdRequest, w
  <2> QED
    BY <1>0, <1>w, <2>1, <2>2, BeginSame
<1>7. CASE CdupRequest(c)
  <2>1. CASE cwd[c].parentId \in DOMAIN dirInfo
    <3>1. dirInfo[cwd[c].parentId].parent \in IdsOrNone /\ cwd[c].parentId \in IdsOrNone
      BY <2>1 DEF TypeInv, TypeOK, StoreType, SessionType
    <3>2. cwd' \in [Clients -> [id : IdsOrNone, parentId : IdsOrNone]]
      BY <1>7, <2>1, <3>1 DEF CdupRequest, TypeInv, TypeOK, SessionType
    <3>3. UNCHANGED <<pc, req, walk, obj, new, reply>>
      BY <1>7, <2>1 DEF CdupRequest
    <3> QED
      BY <3>2, <3>3 DEF TypeInv, TypeOK, SessionType, WalkShape
  <2>2. CASE cwd[c].parentId \notin DOMAIN dirInfo
    BY <1>7, <2>2, IdleStep DEF CdupRequest, Segfault, Labels, Walking
  <2> QED
    BY <2>1, <2>2
<1> QED
  BY <1>3, <1>4, <1>5, <1>6, <1>7 DEF Request

\* A step that only moves the walk of its session on.
LEMMA WalkStep ==
  ASSUME TypeInv, NEW c \in Clients, NEW l \in Labels, NEW w \in WalkType,
         NEW o \in ObjType,
         pc' = [pc EXCEPT ![c] = l], walk' = [walk EXCEPT ![c] = w],
         obj' = [obj EXCEPT ![c] = o],
         UNCHANGED <<cwd, req, new, reply>>,
         l \in Walking \cup {"act"} => w.comps # << >>
  PROVE  SessionType' /\ WalkShape'
BY DEF TypeInv, TypeOK, SessionType, WalkShape

\* Such a step that leaves the label or the parser state as they are.
LEMMA ScanStep ==
  ASSUME TypeInv, NEW c \in Clients, NEW w \in WalkType,
         walk' = [walk EXCEPT ![c] = w], w.comps = walk[c].comps,
         UNCHANGED <<pc, cwd, req, obj, new, reply>>
  PROVE  SessionType' /\ WalkShape'
BY DEF TypeInv, TypeOK, SessionType, WalkShape

LEMMA MoveStep ==
  ASSUME TypeInv, NEW c \in Clients, NEW l \in Labels, NEW w \in WalkType,
         pc' = [pc EXCEPT ![c] = l], walk' = [walk EXCEPT ![c] = w],
         UNCHANGED <<cwd, req, obj, new, reply>>,
         l \in Walking \cup {"act"} => w.comps # << >>
  PROVE  SessionType' /\ WalkShape'
BY DEF TypeInv, TypeOK, SessionType, WalkShape

LEMMA ParseFailsStep ==
  ASSUME TypeInv, NEW c \in Clients, ParseFails(c), pc[c] \in Walking,
         UNCHANGED <<cwd, req, new, reply>>
  PROVE  SessionType' /\ WalkShape'
<1>1. walk[c] \in WalkType /\ obj[c] \in ObjType /\ walk[c].comps # << >>
  BY DEF TypeInv, TypeOK, SessionType, WalkShape
<1>2. [obj[c] EXCEPT !.rc = -1] \in ObjType
  BY <1>1, ObjEdits, InitialLocals
<1> DEFINE o == [obj[c] EXCEPT !.rc = -1]
<1>3. /\ pc' = [pc EXCEPT ![c] = "act"]
      /\ walk' = [walk EXCEPT ![c] = walk[c]]
      /\ obj' = [obj EXCEPT ![c] = o]
  BY DEF ParseFails, SetObj, SetWalk, Goto
<1>4. "act" \in Labels
  BY DEF Labels
<1> HIDE DEF o
<1> QED
  BY <1>1, <1>2, <1>3, <1>4, WalkStep DEF o

LEMMA TailNonempty ==
  ASSUME NEW S, NEW q \in Seq(S), q # << >>, Len(q) # 1
  PROVE  Tail(q) \in Seq(S) /\ Tail(q) # << >>
<1>1. Len(q) \in Nat /\ Len(q) # 0
  BY EmptySeq, LenProperties
<1>2. Tail(q) \in Seq(S) /\ Len(Tail(q)) = Len(q) - 1
  BY HeadTailProperties
<1>3. Len(Tail(q)) # 0
  BY <1>1, <1>2
<1> QED
  BY <1>2, <1>3, EmptySeq

LEMMA EnterStep ==
  ASSUME TypeInv, NEW c \in Clients, NEW d \in IdsOrNone, Enter(c, d),
         pc[c] \in Walking, UNCHANGED <<cwd, req, new, reply>>
  PROVE  SessionType' /\ WalkShape'
<1>1. walk[c] \in WalkType /\ obj[c] \in ObjType /\ walk[c].comps # << >>
  BY DEF TypeInv, TypeOK, SessionType, WalkShape
<1>2. walk[c].comps \in Seq(Names)
  BY <1>1 DEF WalkType
<1>3. CASE IsLast(c)
  <2> DEFINE o == [obj[c] EXCEPT !.id = d, !.isDir = TRUE]
  <2>1. o \in ObjType /\ "dirparent" \in Labels
    BY <1>1, ObjEdits DEF IdsOrNone, Labels
  <2>2. /\ pc' = [pc EXCEPT ![c] = "dirparent"]
        /\ walk' = [walk EXCEPT ![c] = walk[c]]
        /\ obj' = [obj EXCEPT ![c] = o]
    BY <1>3 DEF Enter, SetObj, SetWalk, Goto
  <2> HIDE DEF o
  <2> QED
    BY <1>1, <2>1, <2>2, WalkStep
<1>4. CASE ~IsLast(c)
  <2> DEFINE s == Tail(walk[c].comps)
             w == [walk[c] EXCEPT !.dir = d, !.comps = s,
                                  !.todo = << >>, !.hit = NotFound]
  <2>1. s \in Seq(Names) /\ s # << >>
    BY <1>1, <1>2, <1>4, TailNonempty DEF IsLast
  <2> HIDE DEF s
  <2>2. w \in WalkType /\ w.comps = s
    <3>1. << >> \in Seq(IdsOrNone) /\ NotFound \in IdsOrNone
      BY InitialLocals
    <3> QED
      BY <1>1, <2>1, <3>1 DEF WalkType
  <2>3. /\ pc' = [pc EXCEPT ![c] = WalkLabel(s)]
        /\ walk' = [walk EXCEPT ![c] = w]
        /\ obj' = obj
    BY <1>4 DEF Enter, SetWalk, Goto, s
  <2>4. WalkLabel(s) \in Labels
    BY DEF WalkLabel, Labels
  <2> HIDE DEF w
  <2> QED
    BY <2>1, <2>2, <2>3, <2>4, MoveStep
<1> QED
  BY <1>3, <1>4

LEMMA SegfaultStep ==
  ASSUME TypeInv, NEW c \in Clients, Segfault(c)
  PROVE  SessionType' /\ WalkShape'
BY IdleStep DEF Segfault, Labels, Walking

LEMMA ReplyStep ==
  ASSUME TypeInv, NEW c \in Clients, NEW ok \in BOOLEAN, NEW id \in IdsOrNone,
         Reply(c, ok, id), UNCHANGED <<req, walk, obj, new>>,
         cwd' \in [Clients -> [id : IdsOrNone, parentId : IdsOrNone]]
  PROVE  SessionType' /\ WalkShape'
BY DEF TypeInv, TypeOK, SessionType, WalkShape, Reply, Goto, Labels, Walking

\* The locals have their types and the lists hold ids.
LEMMA Facts ==
  ASSUME TypeInv, NEW c \in Clients
  PROVE  /\ walk[c] \in WalkType /\ obj[c] \in ObjType /\ req[c] \in ReqType
         /\ walk[c].dir \in IdsOrNone /\ walk[c].hit \in IdsOrNone
         /\ walk[c].comps \in Seq(Names) /\ walk[c].todo \in Seq(IdsOrNone)
         /\ walk[c].names \in SUBSET ({"dir", "file"} \X Names)
         /\ walk[c].todo # << >> => /\ Head(walk[c].todo) \in IdsOrNone
                                    /\ Tail(walk[c].todo) \in Seq(IdsOrNone)
         /\ pc[c] \in Walking => walk[c].comps # << >>
         /\ obj[c].id \in IdsOrNone /\ obj[c].parentId \in IdsOrNone
         /\ cwd \in [Clients -> [id : IdsOrNone, parentId : IdsOrNone]]
         /\ cwd[c].id \in IdsOrNone
         /\ walk \in [Clients -> WalkType] /\ obj \in [Clients -> ObjType]
<1>1. /\ walk[c] \in WalkType /\ obj[c] \in ObjType /\ req[c] \in ReqType
      /\ cwd \in [Clients -> [id : IdsOrNone, parentId : IdsOrNone]]
      /\ walk \in [Clients -> WalkType] /\ obj \in [Clients -> ObjType]
      /\ pc[c] \in Walking => walk[c].comps # << >>
  BY DEF TypeInv, TypeOK, SessionType, WalkShape
<1>2. /\ walk[c].dir \in IdsOrNone /\ walk[c].hit \in IdsOrNone
      /\ walk[c].comps \in Seq(Names) /\ walk[c].todo \in Seq(IdsOrNone)
      /\ walk[c].names \in SUBSET ({"dir", "file"} \X Names)
  BY <1>1 DEF WalkType
<1>3. obj[c].id \in IdsOrNone /\ obj[c].parentId \in IdsOrNone
  BY <1>1 DEF ObjType
<1> QED
  BY <1>1, <1>2, <1>3, HeadTailProperties

LEMMA ParsePathStep ==
  ASSUME TypeInv, NEW c \in Clients, ParsePath(c)
  PROVE  SessionType' /\ WalkShape'
<1> DEFINE w == walk[c]
           n == Component(c)
<1> USE Facts
<1>1. CASE ReadWalkParent(c)
  <2>1. pc[c] \in Walking
    BY <1>1 DEF ReadWalkParent, Walking
  <2>2. CASE w.dir \notin DOMAIN dirInfo
    BY <1>1, <2>2, SegfaultStep DEF ReadWalkParent
  <2>3. CASE w.dir \in DOMAIN dirInfo /\ n = Empty
    BY <1>1, <2>1, <2>3, ParseFailsStep DEF ReadWalkParent
  <2>4. CASE w.dir \in DOMAIN dirInfo /\ n # Empty
    <3>1. pc' = [pc EXCEPT ![c] = "lsfiles"] /\ UNCHANGED <<obj, walk, cwd, req, new, reply>>
      BY <1>1, <2>4 DEF ReadWalkParent, Goto
    <3>2. walk' = [walk EXCEPT ![c] = walk[c]]
      BY <3>1
    <3> QED
      BY <2>1, <3>1, <3>2, MoveStep DEF Labels
  <2> QED
    BY <2>2, <2>3, <2>4
<1>2. CASE FindFiles(c)
  <2> DEFINE v == [w EXCEPT !.todo = ListAt(files, w.dir), !.hit = NotFound]
  <2>1. ListAt(files, w.dir) \in Seq(IdsOrNone)
    BY ListType DEF TypeInv, TypeOK, StoreType
  <2>2. v \in WalkType /\ v.comps = w.comps
    <3>1. NotFound \in IdsOrNone
      BY InitialLocals
    <3> QED
      BY <2>1, <3>1 DEF WalkType
  <2>3. /\ pc[c] \in Walking
        /\ pc' = [pc EXCEPT ![c] = "files"] /\ walk' = [walk EXCEPT ![c] = v]
        /\ UNCHANGED <<cwd, req, obj, new, reply>>
    BY <1>2 DEF FindFiles, SetWalk, Goto, Walking
  <2> HIDE DEF v
  <2> QED
    BY <2>2, <2>3, MoveStep DEF Labels
<1>3. CASE ReadFileName(c)
  <2> DEFINE h == IF FileMatches(n, Head(w.todo)) THEN Head(w.todo) ELSE w.hit
             v == [w EXCEPT !.todo = Tail(w.todo), !.hit = h]
  <2>1. Tail(w.todo) \in Seq(IdsOrNone) /\ h \in IdsOrNone
    BY <1>3 DEF ReadFileName
  <2>2. walk' = [walk EXCEPT ![c] = v] /\ UNCHANGED <<pc, cwd, req, obj, new, reply>>
    BY <1>3 DEF ReadFileName, SetWalk, Rest
  <2> HIDE DEF h
  <2>3. v \in WalkType /\ v.comps = w.comps
    BY <2>1, WalkScan, ZenonT(30)
  <2> HIDE DEF v
  <2> QED
    BY <2>2, <2>3, ScanStep
<1>4. CASE FoundFile(c)
  <2>1. pc[c] \in Walking /\ UNCHANGED <<cwd, req, new, reply>>
    BY <1>4 DEF FoundFile, Walking
  <2>2. CASE IsLast(c)
    <3> DEFINE o == [obj[c] EXCEPT !.id = w.hit, !.isFile = TRUE, !.parentId = w.dir]
    <3>1. o \in ObjType
      BY ObjEdits
    <3>2. /\ pc' = [pc EXCEPT ![c] = "act"] /\ walk' = [walk EXCEPT ![c] = walk[c]]
          /\ obj' = [obj EXCEPT ![c] = o]
      BY <1>4, <2>2 DEF FoundFile, SetObj, SetWalk, Goto
    <3> HIDE DEF o
    <3> QED
      BY <2>1, <3>1, <3>2, WalkStep DEF Labels
  <2>3. CASE ~IsLast(c)
    BY <1>4, <2>1, <2>3, ParseFailsStep DEF FoundFile
  <2> QED
    BY <2>2, <2>3
<1>5. CASE FindDot(c)
  BY <1>5, EnterStep DEF FindDot, NoFile, Walking
<1>6. CASE FindDotDot(c)
  <2>1. CASE w.dir \notin DOMAIN dirInfo
    BY <1>6, <2>1, SegfaultStep DEF FindDotDot
  <2>2. CASE w.dir \in DOMAIN dirInfo
    <3>1. dirInfo[w.dir].parent \in IdsOrNone
      BY <2>2 DEF TypeInv, TypeOK, StoreType
    <3> QED
      BY <1>6, <2>2, <3>1, EnterStep DEF FindDotDot, NoFile, Walking
  <2> QED
    BY <2>1, <2>2
<1>7. CASE FindFolders(c)
  <2> DEFINE v == [w EXCEPT !.todo = ListAt(folders, w.dir)]
  <2>1. ListAt(folders, w.dir) \in Seq(IdsOrNone)
    BY ListType DEF TypeInv, TypeOK, StoreType
  <2>2. v \in WalkType /\ v.comps = w.comps
    BY <2>1, WalkTodo
  <2>3. /\ pc[c] \in Walking
        /\ pc' = [pc EXCEPT ![c] = "dirs"] /\ walk' = [walk EXCEPT ![c] = v]
        /\ UNCHANGED <<cwd, req, obj, new, reply>>
    BY <1>7 DEF FindFolders, NoFile, SetWalk, Goto, Walking
  <2> HIDE DEF v
  <2> QED
    BY <2>2, <2>3, MoveStep DEF Labels
<1>8. CASE ReadFolderName(c)
  <2> DEFINE h == IF FolderMatches(n, Head(w.todo)) THEN Head(w.todo) ELSE w.hit
             v == [w EXCEPT !.todo = Tail(w.todo), !.hit = h]
  <2>1. Tail(w.todo) \in Seq(IdsOrNone) /\ h \in IdsOrNone
    BY <1>8 DEF ReadFolderName
  <2>2. walk' = [walk EXCEPT ![c] = v] /\ UNCHANGED <<pc, cwd, req, obj, new, reply>>
    BY <1>8 DEF ReadFolderName, SetWalk, Rest
  <2> HIDE DEF h
  <2>3. v \in WalkType /\ v.comps = w.comps
    BY <2>1, WalkScan, ZenonT(30)
  <2> HIDE DEF v
  <2> QED
    BY <2>2, <2>3, ScanStep
<1>9. CASE FoundFolder(c)
  BY <1>9, EnterStep DEF FoundFolder, Walking
<1>10. CASE NothingFound(c)
  <2>1. pc[c] \in Walking /\ UNCHANGED <<cwd, req, new, reply>>
    BY <1>10 DEF NothingFound, Walking
  <2>2. CASE IsLast(c)
    <3> DEFINE o == [obj[c] EXCEPT !.exists = FALSE, !.parentId = w.dir]
    <3>1. o \in ObjType
      BY ObjEdits
    <3>2. /\ pc' = [pc EXCEPT ![c] = "act"] /\ walk' = [walk EXCEPT ![c] = walk[c]]
          /\ obj' = [obj EXCEPT ![c] = o]
      BY <1>10, <2>2 DEF NothingFound, SetObj, SetWalk, Goto
    <3> HIDE DEF o
    <3> QED
      BY <2>1, <3>1, <3>2, WalkStep DEF Labels
  <2>3. CASE ~IsLast(c)
    BY <1>10, <2>1, <2>3, ParseFailsStep DEF NothingFound
  <2> QED
    BY <2>2, <2>3
<1>11. CASE ReadDirParent(c)
  <2>1. CASE obj[c].id \notin DOMAIN dirInfo
    BY <1>11, <2>1, SegfaultStep DEF ReadDirParent
  <2>2. CASE obj[c].id \in DOMAIN dirInfo
    <3> DEFINE o == [obj[c] EXCEPT !.parentId = dirInfo[obj[c].id].parent]
    <3>1. dirInfo[obj[c].id].parent \in IdsOrNone
      BY <2>2 DEF TypeInv, TypeOK, StoreType
    <3>2. o \in ObjType
      BY <3>1, ObjEdits
    <3>3. /\ pc[c] \in Walking
          /\ pc' = [pc EXCEPT ![c] = "act"] /\ walk' = [walk EXCEPT ![c] = walk[c]]
          /\ obj' = [obj EXCEPT ![c] = o] /\ UNCHANGED <<cwd, req, new, reply>>
      BY <1>11, <2>2 DEF ReadDirParent, ParentRead, SetObj, Goto, Walking
    <3> HIDE DEF o
    <3> QED
      BY <3>2, <3>3, WalkStep DEF Labels
  <2> QED
    BY <2>1, <2>2
<1> QED
  BY <1>1, <1>2, <1>3, <1>4, <1>5, <1>6, <1>7, <1>8, <1>9, <1>10, <1>11
  DEF ParsePath

LEMMA ActStep ==
  ASSUME TypeInv, NEW c \in Clients, Act(c)
  PROVE  SessionType' /\ WalkShape'
<1> USE Facts
<1>1. CASE CwdAct(c)
  <2>1. obj[c].exists \in BOOLEAN /\ obj[c].isDir \in BOOLEAN
    BY DEF ObjType
  <2>2. Reply(c, IsDirectory(obj[c]), obj[c].id) /\ UNCHANGED <<req, walk, obj, new>>
    BY <1>1 DEF CwdAct
  <2>3. IsDirectory(obj[c]) \in BOOLEAN
    BY <2>1 DEF IsDirectory
  <2>4. cwd' \in [Clients -> [id : IdsOrNone, parentId : IdsOrNone]]
    BY <1>1 DEF CwdAct
  <2> QED
    BY <2>2, <2>3, <2>4, ReplyStep
<1>2. CASE QueryAct(c)
  <2>1. Found(c) \in BOOLEAN
    BY <1>2, FoundType DEF QueryAct, TypeInv
  <2> QED
    BY <1>2, <2>1, ReplyStep DEF QueryAct
<1>3. CASE DeleteAct(c)
  BY <1>3, ReplyStep DEF DeleteAct
<1>4. CASE MvFirst(c)
  <2> DEFINE p == req[c].path2
             r == [req[c] EXCEPT !.path2 = NoPath]
             o == IF p.comps = << >>
                  THEN [InitObj EXCEPT !.id = Root, !.parentId = NoRootParent,
                                       !.isDir = TRUE]
                  ELSE InitObj
             w == IF p.comps = << >> THEN NoWalk ELSE StartWalk(c, p)
             l == IF p.comps = << >> THEN "act" ELSE WalkLabel(p.comps)
  <2>1. p \in [abs : BOOLEAN, comps : Seq(Names)]
    BY DEF ReqType
  <2>2. NoPath \in [abs : BOOLEAN, comps : Seq(Names)]
    BY DEF NoPath
  <2>3. r \in ReqType
    BY <2>2 DEF ReqType
  <2>4. o \in ObjType /\ (p.comps = << >> => o.exists = TRUE)
    BY InitialLocals, RootObj
  <2>5. w \in WalkType /\ (p.comps # << >> => w.comps = p.comps)
    <3>1. CASE p.comps = << >>
      BY <3>1, InitialLocals
    <3>2. CASE p.comps # << >>
      <4> DEFINE d == IF p.abs THEN Root ELSE cwd[c].id
      <4>1. d \in IdsOrNone /\ p.comps \in Seq(Names)
        BY <2>1 DEF Root, IdsOrNone
      <4>2. w = [NoWalk EXCEPT !.dir = d, !.comps = p.comps]
        BY <3>2 DEF StartWalk
      <4> HIDE DEF d, p, w
      <4> QED
        BY <4>1, <4>2, InitialLocals DEF WalkType
    <3> QED
      BY <3>1, <3>2
  <2>6. l \in Labels /\ (p.comps # << >> => l # "act")
    BY DEF WalkLabel, Labels
  <2>7. /\ pc' = [pc EXCEPT ![c] = l] /\ walk' = [walk EXCEPT ![c] = w]
        /\ obj' = [obj EXCEPT ![c] = o] /\ req' = [req EXCEPT ![c] = r]
        /\ UNCHANGED <<cwd, new, reply>>
    BY <1>4 DEF MvFirst, SetObj, SetWalk, Goto
  <2>8. p.comps = << >> => l = "act"
    OBVIOUS
  <2>9. o.exists = TRUE
    BY InitialLocals, RootObj
  <2>10. l \in Walking => w.comps # << >>
    BY <2>5, <2>6, <2>8 DEF Walking
  <2> HIDE DEF p, r, o, w, l
  <2> QED
    BY <2>3, <2>4, <2>5, <2>6, <2>7, <2>9, <2>10
    DEF TypeInv, TypeOK, SessionType, WalkShape
<1>5. CASE MvDone(c)
  BY <1>5, ReplyStep DEF MvDone
<1>6. CASE CreateAct(c)
  <2>1. CASE IsFree(obj[c])
    <3> DEFINE r == [req[c] EXCEPT !.name = Component(c)]
    <3>1. walk[c].comps # << >>
      BY <1>6, <2>1 DEF CreateAct, IsFree, TypeInv, WalkShape
    <3>2. Component(c) \in Names
      BY <3>1, HeadTailProperties DEF Component
    <3>3. r \in ReqType
      BY <3>2 DEF ReqType
    <3>4. /\ req' = [req EXCEPT ![c] = r] /\ pc' = [pc EXCEPT ![c] = "getid"]
          /\ UNCHANGED <<cwd, walk, obj, new, reply>>
      BY <1>6, <2>1 DEF CreateAct, Goto
    <3> HIDE DEF r
    <3> QED
      BY <3>3, <3>4 DEF TypeInv, TypeOK, SessionType, WalkShape, Labels, Walking
  <2>2. CASE ~IsFree(obj[c])
    BY <1>6, <2>2, ReplyStep, InitialLocals DEF CreateAct
  <2> QED
    BY <2>1, <2>2
<1> QED
  BY <1>1, <1>2, <1>3, <1>4, <1>5, <1>6 DEF Act

LEMMA ListStep ==
  ASSUME TypeInv, NEW c \in Clients, List(c)
  PROVE  SessionType' /\ WalkShape'
<1> DEFINE w == walk[c]
<1> USE Facts
<1>0. /\ "lsdirnames" \in Labels \ (Walking \cup {"act"})
      /\ "lsfilenames" \in Labels \ (Walking \cup {"act"})
  BY DEF Labels, Walking
<1>1. CASE ListFolders(c)
  <2> DEFINE v == [w EXCEPT !.todo = ListAt(folders, w.dir)]
  <2>1. ListAt(folders, w.dir) \in Seq(IdsOrNone)
    BY ListType DEF TypeInv, TypeOK, StoreType
  <2>2. v \in WalkType
    BY <2>1, WalkTodo
  <2>3. /\ pc' = [pc EXCEPT ![c] = "lsdirnames"] /\ walk' = [walk EXCEPT ![c] = v]
        /\ UNCHANGED <<cwd, req, obj, new, reply>>
    BY <1>1 DEF ListFolders, SetWalk, Goto
  <2> HIDE DEF v
  <2> QED
    BY <1>0, <2>2, <2>3, MoveStep
<1>2. CASE ListFolderName(c)
  <2> DEFINE ns == w.names \cup {<<"dir", dirInfo[i].name>> :
                                   i \in {Head(w.todo)} \cap DOMAIN dirInfo}
             v == [w EXCEPT !.todo = Tail(w.todo), !.names = ns]
  <2>1. Tail(w.todo) \in Seq(IdsOrNone)
    BY <1>2 DEF ListFolderName
  <2>2. ns \in SUBSET ({"dir", "file"} \X Names)
    <3>1. \A i \in DOMAIN dirInfo : dirInfo[i].name \in Names
      BY DEF TypeInv, TypeOK, StoreType
    <3> QED
      BY <3>1
  <2>3. walk' = [walk EXCEPT ![c] = v] /\ UNCHANGED <<pc, cwd, req, obj, new, reply>>
    BY <1>2 DEF ListFolderName, SetWalk, Rest
  <2> HIDE DEF ns
  <2>4. v \in WalkType /\ v.comps = w.comps
    BY <2>1, <2>2 DEF WalkType
  <2> HIDE DEF v
  <2> QED
    BY <2>3, <2>4, ScanStep
<1>3. CASE ListFiles(c)
  <2> DEFINE v == [w EXCEPT !.todo = ListAt(files, w.dir)]
  <2>1. ListAt(files, w.dir) \in Seq(IdsOrNone)
    BY ListType DEF TypeInv, TypeOK, StoreType
  <2>2. v \in WalkType
    BY <2>1, WalkTodo
  <2>3. /\ pc' = [pc EXCEPT ![c] = "lsfilenames"] /\ walk' = [walk EXCEPT ![c] = v]
        /\ UNCHANGED <<cwd, req, obj, new, reply>>
    BY <1>3 DEF ListFiles, SetWalk, Goto
  <2> HIDE DEF v
  <2> QED
    BY <1>0, <2>2, <2>3, MoveStep
<1>4. CASE ListFileName(c)
  <2> DEFINE ns == w.names \cup {<<"file", fileInfo[i]>> :
                                   i \in {Head(w.todo)} \cap DOMAIN fileInfo}
             v == [w EXCEPT !.todo = Tail(w.todo), !.names = ns]
  <2>1. Tail(w.todo) \in Seq(IdsOrNone)
    BY <1>4 DEF ListFileName
  <2>2. ns \in SUBSET ({"dir", "file"} \X Names)
    <3>1. \A i \in DOMAIN fileInfo : fileInfo[i] \in Names
      BY DEF TypeInv, TypeOK, StoreType
    <3> QED
      BY <3>1
  <2>3. walk' = [walk EXCEPT ![c] = v] /\ UNCHANGED <<pc, cwd, req, obj, new, reply>>
    BY <1>4 DEF ListFileName, SetWalk, Rest
  <2> HIDE DEF ns
  <2>4. v \in WalkType /\ v.comps = w.comps
    BY <2>1, <2>2 DEF WalkType
  <2> HIDE DEF v
  <2> QED
    BY <2>3, <2>4, ScanStep
<1>5. CASE ListDone(c)
  BY <1>5, ReplyStep DEF ListDone
<1> QED
  BY <1>1, <1>2, <1>3, <1>4, <1>5 DEF List

LEMMA PwdStep ==
  ASSUME TypeInv, NEW c \in Clients, Pwd(c)
  PROVE  SessionType' /\ WalkShape'
<1> DEFINE w == walk[c]
<1> USE Facts
<1>0. /\ "pwdname" \in Labels \ (Walking \cup {"act"})
      /\ "pwdparent" \in Labels \ (Walking \cup {"act"})
      /\ "reply" \in Labels \ (Walking \cup {"act"})
  BY DEF Labels, Walking
<1>1. CASE PwdName(c)
  <2>1. PICK n \in IF w.dir \in DOMAIN dirInfo THEN {dirInfo[w.dir].name} ELSE Names :
          walk' = [walk EXCEPT ![c] = [w EXCEPT !.comps = <<n>> \o w.comps]]
    BY <1>1 DEF PwdName, SetWalk
  <2>2. n \in Names
    BY <2>1 DEF TypeInv, TypeOK, StoreType
  <2> DEFINE s == <<n>> \o w.comps
             v == [w EXCEPT !.comps = s]
  <2>3. s \in Seq(Names)
    BY <2>2, ConcatProperties
  <2> HIDE DEF s
  <2>4. v \in WalkType
    BY <2>3, WalkComps
  <2>5. /\ pc' = [pc EXCEPT ![c] = "pwdparent"] /\ walk' = [walk EXCEPT ![c] = v]
        /\ UNCHANGED <<cwd, req, obj, new, reply>>
    BY <1>1, <2>1 DEF PwdName, Goto, s
  <2> HIDE DEF v
  <2> QED
    BY <1>0, <2>4, <2>5, MoveStep
<1>2. CASE PwdParent(c)
  <2>1. CASE w.dir \notin DOMAIN dirInfo
    BY <1>2, <2>1, SegfaultStep DEF PwdParent
  <2>2. CASE w.dir \in DOMAIN dirInfo
    <3> DEFINE up == WithoutFirstDigit(dirInfo[w.dir].parent)
               v == [w EXCEPT !.dir = up]
    <3>1. dirInfo[w.dir].parent \in IdsOrNone
      BY <2>2 DEF TypeInv, TypeOK, StoreType
    <3>2. up \in IdsOrNone
      BY <3>1, DigitsType DEF IdsOrNone
    <3>3. walk' = [walk EXCEPT ![c] = v] /\ UNCHANGED <<cwd, req, obj, new>>
      BY <1>2, <2>2 DEF PwdParent, SetWalk
    <3>4. \/ Reply(c, TRUE, cwd[c].id)
          \/ pc' = [pc EXCEPT ![c] = "pwdname"] /\ reply' = reply
      BY <1>2, <2>2 DEF PwdParent, Goto
    <3> HIDE DEF up
    <3>5. v \in WalkType
      BY <3>2, WalkDir
    <3> HIDE DEF v
    <3>6. CASE pc' = [pc EXCEPT ![c] = "pwdname"] /\ reply' = reply
      BY <1>0, <3>3, <3>5, <3>6, MoveStep
    <3>7. CASE Reply(c, TRUE, cwd[c].id)
      BY <1>0, <3>3, <3>5, <3>7
      DEF TypeInv, TypeOK, SessionType, WalkShape, Reply, Goto
    <3> QED
      BY <3>4, <3>6, <3>7
  <2> QED
    BY <2>1, <2>2
<1> QED
  BY <1>1, <1>2 DEF Pwd
LEMMA CreateStep ==
  ASSUME TypeInv, NEW c \in Clients, Create(c)
  PROVE  SessionType' /\ WalkShape'
<1>1. CASE GetId(c)
  BY <1>1 DEF GetId, Goto, TypeInv, TypeOK, StoreType, SessionType, WalkShape,
              Labels, Walking
<1>2. CASE IncrId(c)
  BY <1>2 DEF IncrId, Goto, TypeInv, TypeOK, SessionType, WalkShape, Labels, Walking
<1>3. CASE LinkEntry(c)
  BY <1>3 DEF LinkEntry, Goto, TypeInv, TypeOK, SessionType, WalkShape, Labels, Walking
<1>4. CASE WriteInfo(c)
  BY <1>4 DEF WriteInfo, Goto, TypeInv, TypeOK, SessionType, WalkShape, Labels, Walking
<1> QED
  BY <1>1, <1>2, <1>3, <1>4 DEF Create

LEMMA BootStep ==
  ASSUME TypeInv, NEW c \in Clients, Boot(c) \/ Connect(c)
  PROVE  SessionType' /\ WalkShape'
<1> USE DEF Goto, TypeInv, TypeOK, SessionType, WalkShape, Labels, Walking
<1>1. CASE BootExists(c)
  BY <1>1 DEF BootExists
<1>2. CASE BootFlushall(c)
  BY <1>2 DEF BootFlushall
<1>3. CASE BootMakeRoot(c)
  BY <1>3 DEF BootMakeRoot
<1>4. CASE BootSetCount(c)
  BY <1>4 DEF BootSetCount
<1>5. CASE BootSetCreated(c)
  BY <1>5 DEF BootSetCreated
<1>6. CASE Connect(c)
  BY <1>6 DEF Connect, RootCwd, Root, NoRootParent, IdsOrNone
<1> QED
  BY <1>1, <1>2, <1>3, <1>4, <1>5, <1>6 DEF Boot

\* A session's own variables keep their types and shapes in every step.
LEMMA SessionStep ==
  ASSUME TypeInv, NEW c \in Clients,
         Connect(c) \/ Crash(c) \/ Request(c) \/ Step(c)
  PROVE  SessionType' /\ WalkShape'
<1>1. CASE Crash(c)
  BY <1>1, IdleStep DEF Crash, Labels, Walking
<1>2. CASE Respond(c)
  BY <1>2, IdleStep DEF Respond, Labels, Walking
<1> QED
  BY <1>1, <1>2, BootStep, RequestStep, CreateStep, ParsePathStep, ActStep,
     ListStep, PwdStep DEF Step

-----------------------------------------------------------------------------
(* The types of the store.                                                  *)

LEMMA LpushType ==
  ASSUME NEW l, DOMAIN l \subseteq IdsOrNone, l \in [DOMAIN l -> Seq(IdsOrNone)],
         NEW d \in IdsOrNone, NEW i \in IdsOrNone
  PROVE  /\ DOMAIN Lpush(l, d, i) \subseteq IdsOrNone
         /\ Lpush(l, d, i) \in [DOMAIN Lpush(l, d, i) -> Seq(IdsOrNone)]
<1>1. ListAt(l, d) \in Seq(IdsOrNone) /\ <<i>> \in Seq(IdsOrNone)
  BY ListType
<1>2. <<i>> \o ListAt(l, d) \in Seq(IdsOrNone)
  BY <1>1, ConcatProperties
<1> QED
  BY <1>2 DEF Lpush

LEMMA HmsetType ==
  ASSUME NEW S, NEW f, DOMAIN f \subseteq Nat, f \in [DOMAIN f -> S],
         NEW i \in IdsOrNone, NEW v \in S
  PROVE  /\ DOMAIN Hmset(f, i, v) \subseteq Nat
         /\ Hmset(f, i, v) \in [DOMAIN Hmset(f, i, v) -> S]
BY DEF Hmset, IdsOrNone, NoKey
-----------------------------------------------------------------------------
(* DELE, RMD and RNTO go on only with a path that could not be parsed, and  *)
(* such a path, when it is not empty, names nothing.                        *)

Searching == {"lookparent", "lsfiles", "files", "dirs"}

\* While a path is walked and when the walk fails, the parser state names
\* neither a file nor a folder.
Parsed ==
  \A c \in Clients :
    /\ pc[c] \in Searching => obj[c].rc = 0
    /\ pc[c] \in Searching \/ obj[c].rc # 0 => ~obj[c].isFile /\ ~obj[c].isDir

\* A step that leaves the parser state alone and starts no search.
LEMMA ParsedKept ==
  ASSUME TypeInv, Parsed, NEW c \in Clients, NEW l \in Labels \ Searching,
         Goto(c, l), obj' = obj
  PROVE  Parsed'
BY DEF Parsed, TypeInv, TypeOK, SessionType, Goto

LEMMA ParsedIdle ==
  ASSUME TypeInv, Parsed, NEW c \in Clients, NEW l \in Labels \ Searching,
         Goto(c, l), Idle(c)
  PROVE  Parsed'
<1>1. InitObj.rc = 0
  BY DEF InitObj
<1> QED
  BY <1>1 DEF Parsed, TypeInv, TypeOK, SessionType, Goto, Idle

LEMMA ParsedSegfault ==
  ASSUME TypeInv, Parsed, NEW c \in Clients, Segfault(c)
  PROVE  Parsed'
BY ParsedIdle DEF Segfault, Labels, Searching

\* A step that sets the parser state.
LEMMA ParsedSet ==
  ASSUME TypeInv, Parsed, NEW c \in Clients, NEW l, NEW o,
         pc' = [pc EXCEPT ![c] = l], obj' = [obj EXCEPT ![c] = o],
         l \in Searching => o.rc = 0,
         l \in Searching \/ o.rc # 0 => ~o.isFile /\ ~o.isDir
  PROVE  Parsed'
BY DEF Parsed, TypeInv, TypeOK, SessionType

LEMMA InitObjParsed ==
  /\ InitObj.rc = 0 /\ ~InitObj.isFile /\ ~InitObj.isDir
  /\ [InitObj EXCEPT !.id = Root, !.parentId = NoRootParent, !.isDir = TRUE].rc = 0
BY DEF InitObj

LEMMA ParsedFails ==
  ASSUME TypeInv, Parsed, NEW c \in Clients, ParseFails(c), pc[c] \in Searching
  PROVE  Parsed'
<1> DEFINE o == [obj[c] EXCEPT !.rc = -1]
<1>1. obj[c] \in ObjType /\ ~obj[c].isFile /\ ~obj[c].isDir
  BY DEF Parsed, TypeInv, TypeOK, SessionType
<1>2. ~o.isFile /\ ~o.isDir
  BY <1>1 DEF ObjType
<1>3. pc' = [pc EXCEPT ![c] = "act"] /\ obj' = [obj EXCEPT ![c] = o]
  BY DEF ParseFails, Goto, SetObj
<1> HIDE DEF o
<1> QED
  BY <1>2, <1>3, ParsedSet DEF Searching

LEMMA ParsedEnter ==
  ASSUME TypeInv, Parsed, NEW c \in Clients, NEW d, Enter(c, d), pc[c] \in Searching
  PROVE  Parsed'
<1> DEFINE o == [obj[c] EXCEPT !.id = d, !.isDir = TRUE]
<1>1. obj[c] \in ObjType /\ ~obj[c].isFile /\ ~obj[c].isDir /\ obj[c].rc = 0
  BY DEF Parsed, TypeInv, TypeOK, SessionType
<1>2. CASE IsLast(c)
  <2>1. pc' = [pc EXCEPT ![c] = "dirparent"] /\ obj' = [obj EXCEPT ![c] = o]
    BY <1>2 DEF Enter, SetObj, Goto
  <2>2. o.rc = 0
    BY <1>1 DEF ObjType
  <2> HIDE DEF o
  <2> QED
    BY <2>1, <2>2, ParsedSet DEF Searching
<1>3. CASE ~IsLast(c)
  <2>1. pc' = [pc EXCEPT ![c] = WalkLabel(Tail(walk[c].comps))] /\ obj' = obj
    BY <1>3 DEF Enter, Goto
  <2> QED
    BY <1>1, <2>1 DEF Parsed, TypeInv, TypeOK, SessionType
<1> QED
  BY <1>2, <1>3
LEMMA ParsedWalk ==
  ASSUME TypeInv, Parsed, NEW c \in Clients, ParsePath(c)
  PROVE  Parsed'
<1> USE DEF Searching, Labels
<1>1. CASE ReadWalkParent(c)
  <2>1. CASE walk[c].dir \notin DOMAIN dirInfo
    BY <1>1, <2>1, ParsedSegfault DEF ReadWalkParent
  <2>2. CASE walk[c].dir \in DOMAIN dirInfo /\ Component(c) = Empty
    BY <1>1, <2>2, ParsedFails DEF ReadWalkParent
  <2>3. CASE walk[c].dir \in DOMAIN dirInfo /\ Component(c) # Empty
    BY <1>1, <2>3 DEF ReadWalkParent, Goto, Parsed, TypeInv, TypeOK, SessionType
  <2> QED
    BY <2>1, <2>2, <2>3
<1>2. CASE FindFiles(c)
  BY <1>2 DEF FindFiles, Goto, Parsed, TypeInv, TypeOK, SessionType
<1>3. CASE ReadFileName(c)
  BY <1>3 DEF ReadFileName, Parsed
<1>4. CASE FoundFile(c)
  <2>1. CASE IsLast(c)
    <3> DEFINE o == [obj[c] EXCEPT !.id = walk[c].hit, !.isFile = TRUE,
                                   !.parentId = walk[c].dir]
    <3>1. pc' = [pc EXCEPT ![c] = "act"] /\ obj' = [obj EXCEPT ![c] = o]
      BY <1>4, <2>1 DEF FoundFile, SetObj, Goto
    <3>2. o.rc = 0
      BY <1>4 DEF FoundFile, Parsed, TypeInv, TypeOK, SessionType, ObjType
    <3> HIDE DEF o
    <3> QED
      BY <3>1, <3>2, ParsedSet
  <2>2. CASE ~IsLast(c)
    BY <1>4, <2>2, ParsedFails DEF FoundFile
  <2> QED
    BY <2>1, <2>2
<1>5. CASE FindDot(c)
  BY <1>5, ParsedEnter DEF FindDot, NoFile
<1>6. CASE FindDotDot(c)
  BY <1>6, ParsedEnter, ParsedSegfault DEF FindDotDot, NoFile
<1>7. CASE FindFolders(c)
  BY <1>7 DEF FindFolders, NoFile, Goto, Parsed, TypeInv, TypeOK, SessionType
<1>8. CASE ReadFolderName(c)
  BY <1>8 DEF ReadFolderName, Parsed
<1>9. CASE FoundFolder(c)
  BY <1>9, ParsedEnter DEF FoundFolder
<1>10. CASE NothingFound(c)
  <2>1. CASE IsLast(c)
    <3> DEFINE o == [obj[c] EXCEPT !.exists = FALSE, !.parentId = walk[c].dir]
    <3>1. pc' = [pc EXCEPT ![c] = "act"] /\ obj' = [obj EXCEPT ![c] = o]
      BY <1>10, <2>1 DEF NothingFound, SetObj, Goto
    <3>2. o.rc = 0
      BY <1>10 DEF NothingFound, Parsed, TypeInv, TypeOK, SessionType, ObjType
    <3> HIDE DEF o
    <3> QED
      BY <3>1, <3>2, ParsedSet
  <2>2. CASE ~IsLast(c)
    BY <1>10, <2>2, ParsedFails DEF NothingFound
  <2> QED
    BY <2>1, <2>2
<1>11. CASE ReadDirParent(c)
  <2>1. CASE obj[c].id \notin DOMAIN dirInfo
    BY <1>11, <2>1, ParsedSegfault DEF ReadDirParent
  <2>2. CASE obj[c].id \in DOMAIN dirInfo
    <3> DEFINE o == [obj[c] EXCEPT !.parentId = dirInfo[obj[c].id].parent]
    <3>1. pc' = [pc EXCEPT ![c] = "act"] /\ obj' = [obj EXCEPT ![c] = o]
      BY <1>11, <2>2 DEF ReadDirParent, ParentRead, SetObj, Goto
    <3>2. o.rc # 0 => ~o.isFile /\ ~o.isDir
      BY DEF Parsed, TypeInv, TypeOK, SessionType, ObjType
    <3> HIDE DEF o
    <3> QED
      BY <3>1, <3>2, ParsedSet
  <2> QED
    BY <2>1, <2>2
<1> QED
  BY <1>1, <1>2, <1>3, <1>4, <1>5, <1>6, <1>7, <1>8, <1>9, <1>10, <1>11
  DEF ParsePath

LEMMA ParsedStep ==
  ASSUME TypeInv, Parsed, NEW c \in Clients,
         Connect(c) \/ Crash(c) \/ Request(c) \/ Step(c)
  PROVE  Parsed'
<1> USE DEF Searching, Labels
<1>1. CASE Connect(c) \/ Boot(c) \/ Create(c)
  BY <1>1, ParsedKept DEF Connect, Boot, BootExists, BootFlushall, BootMakeRoot,
     BootSetCount, BootSetCreated, Create, GetId, IncrId, LinkEntry, WriteInfo
<1>2. CASE Crash(c) \/ Respond(c)
  BY <1>2, ParsedIdle DEF Crash, Respond
<1>3. CASE Request(c)
  <2>1. CASE CreateRequest(c) \/ ListRequest(c) \/ PwdRequest(c)
    BY <2>1, ParsedKept DEF CreateRequest, ListRequest, PwdRequest, Begin
  <2>2. CASE PathRequest(c)
    <3>1. PICK p \in Paths :
            IF p.comps = << >>
            THEN /\ obj' = [obj EXCEPT ![c] = [InitObj EXCEPT
                         !.id = Root, !.parentId = NoRootParent, !.isDir = TRUE]]
                 /\ Goto(c, "act")
            ELSE /\ obj' = [obj EXCEPT ![c] = InitObj]
                 /\ Goto(c, WalkLabel(p.comps))
      BY <2>2 DEF PathRequest, Begin
    <3> QED
      BY <3>1, ParsedSet, InitObjParsed DEF Goto
  <2>3. CASE CdupRequest(c)
    BY <2>3, ParsedSegfault DEF CdupRequest, Parsed
  <2> QED
    BY <1>3, <2>1, <2>2, <2>3 DEF Request
<1>4. CASE ParsePath(c)
  BY <1>4, ParsedWalk
<1>5. CASE Act(c)
  <2>1. CASE CwdAct(c) \/ QueryAct(c) \/ DeleteAct(c) \/ MvDone(c) \/ CreateAct(c)
    BY <2>1, ParsedKept DEF CwdAct, QueryAct, DeleteAct, MvDone, CreateAct, Reply
  <2>2. CASE MvFirst(c)
    BY <2>2, ParsedSet, InitObjParsed, ZenonT(30) DEF MvFirst, SetObj, Goto
  <2> QED
    BY <1>5, <2>1, <2>2 DEF Act
<1>6. CASE List(c)
  BY <1>6, ParsedKept
  DEF List, ListFolders, ListFolderName, ListFiles, ListFileName, ListDone, Reply, Parsed
<1>7. CASE Pwd(c)
  BY <1>7, ParsedKept, ParsedSegfault DEF Pwd, PwdName, PwdParent, Reply
<1> QED
  BY <1>1, <1>2, <1>3, <1>4, <1>5, <1>6, <1>7 DEF Step

\* So DELE changes nothing.
LEMMA DeleteKeeps ==
  ASSUME TypeInv, Parsed, NEW c \in Clients, DeleteAct(c)
  PROVE  UNCHANGED store
BY DEF DeleteAct, Parsed, store, TypeInv, TypeOK, SessionType, ObjType
-----------------------------------------------------------------------------
(* Type correctness.                                                        *)

LEMMA StoreKept ==
  ASSUME TypeInv, UNCHANGED store
  PROVE  StoreType'
BY DEF TypeInv, TypeOK, StoreType, store

LEMMA StoreOfCreate ==
  ASSUME TypeInv, NEW c \in Clients, Create(c)
  PROVE  StoreType'
<1> USE DEF StoreType
<1>1. StoreType /\ new[c] \in IdsOrNone /\ walk[c].dir \in IdsOrNone /\ req[c].name \in Names
  BY DEF TypeInv, TypeOK, SessionType, WalkType, ReqType
<1>2. CASE GetId(c)
  BY <1>1, <1>2, StoreKept DEF GetId
<1>3. CASE IncrId(c)
  BY <1>1, <1>3 DEF IncrId, Incremented, IdsOrNone, NoKey
<1>4. CASE LinkEntry(c)
  <2>1. /\ DOMAIN Lpush(folders, walk[c].dir, new[c]) \subseteq IdsOrNone
        /\ Lpush(folders, walk[c].dir, new[c])
             \in [DOMAIN Lpush(folders, walk[c].dir, new[c]) -> Seq(IdsOrNone)]
    BY <1>1, LpushType
  <2>2. /\ DOMAIN Lpush(files, walk[c].dir, new[c]) \subseteq IdsOrNone
        /\ Lpush(files, walk[c].dir, new[c])
             \in [DOMAIN Lpush(files, walk[c].dir, new[c]) -> Seq(IdsOrNone)]
    BY <1>1, LpushType
  <2> QED
    BY <1>1, <1>4, <2>1, <2>2 DEF LinkEntry, Container
<1>5. CASE WriteInfo(c)
  <2> DEFINE D == [parent : IdsOrNone, name : Names]
  <2>1. DirHash(c) \in D
    BY <1>1 DEF DirHash
  <2>2. /\ DOMAIN Hmset(dirInfo, new[c], DirHash(c)) \subseteq Nat
        /\ Hmset(dirInfo, new[c], DirHash(c))
             \in [DOMAIN Hmset(dirInfo, new[c], DirHash(c)) -> D]
    <3> HIDE DEF D
    <3>1. dirInfo \in [DOMAIN dirInfo -> D]
      BY <1>1 DEF D
    <3> QED
      BY <1>1, <2>1, <3>1, HmsetType
  <2>3. /\ DOMAIN Hmset(fileInfo, new[c], req[c].name) \subseteq Nat
        /\ Hmset(fileInfo, new[c], req[c].name)
             \in [DOMAIN Hmset(fileInfo, new[c], req[c].name) -> Names]
    BY <1>1, HmsetType
  <2> QED
    BY <1>1, <1>5, <2>2, <2>3 DEF WriteInfo
<1> QED
  BY <1>2, <1>3, <1>4, <1>5 DEF Create

LEMMA NoKeysType ==
  /\ DOMAIN NoKeys = {}
  /\ \A S : NoKeys \in [DOMAIN NoKeys -> S]
BY DEF NoKeys

LEMMA RootInfoType == RootInfo \in [parent : IdsOrNone, name : Names]
BY NamesAssumption DEF NamesAssumption, RootInfo, Root, IdsOrNone

LEMMA StoreOfBoot ==
  ASSUME TypeInv, NEW c \in Clients, Boot(c)
  PROVE  StoreType'
<1> USE DEF StoreType
<1>1. StoreType
  BY DEF TypeInv, TypeOK
<1>2. CASE BootExists(c)
  BY <1>2, StoreKept DEF BootExists
<1>3. CASE BootFlushall(c)
  <2>1. /\ created' = FALSE /\ count' = -1 /\ folders' = NoKeys /\ files' = NoKeys
        /\ dirInfo' = NoKeys /\ fileInfo' = NoKeys
    BY <1>3 DEF BootFlushall, NoKey
  <2> QED
    BY <2>1, NoKeysType DEF IdsOrNone
<1>4. CASE BootMakeRoot(c)
  <2> DEFINE D == [parent : IdsOrNone, name : Names]
  <2>1. dirInfo \in [DOMAIN dirInfo -> D] /\ RootInfo \in D /\ Root \in IdsOrNone
    BY <1>1, RootInfoType DEF Root, IdsOrNone
  <2> HIDE DEF D
  <2>2. /\ DOMAIN Hmset(dirInfo, Root, RootInfo) \subseteq Nat
        /\ Hmset(dirInfo, Root, RootInfo) \in [DOMAIN Hmset(dirInfo, Root, RootInfo) -> D]
    BY <1>1, <2>1, HmsetType
  <2> QED
    BY <1>1, <1>4, <2>2 DEF BootMakeRoot, D
<1>5. CASE BootSetCount(c)
  BY <1>1, <1>5 DEF BootSetCount, IdsOrNone
<1>6. CASE BootSetCreated(c)
  BY <1>1, <1>6 DEF BootSetCreated
<1> QED
  BY <1>2, <1>3, <1>4, <1>5, <1>6 DEF Boot

\* Only the bootstrap and the creations write to the store.
LEMMA StoreOnly ==
  ASSUME TypeInv, Parsed, NEW c \in Clients,
         \/ Connect(c) \/ Crash(c) \/ Respond(c) \/ Request(c) \/ ParsePath(c)
         \/ Act(c) \/ List(c) \/ Pwd(c)
  PROVE  UNCHANGED store
<1>1. CASE Connect(c) \/ Crash(c) \/ Respond(c)
  BY <1>1 DEF Connect, Crash, Respond
<1>2. CASE Request(c)
  BY <1>2, ZenonT(30) DEF Request, CreateRequest, PathRequest, ListRequest, PwdRequest,
              CdupRequest, Begin, Segfault
<1>3. CASE ParsePath(c)
  BY <1>3 DEF ParsePath, ReadWalkParent, FindFiles, ReadFileName, FoundFile, FindDot,
              FindDotDot, FindFolders, ReadFolderName, FoundFolder, NothingFound,
              ReadDirParent, Segfault
<1>4. CASE Act(c)
  BY <1>4, DeleteKeeps DEF Act, CwdAct, QueryAct, MvFirst, MvDone, CreateAct
<1>5. CASE List(c) \/ Pwd(c)
  BY <1>5 DEF List, ListFolders, ListFolderName, ListFiles, ListFileName, ListDone,
              Pwd, PwdName, PwdParent, Segfault
<1> QED
  BY <1>1, <1>2, <1>3, <1>4, <1>5

LEMMA StoreStep ==
  ASSUME TypeInv, Parsed, NEW c \in Clients,
         Connect(c) \/ Crash(c) \/ Request(c) \/ Step(c)
  PROVE  StoreType'
BY StoreKept, StoreOnly, StoreOfBoot, StoreOfCreate DEF Step

TypeIInv == TypeInv /\ Parsed

LEMMA InitType == Init \/ ColdInit => TypeIInv
<1> SUFFICES ASSUME Init \/ ColdInit PROVE TypeIInv
  OBVIOUS
<1>1. StoreType
  <2>1. [x \in {Root} |-> RootInfo] \in [{Root} -> [parent : IdsOrNone, name : Names]]
    BY RootInfoType
  <2> DEFINE D == [parent : IdsOrNone, name : Names]
             r == [x \in {Root} |-> RootInfo]
  <2>2. r \in [DOMAIN r -> D] /\ DOMAIN r \subseteq Nat
    BY <2>1 DEF Root
  <2> HIDE DEF r
  <2>3. CASE Init
    <3>1. /\ created = TRUE /\ count = 1 /\ folders = NoKeys /\ files = NoKeys
          /\ dirInfo = r /\ fileInfo = NoKeys
      BY <2>3 DEF Init, r
    <3> QED
      BY <2>2, <3>1, NoKeysType DEF StoreType, IdsOrNone
  <2>4. CASE ColdInit
    <3>1. /\ created = FALSE /\ count = -1 /\ folders = NoKeys /\ files = NoKeys
          /\ dirInfo = NoKeys /\ fileInfo = NoKeys
      BY <2>4 DEF ColdInit, NoKey
    <3> QED
      BY <3>1, NoKeysType DEF StoreType, IdsOrNone
  <2> QED
    BY <2>3, <2>4
<1>2. SessionsOff
  BY DEF Init, ColdInit
<1>3. SessionType
  BY <1>2, InitialLocals
  DEF SessionsOff, SessionType, Labels, RootCwd, Root, NoRootParent, IdsOrNone
<1>4. WalkShape /\ Parsed
  BY <1>2, InitObjParsed DEF SessionsOff, WalkShape, Parsed, Walking, Searching
<1> QED
  BY <1>1, <1>3, <1>4 DEF TypeIInv, TypeInv, TypeOK

\* Sessions whose commands read no memory that was never written.
DefinedSpec == Init /\ [][DefinedNext]_vars

LEMMA DefinedOnly ==
  ASSUME Garbage = {}, [Next]_vars
  PROVE  [DefinedNext]_vars
BY DEF Next, Undefined, CdupAtRoot, EmptyPathRequest, Unwritten

LEMMA NextType == TypeIInv /\ [DefinedNext]_vars => TypeIInv'
<1> SUFFICES ASSUME TypeIInv, [DefinedNext]_vars PROVE TypeIInv'
  OBVIOUS
<1> USE DEF TypeIInv
<1>1. CASE UNCHANGED vars
  BY <1>1 DEF vars, store, session, TypeInv, TypeOK, StoreType, SessionType,
              WalkShape, Parsed
<1>2. CASE DefinedNext
  <2>1. PICK c \in Clients : Connect(c) \/ Crash(c) \/ Request(c) \/ Step(c)
    BY <1>2 DEF DefinedNext
  <2> QED
    BY <2>1, SessionStep, ParsedStep, StoreStep DEF TypeInv, TypeOK
<1> QED
  BY <1>1, <1>2

\* Whether the database is built or Redis is empty, and whatever the sessions
\* do and wherever they die: the keys of the store and the locals of the
\* sessions keep their types.  Commands that read unwritten memory are left out.
THEOREM TypeCorrect ==
  ASSUME Garbage = {}
  PROVE  Spec \/ ColdSpec => []TypeOK
<1>0. [Next]_vars => [DefinedNext]_vars
  BY DefinedOnly
<1>1. TypeIInv => TypeOK
  BY DEF TypeIInv, TypeInv
<1> QED
  BY <1>1, InitType, NextType, <1>0, PTL DEF ColdSpec, Spec
=============================================================================
