----------------------------- MODULE FtpSession -----------------------------
(***************************************************************************)
(* One FTP session: the process that the listener forks for a client, its  *)
(* control connection, the parser of its commands, its data connection and *)
(* its table of file descriptors, with the client at the other end and     *)
(* Google as the place where an upload goes.  What encryption and chunks   *)
(* make of the upload is in module Transfer.                               *)
(*                                                                         *)
(* The commands that only read or change the tree of names answer at once  *)
(* here: module Vfs models what they do.                                   *)
(***************************************************************************)
EXTENDS Integers, Sequences, FiniteSets

CONSTANTS Commands,   \* the commands the client uses, with their parameters
          Letters,    \* the characters of the parameters
          Unprintable,\* those of them that isprint rejects (an accent, a tab)
          ValidUser,  \* the user name isValidLogin accepts
          ValidPass,  \* and its password
          ParamSize,  \* bound: length of the parameter buffer
          MaxFd,      \* the largest file descriptor of a process
          MaxWire,    \* bound: no command is sent when that much is on the wire
          MaxData,    \* bound: the bytes a client uploads over one connection
          Synchronous,\* the client waits for a reply before it sends again
          WholeLines  \* recv returns all that was sent, and never part of it

CR  == "CR"
LF  == "LF"
SP  == "SP"
Nul == "NUL"
Junk == "junk"       \* memory that was never written

HandlerVerbs == {"USER", "PASS", "QUIT", "PASV", "LIST", "STOR", "RETR"}
TreeVerbs == {"PWD", "SIZE", "CWD", "MKD", "DELE", "CDUP", "RMD", "RNFR", "RNTO"}
PlainVerbs == {"SYST", "TYPE"}
\* Parsed, and answered with "502 Command not implemented."
OtherVerbs == {"NOOP", "ABOR", "PORT", "APPE"}

Verbs == HandlerVerbs \cup TreeVerbs \cup PlainVerbs \cup OtherVerbs

\* What a byte of the wire or of a buffer can be: a word is one byte here.
Chars == Letters \cup Verbs \cup {CR, LF, SP, Nul, Junk}

ASSUME LettersAssumption == Letters \cap {CR, LF, SP, Nul, Junk} = {}
ASSUME CommandsAssumption ==
  \A c \in Commands : c \in [verb : Verbs, param : Seq(Letters)] /\ Len(c.param) < ParamSize
ASSUME BoundsAssumption == /\ ParamSize \in Nat \ {0} /\ MaxFd \in Nat /\ MaxFd >= 7
                           /\ MaxData \in Nat /\ MaxWire \in Nat

NoFd   == -1
Stderr == 2
Fds    == Stderr..MaxFd
\* stdin and stdout are never closed, and left out.  The child has the listener's
\* connection to Google (never closed), two connections to Redis, its client's.
FirstFds == [d \in Fds |-> CASE d = 2 -> "stderr" [] d = 3 -> "google"
                             [] d \in {4, 6} -> "redis" [] d = 5 -> "control"
                             [] OTHER -> "free"]

VARIABLES
  wire,      \* bytes the client sent on the control connection
  link,      \* the client's end of it: "up", "closed" or "reset"
  sent,      \* the last command of the client, until it has its final reply
  pc,        \* what the session does next
  parser,    \* ftpHTTPParserState_t, the type and the bytes of the parameter
  user,      \* clientState.usernameBuffer
  loggedIn,
  fds,       \* the descriptors of the process
  dataFd,    \* clientState.data_fd: what accept returned
  dataFd2,   \* clientState.data_fd2: the listening socket
  dataOpen,  \* clientState.isDataConnectionOpen
  peer,      \* the client's end of the data connection
  bytes,     \* bytes it has sent, numbered, and the session has not read
  sentUp,    \* history: all the bytes it has sent
  upload     \* bytes of the running STOR that went to the cipher: see Transfer

control == <<wire, link, sent>>
session == <<parser, user, loggedIn>>
descriptors == <<fds, dataFd, dataFd2, dataOpen>>
data == <<peer, bytes, sentUp>>
vars == <<control, pc, session, descriptors, data, upload>>

NotSent == [verb |-> "none", param |-> << >>]

\* ftp_newParserState
NewParser == [type |-> "ERROR",
              param |-> [i \in 1..ParamSize |-> IF i = 1 THEN Nul ELSE Junk]]

ControlFd   == 5
FirstDataFd == NoFd

\* The listener has forked the process of the first client: ftp_newParserState
\* and ftpClientState_init.
Init ==
  /\ wire = << >> /\ link = "up" /\ sent = NotSent
  /\ pc = "recv" /\ parser = NewParser
  /\ user = <<Junk>> /\ loggedIn = FALSE
  /\ fds = FirstFds /\ dataFd = FirstDataFd /\ dataFd2 = FirstDataFd /\ dataOpen = FALSE
  /\ peer = "none" /\ bytes = << >> /\ sentUp = << >> /\ upload = << >>

-----------------------------------------------------------------------------
(* The parser                                                               *)

Least(S) == CHOOSE x \in S : \A y \in S : x <= y

\* getFtpCommand looks for the end of the command, and never at the last byte.
CommandEnds(pkt) ==
  {i \in 1..(Len(pkt) - 1) : pkt[i] = SP \/ (pkt[i] = CR /\ pkt[i + 1] = LF)}

\* The chain of strcmp: an unknown word is an error.
TypeOf(word) ==
  IF \E v \in Verbs : word = <<v>> THEN word[1] ELSE "ERROR"

\* One byte too early.
ParamEndsShort(rest) ==
  {i \in 1..(Len(rest) - 2) :
     \/ rest[i] = CR /\ rest[i + 1] = LF
     \/ rest[i] \in Unprintable \cup {CR, LF}}

\* getFtpParam stops at the end of the line, at an unprintable byte, or before
\* the last byte of the packet.
ParamEnds(rest) ==
  {i \in 1..(Len(rest) - 1) :
     \/ rest[i] = CR /\ rest[i + 1] = LF
     \/ rest[i] \in Unprintable \cup {CR, LF}}

ParamEnd(rest) == Least(ParamEnds(rest) \cup {Len(rest)})

LineEnds(rest, i) == i < Len(rest) /\ rest[i] = CR /\ rest[i + 1] = LF

\* The bytes before the end are copied; an unprintable byte leaves what the
\* buffer held from there on, the other ends terminate it.
ParamBytes(old, rest) ==
  LET end == ParamEnd(rest)
      cut == end = Len(rest)
  IN  [i \in 1..ParamSize |->
         IF i < end THEN rest[i]
         ELSE IF i = end /\ (cut \/ LineEnds(rest, end)) THEN Nul
         ELSE old[i]]

\* A C string: the bytes before the first NUL.
Text(buffer) ==
  LET nuls == {i \in 1..ParamSize : buffer[i] = Nul}
  IN  SubSeq(buffer, 1, IF nuls = {} THEN ParamSize ELSE Least(nuls) - 1)

\* ftp_parsePacket, whose result handle_client ignores.  A parameter that fails
\* to parse and is not empty leaves the type of the previous command.
Parse(old, pkt) ==
  IF CommandEnds(pkt) = {} THEN [old EXCEPT !.type = "ERROR"]
  ELSE LET end   == Least(CommandEnds(pkt))
           type  == TypeOf(SubSeq(pkt, 1, end - 1))
           rest  == SubSeq(pkt, end + 1, Len(pkt))
           empty == [old.param EXCEPT ![1] = Nul]
       IN  IF pkt[end] = CR \/ rest[1] = CR 
           THEN [type |-> type, param |-> empty]
           ELSE LET param == ParamBytes(old.param, rest)
                    ok    == LineEnds(rest, ParamEnd(rest)) \/ Text(param) = << >>
                IN  [type |-> IF ok THEN type ELSE old.type, param |-> param]

-----------------------------------------------------------------------------
(* The client                                                               *)

Line(v, p) == <<v>> \o (IF p = << >> THEN << >> ELSE <<SP>> \o p) \o <<CR, LF>>

ClientSend(c) ==
  /\ link = "up" /\ pc # "gone"
  /\ Synchronous => sent = NotSent /\ wire = << >>
  /\ Len(wire) < MaxWire
  /\ wire' = wire \o Line(c.verb, c.param) /\ sent' = c
  /\ UNCHANGED <<link, pc, session, descriptors, data, upload>>

\* The client goes away, in order or not.
ClientHangUp ==
  /\ link = "up" /\ pc # "gone"
  /\ \/ link' = "closed" /\ UNCHANGED <<wire, sent>>
     \/ link' = "reset" /\ wire' = << >> /\ sent' = NotSent
  /\ UNCHANGED <<pc, session, descriptors, data, upload>>

\* It connects to the port of the 227 reply.
ClientDial ==
  /\ peer = "invited" /\ peer' = "open"
  /\ UNCHANGED <<control, pc, session, descriptors, bytes, sentUp, upload>>

ClientData ==
  /\ peer = "open" /\ Len(sentUp) < MaxData
  /\ LET byte == Len(sentUp) + 1
     IN  bytes' = Append(bytes, byte) /\ sentUp' = Append(sentUp, byte)
  /\ UNCHANGED <<control, pc, session, descriptors, peer, upload>>

ClientDataEnd ==
  /\ peer = "open"
  /\ \/ peer' = "closed" /\ UNCHANGED bytes
     \/ peer' = "reset" /\ bytes' = << >>
  /\ UNCHANGED <<control, pc, session, descriptors, sentUp, upload>>

-----------------------------------------------------------------------------
(* The session                                                              *)

\* recv on the control connection, and ftp_parsePacket, whose result is ignored.
Receive ==
  /\ pc = "recv" /\ wire # << >>
  /\ \E n \in 1..Len(wire) : \E pkt \in {SubSeq(wire, 1, n)} :
       /\ WholeLines => n = Len(wire)
       /\ parser' = Parse(parser, pkt)
       /\ wire' = SubSeq(wire, n + 1, Len(wire))
  /\ pc' = "run"
  /\ UNCHANGED <<link, sent, user, loggedIn, descriptors, data,
                 upload>>

\* recv returns -1: a packet of length -1 is parsed as an error and handled.
ReceiveError ==
  /\ pc = "recv" /\ wire = << >> /\ link = "reset"
  /\ link' = "closed"
  /\ parser' = [parser EXCEPT !.type = "ERROR"]
  /\ pc' = "run"
  /\ UNCHANGED <<wire, sent, user, loggedIn, descriptors, data,
                 upload>>

\* The process exits, or is killed, and all it had is gone with it.
Gone ==
  /\ pc' = "gone" /\ wire' = << >> /\ link' = "closed" /\ sent' = NotSent
  /\ parser' = NewParser
  /\ user' = <<Junk>> /\ loggedIn' = FALSE
  /\ fds' = [d \in Fds |-> "free"]
  /\ dataFd' = FirstDataFd /\ dataFd2' = FirstDataFd /\ dataOpen' = FALSE
  /\ peer' = "none" /\ bytes' = << >> /\ sentUp' = << >> /\ upload' = << >>

ReceiveEnd == pc = "recv" /\ wire = << >> /\ link = "closed" /\ Gone

Reply == sent' = NotSent /\ UNCHANGED <<wire, link>>

\* The handlers that change nothing of the connections: the session goes back
\* to recv.
Run(type) == pc = "run" /\ parser.type = type

Back == /\ pc' = "recv" /\ Reply
        /\ UNCHANGED <<parser, descriptors, data, upload>>

User == /\ Run("USER") /\ Back
        /\ user' = Text(parser.param) /\ loggedIn' = FALSE

Pass == /\ Run("PASS") /\ Back
        /\ loggedIn' = (loggedIn \/ (user = ValidUser /\ Text(parser.param) = ValidPass))
        /\ UNCHANGED user

Plain == /\ pc = "run" /\ parser.type \notin HandlerVerbs /\ Back
         /\ UNCHANGED <<user, loggedIn>>

Quit == Run("QUIT") /\ Gone

-----------------------------------------------------------------------------
(* The data connection                                                      *)

Free(f) == {d \in Fds : f[d] = "free"}

\* A new descriptor is the lowest free one, and -1 when there is none.
Lowest(f) == IF Free(f) = {} THEN NoFd ELSE Least(Free(f))

Open(f, d, kind) == IF d \in Fds THEN [f EXCEPT ![d] = kind] ELSE f

\* close(2) of a number that is not open fails and changes nothing.
Close(f, d) == IF d \in Fds THEN [f EXCEPT ![d] = "free"] ELSE f

\* The client's end after the session has closed descriptors.
Hear(f) ==
  IF \E d \in Fds : f[d] \in {"listen", "data"}
  THEN UNCHANGED data
  ELSE peer' = "none" /\ bytes' = << >> /\ sentUp' = << >>

\* The listening socket forgotten.
DropOldData(f) == IF dataOpen THEN Close(f, dataFd) ELSE f

\* What PASV does before it opens the new connection.
DropOld(f) == IF dataOpen THEN Close(Close(f, dataFd), dataFd2) ELSE f

\* The other error code.
ListenFdOne(f) == IF Lowest(f) = NoFd THEN 1 ELSE Lowest(f)

\* getListeningSocket returns 2, "failed to bind", when it gets no socket.
ListenFd(f) == IF Lowest(f) = NoFd THEN Stderr ELSE Lowest(f)

\* The 227 reply after accept.
PasvLateReply ==
  /\ Run("PASV")
  /\ dataFd2' = ListenFd(DropOld(fds))
  /\ fds' = Open(DropOld(fds), Lowest(DropOld(fds)), "listen")
  /\ dataOpen' = FALSE
  /\ peer' = "none" /\ bytes' = << >> /\ sentUp' = << >>
  /\ pc' = "accept"
  /\ UNCHANGED <<control, session, dataFd, upload>>

\* The 227 reply goes out before accept.
Pasv ==
  /\ Run("PASV")
  /\ LET old == DropOld(fds)
     IN  /\ dataFd2' = ListenFd(old)
         /\ fds' = IF Lowest(old) = NoFd THEN old ELSE Open(old, Lowest(old), "listen")
         /\ peer' = IF Lowest(old) = NoFd THEN "none" ELSE "invited"
  /\ dataOpen' = FALSE
  /\ bytes' = << >> /\ sentUp' = << >>
  /\ pc' = "accept" /\ Reply
  /\ UNCHANGED <<session, dataFd, upload>>

\* accept waits for the client.  Without a listening socket or a free
\* descriptor it returns -1 at once, and so it may when the connection was given up.
CanAccept == fds[dataFd2] = "listen" /\ Free(fds) # {} => peer \in {"open", "closed", "reset"}

Accept ==
  /\ pc = "accept" /\ CanAccept
  /\ \E ok \in BOOLEAN :
       /\ ok => fds[dataFd2] = "listen" /\ Free(fds) # {}
       /\ dataFd' = IF ok THEN Lowest(fds) ELSE NoFd
       /\ fds' = IF ok THEN Open(fds, Lowest(fds), "data") ELSE fds
  /\ dataOpen' = TRUE
  /\ pc' = "recv"
  /\ UNCHANGED <<control, session, dataFd2, data, upload>>

\* The listening socket forgotten.
CloseDataOnly(f) == Close(f, dataFd)

\* What LIST, STOR and RETR do at their end.
CloseData(f) == Close(Close(f, dataFd), dataFd2)

Finish ==
  /\ fds' = CloseData(fds) /\ Hear(fds')
  /\ pc' = "recv" /\ Reply /\ upload' = << >>
  /\ UNCHANGED <<session, dataFd, dataFd2, dataOpen>>

List == Run("LIST") /\ Finish

\* STOR and RETR connect to Google first, and go on without a connection when
\* there is no descriptor.  Then the read of Google's answer, in googleUpload_end
\* or in the download, returns -1 and runs past its buffer: it meets an end in
\* what the memory holds, or the process dies (Crash).
Transfer(type, next) ==
  /\ Run(type)
  /\ fds' = Open(fds, Lowest(fds), "google")
  /\ pc' = next /\ upload' = << >>
  /\ UNCHANGED <<control, session, dataFd, dataFd2, dataOpen, data>>

\* The path may be a file or not: module Vfs.
Retr == Transfer("RETR", "retr")

RetrNoFile == Run("RETR") /\ Back /\ UNCHANGED <<user, loggedIn>>

\* The file has been copied from Google to the data connection.
RetrEnd == pc = "retr" /\ Finish

Stor == Transfer("STOR", "stor")

HasData == dataFd \in Fds /\ fds[dataFd] = "data"

\* recv on the data connection; encryption and the chunk to Google are in module
\* Transfer.
StorRead ==
  /\ pc = "stor" /\ HasData /\ bytes # << >>
  /\ \E n \in 1..Len(bytes) :
       /\ upload' = upload \o SubSeq(bytes, 1, n)
       /\ bytes' = SubSeq(bytes, n + 1, Len(bytes))
  /\ UNCHANGED <<control, pc, session, descriptors, peer, sentUp>>

\* A short read taken for the last one.
StorShortRead ==
  /\ pc = "stor"
  /\ HasData => bytes = << >> \/ upload # << >>
  /\ pc' = "create"
  /\ UNCHANGED <<control, session, descriptors, data, upload>>

\* recv returns 0, or -1 because there is no connection or it was reset: the
\* upload is ended all the same.
StorEnd ==
  /\ pc = "stor"
  /\ HasData => bytes = << >> /\ peer \in {"closed", "reset"}
  /\ pc' = "create"
  /\ UNCHANGED <<control, session, descriptors, data, upload>>

\* vfs_createFile (module Vfs), the 226 reply and the two closes.
StorCreate == pc = "create" /\ Finish

-----------------------------------------------------------------------------

\* The process is killed: by SIGPIPE, when it sends to an end that was closed,
\* or by anything else.
Crash == pc # "gone" /\ Gone

\* The listener forks a process for the next client.
Fork ==
  /\ pc = "gone" /\ pc' = "recv" /\ link' = "up" /\ fds' = FirstFds
  /\ UNCHANGED <<wire, sent, session, dataFd, dataFd2, dataOpen, data, upload>>

Handle == User \/ Pass \/ Plain \/ Quit \/ Pasv \/ List \/ Retr
          \/ RetrNoFile \/ Stor

Session == Receive \/ ReceiveError \/ ReceiveEnd \/ Handle \/ Accept \/ RetrEnd
           \/ StorRead \/ StorEnd \/ StorCreate

Client == (\E c \in Commands : ClientSend(c)) \/ ClientHangUp
          \/ ClientDial \/ ClientData \/ ClientDataEnd

Next == Session \/ Client \/ Crash \/ Fork

\* The session runs, Google answers, and a client that was told a port connects
\* to it and ends what it uploads.
Fairness == WF_vars(Session) /\ WF_vars(ClientDial) /\ WF_vars(ClientDataEnd)

Spec == Init /\ [][Next]_vars /\ Fairness
=============================================================================
