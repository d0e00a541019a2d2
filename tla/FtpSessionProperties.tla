------------------------ MODULE FtpSessionProperties ------------------------
(***************************************************************************)
(* What should hold of an FTP session.                                     *)
(***************************************************************************)
EXTENDS FtpSession

Alive == pc # "gone"

Kinds == {"free", "stderr", "google", "redis", "control", "listen", "data"}

\* The types of the session's locals and of its peers.
TypeOK ==
  /\ wire \in Seq(Chars)
  /\ link \in {"up", "closed", "reset"}
  /\ sent \in Commands \cup {NotSent}
  /\ loggedIn \in BOOLEAN /\ dataOpen \in BOOLEAN
  /\ pc \in {"recv", "run", "accept", "retr", "stor", "create", "gone"}
  /\ parser \in [type : Verbs \cup {"ERROR"}, param : [1..ParamSize -> Chars]]
  /\ user \in Seq(Chars)
  /\ fds \in [Fds -> Kinds]
  /\ dataFd \in Fds \cup {NoFd} /\ dataFd2 \in Fds \cup {NoFd}
  /\ peer \in {"none", "invited", "open", "closed", "reset"}
  /\ bytes \in Seq(Nat) /\ sentUp \in Seq(Nat) /\ upload \in Seq(Nat)

Printable(param) == \A i \in DOMAIN param : param[i] \notin Unprintable

\* What runs is what the client sent: after any sequence of commands, also ones
\* that did not parse, and whatever their parameters overwrote in the buffer, a
\* command that does parse is handled with its own type and parameter.  A command
\* whose parameter getFtpParam rejects runs the one before it again, with a mixture
\* of the two parameters: Printable leaves that command out, and what is said is
\* that nothing of it is left for the commands after it.
AsSent ==
  pc = "run" /\ sent # NotSent /\ Printable(sent.param) =>
    parser.type = sent.verb /\ Text(parser.param) = sent.param

\* The listing and the files go to the client: LIST, RETR and STOR use
\* data_fd long after the descriptor was closed, and by then the number must
\* not be that of a connection to Google or of anything else.
DataFdIsData ==
  pc # "accept" /\ dataFd \in Fds => fds[dataFd] \in {"data", "free"}

\* No sequence of transfers, PASVs and failed accepts leaves a listening socket
\* or a data connection behind that no later PASV can close.
NoDescriptorLeak ==
  \A d \in Fds : fds[d] \in {"listen", "data"} => d \in {dataFd, dataFd2}

\* Closing numbers that were closed before never hits the control connection or
\* Redis.
ControlKept ==
  Alive => \A d \in Fds : FirstFds[d] \in {"control", "redis"} => fds[d] = FirstFds[d]

\* A session counts as logged in only for the user whose password it checked.
LoggedInIsValid == loggedIn => user = ValidUser

\* An upload that the client ended in order has been received whole, and given
\* to the cipher in order, each byte once, when its file is created, however recv
\* cuts it.  Nothing is said of a STOR without a data connection or of one that
\* the client reset: both create a file of what there was.
UploadWhole ==
  pc = "create" /\ HasData /\ peer = "closed" => upload = sentUp

\* Every command of a client that waits for its replies is answered, or its
\* session ends.
CommandAnswered == sent # NotSent ~> sent = NotSent \/ ~Alive
=============================================================================
