# googleDriveServer in TLA+

googleDriveServer shows files that are stored in Google Drive as a tree of
folders. The tree is kept in Redis. Two programs use it: an FTP server that
forks a process for every client, and a FUSE file system. A file's content is
encrypted and sent to Google over HTTPS in chunks, and comes back through an
HTTP parser that is fed with whatever `recv` returns. This directory holds the
specifications of these parts, what TLC checks of them and what TLAPS proves.

## 1. The parts of the system

| Part (source) | State it keeps | Operations | What makes it correct |
|---|---|---|---|
| Tree store (`virtualFileSystem/vfs_private.c`) | Redis keys: flag, id counter, list of folders and of files per folder, a hash per folder and per file | build the database, allocate an id, create, find a name, list, path of a folder | no entry lost, listed once, parent exists, lookups and listings see what is there |
| Tree interface and paths (`vfs.c`, `vfsPathParser.c`) | the cwd of a session, the result of a parse | walk a path, set the cwd, parent, create a new file, delete, move | a path leads to the same object, the cwd is a directory, the cached parent is the real one |
| FTP parser (`ftp/ftpParser.c`) | type and parameter of the last command, a buffer that is reused | parse a packet | what runs is what was sent |
| FTP session (`ftpServer.c`, `ftp/ftp.c`) | login, two numbers of descriptors, "data connection open" | the commands, one process per client | no stale descriptor number is used for something else, every command is answered, an upload is received whole |
| Connections (`net/*.c`) | the kernel's table of descriptors | listen, accept, connect; close does nothing | a session that runs out of descriptors does not confuse them |
| HTTP parser (`httpProcessing/realtimePacketParser.c`) | state, place in a token, framing, remaining length, three buffers | one byte, one packet | the segmentation makes no difference, and it ends at the end of the body |
| Download driver (`google/googleDownloadDriver.c`), `utils_recvNextHttpPacket` | connection and parser | init, update | parts in order and each once; 0 exactly at the end; every call returns |
| Upload and encryption (`google/googleUpload.c`, `crypto.c`, STOR and RETR) | cipher context | update, finish | what was uploaded comes back |
| File transfer (`fileTransfer.c`) | ranges, counters of the decryption | start, update | a read returns bytes of its range, in order and all of them |
| Access token (`google/googleAccessToken.c`) | two files of the working directory, a copy of both tokens per process | start: load, refresh, ask the user, save | a server that serves has both tokens, and the file has its own; nothing but a kill leaves a file empty |
| FUSE callbacks (`fuse/fuse-example.c`) | one global context for all threads | getattr, readdir, read, create, write | create is an operation of the tree, read uses the file transfer; getattr and readdir look things up |
| HTTP server, JSON search, pending uploads | - | strings, an older front end, code nobody calls | not modelled |
| Test driver (`testDownloadDriver.c`) | an open local file | init, update | not modelled: it serves ranges of a local file in place of Google |

Two switches of the committed build matter to a FUSE read: `fuse-example.c:29`
selects the test driver, and `fileTransfer.c:27` disables the decryption. The ranged
reads that RangeRead describes are those of FUSE over Google with decryption, a
configuration that the code has and the committed flags do not build; with the flags
as they are a read is the branch `"raw"`, over a local file.

hiredis, jsmn, slre and the OpenSSL headers are third-party.

How they interact: the processes of the FTP server share nothing but Redis, and
one operation of the tree is several Redis commands. A session talks to its
client over the control connection and, for LIST, STOR and RETR, over a data
connection that PASV opens and waits for. STOR copies the data connection
through the cipher to Google and then creates the file in the tree; RETR goes
the other way through the HTTP parser. A FUSE read asks for the blocks that hold
its range, decrypts them and trims both ends. Before anything else a server gets
its tokens from files that it shares with the servers started in the same
directory.

What is hard: two sessions between two commands of one operation, a session
killed in the middle of one (SIGPIPE does that), an empty server that two
sessions build, names matched by prefix, descriptor numbers used after they were
closed when the kernel has given them away, `recv` cutting everything anywhere,
a peer that closes or resets at any time, a cipher that holds bytes back, ranges
that are rounded to blocks and trimmed by hand, a file that is emptied before it
is written.

## 2. The modules

    Vfs  <- VfsProperties <- VfsProofs <- VfsDirProofs <- VfsTreeProofs
                          <- MCVfs
    VfsTree                 abstract tree, implemented by Vfs
    FtpSession <- FtpSessionProperties <- FtpSessionProofs
                                       <- MCFtpSession
    HttpDownload <- HttpDownloadProperties <- HttpDownloadProofs
                                           <- MCHttpDownload
    FileStream              abstract download, implemented by HttpDownload
    Transfer <- TransferProperties <- TransferProofs
             <- RangeRead <- RangeReadProperties <- RangeReadProofs
                             (and TransferProperties, TransferProofs)
                                                 <- MCTransfer
    AccessToken <- AccessTokenProperties <- AccessTokenProofs
                                         <- MCAccessToken

Each system module has the state, one action per step of the code, and next to
some actions a changed form marked "mutant", which is in no next-state relation:
it shows what the properties can notice.

**Vfs.** Redis runs one command at a time, so an action is one Redis command of
one session together with the code up to the next command; `pc` names the
command that comes next. `created`, `count`, `folders`, `files`, `dirInfo` and
`fileInfo` are the keys, `cwd`, `walk`, `obj`, `new` and `reply` the locals of a
session. `Boot...` is `__buildDatabaseIfRequired`, `GetId`, `IncrId`,
`LinkEntry`, `WriteInfo` the creation, `ParsePath` the walk of `__vfs_parsePath`,
`Act` what a command does with the result, `List...` and `Pwd...` the two that
read names. Names are model values and `Prefix` says which one is a prefix of
which, because the code compares with `strncmp`. `raced` and `before` are
history variables. Sizes, URLs and dates are written once and left out.

Two commands of FTP read memory that was never written. CDUP at the root returns
success and leaves its result unset, and the session makes it its cwd
(`CdupAtRoot`). A command without a parameter gives `__vfs_parsePath` an empty path,
and it returns before it initialises its result: SIZE and RETR answer from what the
stack holds, CWD may change to it, and DELE, whose test is inverted, goes on with it
and may take an entry off a list (`EmptyPathRequest`, then the same `Act` as for any
other command). `Garbage` is the set of ids that such memory may hold, and its flags
may be anything. `Next` is `DefinedNext` or one of these (`Undefined`); with
`Garbage = {}` no session sends such a command. That is a restriction of what the
clients do, and each property that needs it says so.

**FtpSession.** One process: parser, login, table of descriptors (`fds`, a
number to what is open there), `dataFd` and `dataFd2`, and the client at the
other end. The kernel gives out the lowest free number. `Parse` is
`ftp_parsePacket` with its buffer of `ParamSize` bytes, in which an unterminated
parameter leaves the tail of an earlier one. Every transfer opens a descriptor
that nothing closes, as `net_close` is empty. `Crash` is the kill of the process
at any step; `Fork` starts the next one. What the commands do to the tree is in
Vfs, what happens to the bytes of an upload in Transfer. A byte is one of `Chars`:
a verb, a character of the constant `Letters`, or one with a meaning (CR, LF, a
space, NUL, memory that was never written). The set is spelled out because the
provers know nothing of `STRING`.

**HttpDownload.** One action per state of `process_byte`; `Processed` is the
loop of `process_data` around it. `mode` is the caller: `update` is
`gdrive_downloadUpdate`, which returns parts, `whole` is
`utils_recvNextHttpPacket`. The server sends a response of the constant
`Responses` and may close after any part of it; `Recv` returns any part of what
has arrived. A byte is one of `Chars`: a header's name and value are one byte each,
a length has one digit, and bodies are made of the constant `Data`, which in the
runs has CR, LF and digits too. `Written` is what a call leaves in its caller's
buffer: the data and the NUL that each byte of data is followed by. `ResetSpec` adds a
server that resets the connection and the run past the packet buffer that
follows; `Stale` is what may be in that buffer.

**Transfer.** The bytes of one file from the data connection to Google and
back. `held` is what the cipher context keeps: encryption gives out complete
blocks only, decryption holds the last block back until it knows that it is not
padding. A byte of ciphertext is represented by the byte of plaintext at its
place; keys and the cipher's own function do not matter to any property.
`message` is the HTTP request as Google decodes it: a chunk of length 0 ends it.
When the last block does not decrypt, RETR sends the last piece again
(`RetrFinish`), and data at the end of a block may be taken for padding. Google may
close the connection early: before its answer to an upload, and then STOR never
returns (`StorNoAnswer`), or in the middle of a download, which RETR takes for its
end (`RetrCut`).

**RangeRead** composes Transfer with one `read_callback` on the file that STOR has
left at Google (`body`, which may be cut). `reading` is the next step of the read:
`"iv"` the loop that gets the initialisation vector, `"extra"` the decryption of
what came with it, `"fetch"` one `downloadUpdate` with its decryption, `"raw"` the
early return of `DISABLE_ENCRYPTION`, with which the repository is built: the
blocks then reach FUSE as they are stored, from the rounded start on, and the
properties are about a build that decrypts. `kept` is the cipher context of the
read (`Cipher`, an instance of Transfer, has its padding), `counted` and
`decrypted` are the counters of `downloadState`, `got` is what is in FUSE's buffer.
`Junk` stands for a byte that was decrypted from the wrong place or is of the
message of an error, whose status nobody looks at. `ReadCut` is a server that
closes before the end.

**AccessToken.** The servers that are started in one directory, in the steps of
`gat_init_googleAccessToken`. A grant is what the user allows once; the tokens
that Google makes of it are not told apart. A file is absent, empty or has a
token: `fopen` empties it in one step and `fclose` writes it in another, and
`Crash` may come in between. `NoAnswer` is a lost connection, after which
`utils_recvNextHttpPacket` never returns. `disturbed` is a history variable: another
server wrote refresh.token since this one was started; `cutShort` is one too: a kill
between the two steps of its write left that file empty.

**VfsTree** is a set of entries to which creations add one at a time;
**FileStream** delivers a file in parts that are not empty and then says that it
has ended. Both are checked as refinements (`TreeSpec`, `StreamSpec`).

## 3. What TLC checks

| Run | Question | Bounds |
|---|---|---|
| `vfs_create` | Do creations and listings of three sessions, killed anywhere, keep every entry, list it once and show all of it? (`CountAboveIds`, `EntryConsistent`, `ListingComplete`, `EntriesKept`) | `Garbage = {}`; 3 sessions, ids up to 2, one name: enough for two creators and a third that reads between them |
| `vfs_walk` | Do lookups see what is there while others create? Is the tree a tree, and one tree for all? (`ParentBelowChild`, `HeldDirsExist`, `CwdParentFresh`, `FoundIfCommitted`, `ResolutionStable`, `TreeSpec`) | `Garbage = {}`: no CDUP at the root and no command without its parameter, which do break `HeldDirsExist` (`vfs_cdup`); 2 sessions, ids up to 2, paths with a prefix, `..`, a doubled slash and the root |
| `vfs_session` | Does every command end, and does the bootstrap survive a crash anywhere? (`TypeOK`, `BuiltWhenCreated`, `CreateAddsNewName`, `RequestsEnd`) | 1 session at a time, all 12 commands, also CDUP at the root and the ones without a parameter (`Garbage = {1}`), an empty server first; ids of one digit, so the climb of PWD is one step long |
| `ftp_session` | Is the data connection what the session thinks it is, whatever the client does and until descriptors run out? (`TypeOK`, `AsSent`, `DataFdIsData`, `NoDescriptorLeak`, `ControlKept`, `UploadWhole`, `CommandAnswered`) | uploads of up to 2 bytes, in one `recv` or two; numbers up to 9, so three are left for the data connection and Google: the second transfer meets the limit; 2 parameters of different lengths and one with a byte that `isprint` rejects |
| `http_download` | Does the segmentation make no difference? (`TypeOK`, `EndIsWhole`, `OneBytePast`, `ZeroIsFinal`, `StreamSpec`, `CallsReturn`, `FileArrives`) | chunked, fixed-length and empty responses with bodies of up to 5 bytes and up to 2 chunks; packets of up to 4 bytes, more than any token and less than any header or the longest body |
| `transfer` | Does an upload come back, whole and in ranges? (`TypeOK`, `StoredInOrder`, `SentInOrder`, `RoundTrip`, `RangeTypeOK`, `OnlyRange`, `ReadWhole`, `BlocksSafe`) | blocks of 4, packets of up to 6, files of 0 to 13 bytes: aligned and not, with packets shorter and longer than a block; every offset and sizes up to 13, so ranges start and end in every block, at its edges and beyond the file; the three properties of a read leave out one whose vector was cut by `recv` (see below) |
| `access_token` | Does a server have its tokens after its start? What can leave refresh.token empty? (`TypeOK`, `InitPromise`, `EmptyOnlyByKill`) | 2 servers, 2 grants: each server can have a token that the other one replaces; crashes are not bounded |

A bound only limits how much happens, not which steps may follow each other: ids
and descriptors are reused or raced with the smallest numbers already, the
parser forgets everything but its state between chunks, and the cipher all but
one block. The counters that are capped are `MaxIds`, `MaxWire`, `MaxData`,
`MaxFd`, `ParamSize` and `MaxSize`.

Symmetry is used for sessions in `vfs_create` and `vfs_walk`, which check no
liveness. Deadlock is checked for Vfs, FtpSession and AccessToken. HttpDownload and Transfer
describe one download and one file and stop when they are done.

### Where the code does not do what it says

| Run | Property | What happens |
|---|---|---|
| `vfs_id_race` | `ParentIsContainer` | `getNewId` is GET and then INCR: two sessions get one id, and a folder names another directory as its parent than the one that lists it |
| `vfs_cold_race` | `EntriesKept` | two sessions find an empty server; the second FLUSHALL wipes what was created after the first |
| `vfs_cdup` | `CwdExists` | CDUP at the root returns success without a result, and the cwd becomes what the stack holds (`CdupAtRoot`, `Garbage = {0, 1}`) |
| `http_reset` | `OnlyFileData` | `recv` returns -1, the parser runs past its packet and returns what the memory holds as data (`ResetSpec`) |
| `transfer_short` | `StoredWhole` | a part of an upload that completes no cipher block becomes a chunk of length 0, the end of the request: the file is cut, and STOR answers "226 Transfer complete." |

More of these are in the models without a run of their own. `recv` may cut the
initialisation vector of a ranged read; its loop counts the first part again with
the second (`fileTransfer.c:135`), may stop with a short vector, and what is decrypted
with that is garbage. `Aligned` in `Readable` leaves such a read out of `OnlyRange`,
`ReadWhole` and `BlocksSafe`, which it breaks. `process_data` writes a NUL after the data:
RETR's buffer has a spare block, but a full packet in a FUSE read, which passes
10000 for a buffer of 10000 bytes (`fuse-example.c:146`), writes one byte past it;
`OneBytePast` says that it is never more. A name with an accent
makes `ftp_parsePacket` fail with the type of the previous command left in place;
`handle_client` ignores the result and runs that command again, with a mixture of
the two names (`ftpParser.c:88`, `ftpServer.c:397`). A FUSE read whose first
decrypted bytes all lie before its offset moves a negative number of bytes
(`fileTransfer.c:226`): `BlocksSafe` names the reads that never do. A read of the
end of a file loses what is in the last block, as `endOfEncryptedFile` counts a
block for a vector that STOR does not write (`fileTransfer.c:172`): `ReadWhole`
promises the whole blocks only. A server that is killed between `fopen` and
`fclose` of refresh.token leaves an empty file, on which every later start dies
(`googleAccessToken.c:76`). DELE, RMD and RNTO return
when the parse of the path *succeeded* (`vfsPathParser.c:218`, `:244`), so with a path
they change nothing, and without one DELE acts on a result that was never written. PWD drops the first digit of a parent's id
(`vfs_private.c:473`), so the path that it shows may skip folders.

### Fairness

`RequestsEnd` assumes that a session that has a command runs; Redis always
answers. `CommandAnswered` assumes that the session runs, that a client that was
told a port connects to it, and that it ends its upload at some time: `accept`
and `recv` have no timeout in the code, so without that a session waits for
ever. `CallsReturn` and `FileArrives` assume that the process runs, that bytes
that were sent arrive, and that the caller calls again until it gets 0, as
`read_callback` and RETR do; nothing makes the server close. `CallsReturn`
leaves out what the code does not promise: `utils_recvNextHttpPacket` after an
early close, and a response of `Content-Length: 0`, for which the parser waits
for a byte. Transfer and AccessToken state no fairness and no liveness: both hang for
ever when Google closes early (`StorNoAnswer`, `NoAnswer`), and a user may be asked
for codes without end, so there is nothing that must happen.

## 4. What is proved

The proofs are for every value of the constants, under the assumptions named in
the modules (`NamesAssumption`, `PathsAssumption`, `LettersAssumption`,
`CommandsAssumption`, `BoundsAssumption`, `ResponsesAssumption`, `BufferAssumption`,
`BlockAssumption`, `TokenAssumption`, `GarbageAssumption`), which TLC evaluates in every run. For every
invariant, action property and refinement of a passing run there is a theorem. Those
of Vfs have `Garbage = {}` as a hypothesis, so they are about sessions that read no
memory that was never written: for the others most of these properties are false.
`DefinedOnly` (VfsProofs) says that then every step is one of `DefinedNext`.

- `TypeCorrect` (VfsProofs): `TypeOK`, from a built database or an empty server.
  `TypeIInv` adds what each step needs of the locals, among it that a parse of a
  path that is not empty and that reaches the removal code cannot have failed the way
  the inverted test asks for, so these sessions never run the code that unlinks.
- `ParentsBelow`, `IdsFresh`, `HeldDirsSound` (VfsDirProofs): `ParentBelowChild`,
  `CountAboveIds` and `HeldDirsExist` are not inductive. `DirInv` is:
  it adds that the id a session is about to use is above its folder's and below
  the counter once that is incremented, and that every folder a session holds,
  in its walk, its result or its cwd, has a hash. Two sessions with the same id
  do not break it, as the later hash also names a smaller parent.
- `EntriesConsistent`, `TreeGrows`, `TreeImplemented` (VfsTreeProofs):
  `EntryConsistent`, `EntriesKept` and the refinement `TreeSpec`, from a built
  database, for any number of sessions. `TreeInv` adds to `DirInv` who owns an id:
  one session at most is between `GetId` and `WriteInfo` with it (`OneOwner`), it is
  in no list until `LinkEntry` puts it there, and in no hash until `WriteInfo`
  (`NewUnused`), and then in one list once (`OnceListed`). So the hash of an id is written once (`Grown`), and `WriteInfo` is
  the step at which the entry appears in VfsTree; every other step is a stutter. An
  id that two sessions got (`raced`) is left out of all of it: for those
  `vfs_id_race` shows the opposite.
- `CwdParentsFresh`: `CwdParentFresh`, as the copy is made of a hash that is written
  once (`ParentHeld` says so of a parse's result, before it becomes the cwd).
- `ListingsComplete`, `LookupsFind`: `ListingComplete` and `FoundIfCommitted` from
  `SeenInv`. What a command should find is `before`, the entries at its beginning.
  `ListPhase` and `WalkPhase` say that each of them is still in the part of the list
  to be looked at, or was shown, or something was found. `BeforeKept`, which is
  `TreeGrows` over the whole command, makes the hash be there when its turn comes.
- `ResolutionsStable`: `ResolutionStable`. A lookup takes the last match of a list
  that grows at the front, so it changes only when a hash appears in a place behind
  the one that was found. The proof needs both files to have an id that was handed
  out once: with an id that was handed out twice the hash is written again and the
  file gets the other name, and TLC finds that behaviour with two creators. The
  property says so.
- `BuildSound`, `CreatesNewNames`: `BuiltWhenCreated` and `CreateAddsNewName`, from an
  empty server (`ColdSpec`), under `OneSession`: there is one session at a time. This
  is the hypothesis of the run `vfs_session` and not a convenience: with two the bootstrap
  goes wrong (`vfs_cold_race`), and two sessions that both found a name free both
  create it. The session may die anywhere and be started again. `SoloInv` says how far
  the bootstrap is (`BootPhase`), and that once the flag is set `SeenInv` holds.
- `DataFdSound`, `NoLeak`, `ControlSound` (FtpSessionProofs): `DataFdIsData`,
  `NoDescriptorLeak` and `ControlKept` follow from `DescriptorInv`. The stale numbers
  are harmless for a reason that nobody wrote down: PASV gets the listening
  socket before `accept` gets the data connection, so `dataFd2 < dataFd`; both
  are closed together, the connection to Google that is opened next takes the
  lower number, and LIST, STOR and RETR use the higher one. `Pair` says this,
  `Accepting` that in `accept` every free number is above the listening one.
- `LoginSound`: `LoggedInIsValid` is inductive; no run checks it.
- `UploadsWhole`: `UploadWhole`, from `UploadInv`: without a reset, what went to
  the cipher and what has not been read are together what the client has sent.
- `TypesSound` (FtpSessionProofs): `TypeOK`, for any client: also one that sends
  several commands at once or one in two parts.
- `CommandsAsSent`: `AsSent`, for a client that waits for each reply and whose lines
  arrive whole (`Synchronous` and `WholeLines`, as in the run; without them the code
  drops commands, see section 5). `SyncInv` adds that there is one command at a time
  on its way (`OneAtATime`). The buffer is never cleared, but CR LF comes before the
  packet ends, `getFtpParam` puts a NUL in its place, and a printable parameter has
  no NUL before it.
- `TypesSound`, `ZeroFinal`, `WritesBounded` (HttpDownloadProofs): `TypeOK`, `ZeroIsFinal`
  and `OneBytePast`. `DownloadInv` says that a call goes back to `recv` only with an
  empty buffer, and that 0 is returned at the end of the parse or when the connection
  is closed and drained.
- `WholeBody`, `DriverStreams` (HttpDownloadProofs): `EndIsWhole` and the refinement
  `StreamSpec`, for any responses, with any number of chunks, that are cut into
  packets anywhere. `Placed` says where the parser is when k bytes of the response
  were parsed and g bytes of its body written: in the head (`InHead`), in a body of
  known length (`InLength`) or at a place of some chunk (`InSomeChunk`). A byte moves
  it from (k, g) to (k + 1, g) or (k + 1, g + 1), one lemma for each state
  (`...Moves`), and at the end of the parse everything has been written. `ReadInv` adds
  that packet and wire hold the next bytes of the response (`Arriving`), all of them
  unless the server cut it off, and that what was returned and what is in the buffer
  are the first g bytes of the body (`Got`). Where a chunk begins in the response
  and in the body (`ChunkStart`, `DataStart`) is proved by induction over the
  number of chunks, in the form that takes no operator as a parameter: a set of
  naturals with 0 and all successors has all of them (`FromZero`, from the fact
  that every set of naturals that is not empty has a least element).
- `TransferTyped`, `TransferStoresInOrder`, `TransferSendsInOrder`,
  `TransferRoundTrip` (TransferProofs): `TypeOK`, `StoredInOrder`, `SentInOrder` and
  `RoundTrip`, for every block size and every length of a file. `Inv` says where
  each byte is: while STOR runs, `(body \o held) \o unread = file`, and `body` has
  whole blocks; while RETR runs, `(sent \o held) \o rest = body`, `sent` has whole
  blocks, and nothing has been sent if the cipher holds nothing back. So the last
  `recv` of RETR leaves exactly one block in the cipher, and its padding is the
  one that STOR added (`LastBlock`). `sent` stays in front of the padding because
  two lengths in whole blocks that differ do so by a block (`MultipleGap`).
- `ReadsKeepTransfer` (RangeReadProofs) takes the invariants of TransferProofs over to
  the composition. `RangeTyped`, `RangeInOrder`, `RangeWhole`, `RangeBlocksSafe`: `RangeTypeOK`,
  `OnlyRange`, `ReadWhole` and `BlocksSafe`, for every block size, range and
  segmentation, from `RangeInv`; the last three for a read that got its whole vector. It says where each byte of the response is: the
  stream has the bytes of `body` from the place that has been received on
  (`Receiving`), the vector and what came with it are in front of it (`Vector`), or
  what was decrypted and then `kept` (`Decrypting`); `counted` is at least what was
  received, and less than a block more (`Counting`); `got` is a part of the file
  from the offset on (`Gotten`). That the trims leave nothing out is arithmetic on
  these places.
- `TokensTyped`, `InitKeepsPromise` (AccessTokenProofs): `TypeOK` and `InitPromise`,
  for any number of servers. `Starting` says for each step which token a server
  has: one that is not the file's is always marked to be saved. A step of another
  server either leaves the file alone or is remembered in `disturbed` (`OtherStep`).
- `EmptyFileExplained`: `EmptyOnlyByKill`. A file is emptied in one place, and the server
  that did it is either still there, has written it, or was killed.

Only model-checked: liveness, as the prover has no ENABLED and so no fairness. That is
`RequestsEnd`, `CommandAnswered`, `CallsReturn` and `FileArrives`. Also `TypeOK`,
`BuiltWhenCreated` and `CreateAddsNewName` for sessions that read unwritten memory, as
`vfs_session` checks them. Nothing rests on a RECURSIVE operator or on a fact that was not proved.

## 5. What is not modelled, and why

- `ftpServer.c` and `httpServer.c` call older signatures of `vfs_parsePath`,
  `startFileDownload` and `updateFileDownload` than their headers have. The
  calls are modelled by what their arguments mean.
- Sizes of buffers on the stack (the chunk buffer of `googleUpload_update`, the
  command buffer of the FTP parser) and what happens beyond them, but for the
  parameter buffer and `process_data`.
- The TLS handshake, name lookup, JSON, header strings, logging.
- RNTO after RNFR, both without a parameter, which moves one uninitialised object to
  another, and negative ids in unwritten memory.
- Lengths of more than one digit in an HTTP response, and so a cut inside of one.
- Commands sent without waiting for a reply, and commands that arrive in two
  parts: FtpSession has them (`Synchronous`, `WholeLines`), but the properties
  are stated for a client that waits.
- A download without a range end and the upload functions of `fileTransfer.c`,
  which nothing calls; the list of pending uploads; the test driver that the
  committed build of FUSE selects.
- `gat_getAccessToken`: no program calls it, so nothing renews a token.
- A reset connection during a ranged read: what `gdrive_downloadUpdate` then
  returns is `http_reset`'s question.
- FUSE's threads that share one hiredis context: which reply a thread gets is
  up to hiredis' buffers, which are third-party and not made for that.
- The vendored libraries, which are most of the repository's lines.

## 6. Plan

Done, in this order: Vfs with VfsTree, FtpSession, HttpDownload with FileStream,
Transfer, RangeRead on top of Transfer, AccessToken; the proofs of section 4.

Next modules:
1. Store: STOR of FtpSession composed with the creation of Vfs: an upload that
   no name leads to, a name whose upload was cut, two sessions and one name.
2. FUSE: getattr and readdir, and what they make of a parse that failed.

Next proofs: what `ResetSpec` still promises (a returned part is a part of the body
as long as no reset was seen), `RoundTrip` through the parser (Transfer over
HttpDownload), and the safety properties of the two modules above. What an upload
that was cut leaves behind (`transfer_short`) as a theorem: the stored body is the
file up to the first part that completed no block.
