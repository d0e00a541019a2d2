---------------------------- MODULE HttpDownload ----------------------------
(***************************************************************************)
(* The download of one HTTP response: the server and the network, the      *)
(* parser that is fed with whatever recv returns (realtimePacketParser.c), *)
(* and its two callers: the Google Drive driver, which returns the body in *)
(* parts (googleDownloadDriver.c), and utils_recvNextHttpPacket, which     *)
(* returns it whole.                                                       *)
(*                                                                         *)
(* A byte is a string; the name of a header, its value and a length are    *)
(* one byte each, or two.                                                  *)
(***************************************************************************)
EXTENDS Integers, Sequences

CONSTANTS Data,      \* the bytes that bodies are made of
          Responses, \* the responses of the server: see Body
          Stale,     \* what a packet buffer may hold beyond what recv wrote
          BufferMax  \* the buffer that recv fills

CR    == "CR"
LF    == "LF"
SP    == "SP"
Colon == ":"
Nul   == "NUL"

TransferEncoding == "Transfer-Encoding"
ContentLength    == "Content-Length"
Chunked          == "chunked"

Digits == <<"0", "1", "2", "3", "4", "5", "6", "7", "8", "9">>
Digit(n) == Digits[n + 1]

\* What a byte of a response can be: a word is one byte here.
Chars == Data \cup {"HTTP", "Da", "te", "now", TransferEncoding, ContentLength, Chunked}
              \cup {CR, LF, SP, Colon} \cup {Digit(n) : n \in 0..9}

\* strtol: leading spaces, then a number, 0 if there is none.  Lengths have one
\* digit here.
Strtol(s) ==
  LET start == IF s # << >> /\ s[1] = SP THEN 2 ELSE 1
      value == {n \in 0..9 : start <= Len(s) /\ s[start] = Digit(n)}
  IN  IF value = {} THEN 0 ELSE CHOOSE n \in value : TRUE

VARIABLES
  response,  \* what the server answers
  wire,      \* bytes it has sent that recv has not returned
  link,      \* its end of the connection: "open", "closed" or "reset"
  cut,       \* it closed or reset before the end of the response
  parser,    \* HTTPParserState_t
  mode,      \* the caller: "update" or "whole"
  pc,        \* what the caller does next
  packet,    \* packetBuffer, from currentPacketPtr to its end
  buf,       \* the data that process_data wrote since the call
  out,       \* history: the data that was returned to the caller
  result     \* what the last call returned, NoResult before the first

server == <<response, wire, link, cut>>
vars   == <<server, parser, mode, pc, packet, buf, out, result>>

NoResult == -1

-----------------------------------------------------------------------------
(* The server                                                               *)

Header(name, value) == <<name, Colon, SP, value, CR, LF>>

Chunk(data) == <<Digit(Len(data)), CR, LF>> \o data \o <<CR, LF>>

\* All parts of a response one after the other.
Joined(parts) ==
  LET upTo[i \in 0..Len(parts)] == IF i = 0 THEN << >> ELSE upTo[i - 1] \o parts[i]
  IN  upTo[Len(parts)]

\* A response is a framing and the parts of a body: with "chunked" each part is
\* a chunk, with "length" they are one body, "none" has no body.
Body(r) == Joined(r.parts)

Preamble == <<"HTTP", CR, LF>> \o <<"Da", "te", Colon, SP, "now", CR, LF>>

Bytes(r) ==
  CASE r.framing = "chunked" ->
         Preamble \o Header(TransferEncoding, Chunked) \o <<CR, LF>>
           \o Joined([i \in DOMAIN r.parts |-> Chunk(r.parts[i])]) \o Chunk(<< >>)
    [] r.framing = "length" ->
         Preamble \o Header(ContentLength, Digit(Len(Body(r)))) \o <<CR, LF>> \o Body(r)
    [] r.framing = "none" -> <<"HTTP", CR, LF, CR, LF>>

\* No chunk is empty but the last, and lengths have one digit.
ASSUME ResponsesAssumption ==
  \A r \in Responses :
    /\ r \in [framing : {"chunked", "length", "none"}, parts : Seq(Seq(Data) \ {<< >>})]
    /\ r.framing = "chunked" => \A i \in DOMAIN r.parts : Len(r.parts[i]) <= 9
    /\ r.framing = "length" => Len(Body(r)) <= 9
    /\ r.framing = "none" => r.parts = << >>
ASSUME BufferAssumption == BufferMax \in Nat

\* It closes in order, after any part of what was still to come.
ServerClose ==
  /\ link = "open" /\ link' = "closed"
  /\ \E n \in 0..Len(wire) :
       wire' = SubSeq(wire, 1, n) /\ cut' = (n < Len(wire))
  /\ UNCHANGED <<response, parser, mode, pc, packet, buf, out, result>>

ServerReset ==
  /\ link = "open" /\ link' = "reset"
  /\ wire' = << >> /\ cut' = (wire # << >>)
  /\ UNCHANGED <<response, parser, mode, pc, packet, buf, out, result>>

-----------------------------------------------------------------------------
(* The parser                                                               *)

\* set_new_parser_state_struct
NewParser == [state |-> "getHTTPStatusLine", pos |-> 0, type |-> "empty", remaining |-> 0,
              name |-> << >>, value |-> << >>, length |-> << >>]

Init ==
  /\ response \in Responses /\ wire = Bytes(response) /\ link = "open" /\ cut = FALSE
  /\ parser = NewParser /\ mode \in {"update", "whole"}
  /\ pc = "idle" /\ packet = << >> /\ buf = << >> /\ out = << >> /\ result = NoResult

State(s) == pc \in {"parse", "overrun"} /\ packet # << >> /\ parser.state = s
Byte == packet[1]

SetState(q, s) == [q EXCEPT !.pos = 0, !.state = s]

\* token_check of "\r\n": a byte that does not go on with it starts again, and
\* is not tried as a first one.
Matches  == Byte = <<CR, LF>>[parser.pos + 1]
LineDone == Matches /\ parser.pos = 1
Position == IF Matches THEN parser.pos + 1 ELSE 0

\* process_data breaks off at packetEnd_s and forgets the rest of the packet.
Processed(q) ==
  /\ parser' = q
  /\ packet' = IF q.state = "packetEnd" THEN << >> ELSE Tail(packet)
  /\ UNCHANGED <<server, mode, pc, out, result>>

StatusLineByte ==
  /\ State("getHTTPStatusLine")
  /\ Processed(IF LineDone THEN SetState(parser, "finishedHTTPStatusLine")
               ELSE [parser EXCEPT !.pos = Position])
  /\ UNCHANGED buf

\* The first byte of a header clears both buffers.
LineStartByte ==
  /\ State("finishedHTTPStatusLine") \/ State("finishedHeaderValue")
  /\ Processed(IF Byte = CR THEN SetState(parser, "finishedHeaderValue_2")
               ELSE [SetState(parser, "getHeaderName") EXCEPT
                       !.name = <<Byte>>, !.value = << >>])
  /\ UNCHANGED buf

HeaderNameByte ==
  /\ State("getHeaderName")
  /\ Processed(IF Byte = Colon THEN SetState(parser, "getHeaderValue")
               ELSE [parser EXCEPT !.pos = 0, !.name = Append(@, Byte)])
  /\ UNCHANGED buf

\* process_header, for the headers that decide where the body ends.
WithHeader(q) ==
  IF q.name = <<TransferEncoding>> /\ q.value = <<SP, Chunked>>
  THEN [q EXCEPT !.type = "chunked"]
  ELSE IF q.name = <<ContentLength>>
  THEN [q EXCEPT !.type = "length", !.remaining = Strtol(q.value)]
  ELSE q

\* The CR is in the value until the LF comes.
HeaderValueByte ==
  /\ State("getHeaderValue")
  /\ Processed(IF LineDone
               THEN WithHeader([SetState(parser, "finishedHeaderValue") EXCEPT
                                  !.value = SubSeq(@, 1, Len(@) - 1)])
               ELSE [parser EXCEPT !.pos = Position, !.value = Append(@, Byte)])
  /\ UNCHANGED buf

HeaderEndByte ==
  /\ State("finishedHeaderValue_2")
  /\ Processed(IF Byte # LF THEN parser
               ELSE SetState(parser, CASE parser.type = "chunked" -> "getChunkLength"
                                       [] parser.type = "length" -> "getContentLengthData"
                                       [] parser.type = "empty" -> "packetEnd"))
  /\ UNCHANGED buf

ChunkLengthByte ==
  /\ State("getChunkLength")
  /\ LET n == Strtol(parser.length) IN
     Processed(IF LineDone
               THEN [SetState(parser, IF n = 0 THEN "packetEnd" ELSE "getChunkData")
                       EXCEPT !.remaining = n]
               ELSE IF Matches THEN [parser EXCEPT !.pos = Position]
               ELSE [parser EXCEPT !.pos = 0, !.length = Append(@, Byte)])
  /\ UNCHANGED buf

Counted(q) == [q EXCEPT !.remaining = @ - 1]

ChunkDataLate ==   \* mutant: the chunk ends when nothing remains
  /\ State("getChunkData")
  /\ buf' = Append(buf, Byte)
  /\ Processed(Counted(IF parser.remaining # 0 THEN parser
                       ELSE [SetState(parser, "finishedChunkData") EXCEPT !.length = << >>]))

ChunkDataKeepsLength ==   \* mutant: lengthBuffer is not cleared
  /\ State("getChunkData")
  /\ buf' = Append(buf, Byte)
  /\ Processed(Counted(IF parser.remaining # 1 THEN parser
                       ELSE SetState(parser, "finishedChunkData")))

\* What the caller's buffer has of this call: every byte of data is written with
\* a NUL after it, which the next byte overwrites.
Written == IF buf = << >> THEN << >> ELSE Append(buf, Nul)

\* Data is written to the output whatever it is, and whatever its length: see
\* Written for the NUL after it.
ChunkDataByte ==
  /\ State("getChunkData")
  /\ buf' = Append(buf, Byte)
  /\ Processed(Counted(IF parser.remaining # 1 THEN parser
                       ELSE [SetState(parser, "finishedChunkData") EXCEPT !.length = << >>]))

ChunkEndByte ==
  /\ State("finishedChunkData")
  /\ Processed(IF LineDone THEN SetState(parser, "getChunkLength")
               ELSE [parser EXCEPT !.pos = Position])
  /\ UNCHANGED buf

\* The same for a body of a given length, the NUL included.
LengthDataByte ==
  /\ State("getContentLengthData")
  /\ buf' = Append(buf, Byte)
  /\ Processed(Counted(IF parser.remaining # 1 THEN parser ELSE SetState(parser, "packetEnd")))

process_byte ==
  \/ StatusLineByte \/ LineStartByte \/ HeaderNameByte \/ HeaderValueByte
  \/ HeaderEndByte \/ ChunkLengthByte \/ ChunkDataByte \/ ChunkEndByte \/ LengthDataByte

-----------------------------------------------------------------------------
(* The callers                                                              *)

AtEnd == parser.state = "packetEnd"

Return(data) ==
  /\ pc' = "idle" /\ out' = out \o data /\ buf' = << >> /\ result' = Len(data)

CallReceives ==   \* mutant: the parser's end is not looked at first
  /\ pc = "idle" /\ (mode = "whole" => result = NoResult)
  /\ pc' = "recv"
  /\ UNCHANGED <<server, parser, mode, packet, buf, out, result>>

\* A call of downloadUpdate returns 0 at once when the parser is at the end.
\* utils_recvNextHttpPacket is called once.
Call ==
  /\ pc = "idle" /\ (mode = "whole" => result = NoResult)
  /\ IF AtEnd THEN Return(<< >>) ELSE pc' = "recv" /\ UNCHANGED <<buf, out, result>>
  /\ UNCHANGED <<server, parser, mode, packet>>

RecvForgets ==   \* mutant: the place in the token is lost between packets
  /\ pc = "recv" /\ wire # << >>
  /\ \E n \in 1..Len(wire) :
       n <= BufferMax /\ packet' = SubSeq(wire, 1, n) /\ wire' = SubSeq(wire, n + 1, Len(wire))
  /\ pc' = "parse" /\ parser' = [parser EXCEPT !.pos = 0]
  /\ UNCHANGED <<response, link, cut, mode, buf, out, result>>

RecvAll ==   \* mutant: more than the caller's buffer
  /\ pc = "recv" /\ wire # << >>
  /\ packet' = wire /\ wire' = << >>
  /\ pc' = "parse"
  /\ UNCHANGED <<response, link, cut, parser, mode, buf, out, result>>

\* No more than the caller's buffer has room for.
Recv ==
  /\ pc = "recv" /\ wire # << >>
  /\ \E n \in 1..Len(wire) :
       n <= BufferMax /\ packet' = SubSeq(wire, 1, n) /\ wire' = SubSeq(wire, n + 1, Len(wire))
  /\ pc' = "parse"
  /\ UNCHANGED <<response, link, cut, parser, mode, buf, out, result>>

RecvEndEarly ==   \* mutant: a closed connection is not drained
  /\ pc = "recv" /\ link = "closed"
  /\ IF mode = "update" THEN Return(<< >>) ELSE pc' = "parse" /\ UNCHANGED <<buf, out, result>>
  /\ UNCHANGED <<server, parser, mode, packet>>

\* recv returns 0: downloadUpdate returns 0 as well, utils_recvNextHttpPacket
\* parses nothing and goes on.
RecvEnd ==
  /\ pc = "recv" /\ wire = << >> /\ link = "closed"
  /\ IF mode = "update" THEN Return(<< >>) ELSE pc' = "parse" /\ UNCHANGED <<buf, out, result>>
  /\ UNCHANGED <<server, parser, mode, packet>>

\* recv returns -1, once: process_data starts at the packet buffer, never meets
\* its end and parses what the memory holds.
RecvError ==
  /\ pc = "recv" /\ link = "reset" /\ link' = "closed"
  /\ packet' \in Stale /\ pc' = "overrun"
  /\ UNCHANGED <<response, wire, cut, parser, mode, buf, out, result>>

ParsedOnce ==   \* mutant: a packet without data ends the call
  /\ packet = << >> /\ pc \in (IF AtEnd THEN {"parse", "overrun"} ELSE {"parse"})
  /\ IF AtEnd \/ mode = "update"
     THEN Return(buf)
     ELSE pc' = "recv" /\ UNCHANGED <<buf, out, result>>
  /\ UNCHANGED <<server, parser, mode, packet>>

\* The end of process_data.  downloadUpdate returns what was written, and goes
\* on when that is nothing.
Parsed ==
  /\ packet = << >> /\ pc \in (IF AtEnd THEN {"parse", "overrun"} ELSE {"parse"})
  /\ IF AtEnd \/ (mode = "update" /\ buf # << >>)
     THEN Return(buf)
     ELSE pc' = "recv" /\ UNCHANGED <<buf, out, result>>
  /\ UNCHANGED <<server, parser, mode, packet>>

\* The memory ends.
Segfault ==
  /\ pc = "overrun" /\ packet = << >> /\ ~AtEnd /\ pc' = "segv"
  /\ UNCHANGED <<server, parser, mode, packet, buf, out, result>>

Download == Recv \/ RecvEnd \/ process_byte \/ Parsed

Next == Call \/ Download \/ ServerClose

\* The process runs and the bytes on the wire arrive; the caller goes on until
\* a call returns 0.
Fairness == WF_vars(Download) /\ WF_vars(Call /\ result # 0)

Spec == Init /\ [][Next]_vars /\ Fairness

\* With a server that may reset the connection.
ResetNext == Next \/ ServerReset \/ RecvError \/ Segfault
ResetSpec == Init /\ [][ResetNext]_vars
=============================================================================
