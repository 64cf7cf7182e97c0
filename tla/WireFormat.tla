----------------------------- MODULE WireFormat -----------------------------
(***************************************************************************)
(* The bytes of WebSocket frames (dslog/ws/frame.cpp) and what             *)
(* Connection::handle_read, process and write_text make of them            *)
(* (dslog/ws/connection.cpp).  WsServer treats frames as units; here they  *)
(* arrive in pieces, are found in a buffer, unmasked and put together, and *)
(* the server's own frames are laid out.                                   *)
(*                                                                         *)
(* A byte is a number below Radix, which is 256 in the code and may be     *)
(* smaller: the bits that mark a last frame and a mask are its half, and   *)
(* the lengths where a longer form begins follow from it.  The bits rsv1   *)
(* to rsv3 and close frames, which close the connection, are in WsServer.  *)
(***************************************************************************)
EXTENDS Integers, Sequences, FiniteSets, SequencesExt

CONSTANTS
    Radix,          \* the number of values of a byte
    Frames,         \* the frames a viewer may send
    Texts,          \* the lengths of records
    MaxInt,         \* the largest int, 2^31 - 1 in the code
    MaxFrames,      \* bound: frames sent by the viewer and records written
    MaxBytes,       \* bound: their payload, if they are more than one
    MaxCut          \* bound: a read ends at most so many bytes behind the
                    \* start of the buffer or before the end of the stream

ASSUME WireAssumption ==
    /\ Radix \in {32, 64, 128, 256}
    /\ \A f \in Frames :
          /\ f.fin \in BOOLEAN /\ f.opcode \in {0, 1, 2, 9, 10}
          /\ f.key \in Seq(0..(Radix - 1)) /\ Len(f.key) \in {0, 4}
          /\ f.size \in Nat /\ f.size < Radix * Radix * Radix * Radix
          /\ f.size + 14 < 2 * (MaxInt + 1)
    /\ \A n \in Texts : n \in Nat /\ n < Radix * Radix * Radix * Radix
    /\ MaxInt \in Nat
    /\ MaxFrames \in Nat /\ MaxBytes \in Nat /\ MaxCut \in Nat

VARIABLES
    sent,           \* the frames the viewer has sent
    inWire,         \* bytes on their way
    buffer_,        \* bytes received and not consumed
    processed,      \* the frames given to process
    fragment_,      \* the payload put together so far
    messages,       \* what on_message was called with
    out             \* what was written: [kind, payload, bytes]

inVars == <<buffer_, processed, fragment_, messages>>
wireVars == <<sent, inWire, inVars, out>>

-----------------------------------------------------------------------------
(* Bytes. *)

High == Radix \div 2                    \* the highest bit: fin, have_mask
Len16 == High - 2                       \* 126: a 16-bit length follows
Len64 == High - 1                       \* 127: a 64-bit length follows
Max16 == Radix * Radix - 1              \* 0xFFFF

Byte == 0..(Radix - 1)

\* ntohs and htons, ntohll and htonll: big-endian.  No payload has as many bytes
\* as need a fifth digit.
Number(digits) ==
    LET upTo[i \in 0..Len(digits)] == IF i = 0 THEN 0 ELSE upTo[i - 1] * Radix + digits[i]
    IN  upTo[Len(digits)]
Place == <<1, Radix, Radix * Radix, Radix * Radix * Radix>>
Digits(n, w) == [i \in 1..w |-> IF w - i > 3 THEN 0 ELSE (n \div Place[w - i + 1]) % Radix]

Xor ==
    [a \in Byte |-> [b \in Byte |->
        LET bit(p) == p * (((a \div p) + (b \div p)) % 2)
        IN  bit(1) + bit(2) + bit(4) + bit(8) + bit(16) + bit(32) + bit(64) + bit(128)]]

\* Masking with a key of four bytes, or none.
Masked(payload, key) ==
    IF key = <<>> THEN payload
    ELSE [i \in DOMAIN payload |-> Xor[payload[i]][key[((i - 1) % 4) + 1]]]

\* Each payload has bytes of its own.
Content(size, seed) == [i \in 1..size |-> (i * 3 + seed) % Radix]

\* A frame as the RFC lays it out, in the shortest form of its length.
Rfc(fin, opcode, key, payload) ==
    LET n == Len(payload)
        mark == IF key = <<>> THEN 0 ELSE High
        length == CASE n < Len16 -> <<mark + n>>
                    [] n \in Len16..Max16 -> <<mark + Len16>> \o Digits(n, 2)
                    [] n > Max16 -> <<mark + Len64>> \o Digits(n, 8)
    IN  <<(IF fin THEN High ELSE 0) + opcode>> \o length \o key \o Masked(payload, key)

-----------------------------------------------------------------------------
(* Frame::parse and Frame::write. *)

\* The second byte says how many bytes of length follow, and whether a key.
SizeByte(data) == data[2] % High
LengthBytes(data) ==
    CASE SizeByte(data) = Len16 -> 2 [] SizeByte(data) = Len64 -> 8 [] OTHER -> 0
HaveMask(data) == data[2] >= High
HeadSize(data) == 2 + LengthBytes(data) + (IF HaveMask(data) THEN 4 ELSE 0)

PayloadLength(data) ==
    IF LengthBytes(data) = 0 THEN SizeByte(data)
    ELSE Number(SubSeq(data, 3, 2 + LengthBytes(data)))

CompleteLate(data) ==                   \* mutant: body_begin starts one too far
    /\ Len(data) >= 2
    /\ Len(data) >= HeadSize(data)
    /\ Len(data) > HeadSize(data) + PayloadLength(data)

\* parse reaches none of its returns of 0.
Complete(data) ==
    /\ Len(data) >= 2
    /\ Len(data) >= HeadSize(data)
    /\ Len(data) >= HeadSize(data) + PayloadLength(data)

UnmaskedFromOne(data) ==                \* mutant: the key is used from its second byte
    LET body == SubSeq(data, HeadSize(data) + 1, HeadSize(data) + PayloadLength(data))
        masking_key == SubSeq(data, HeadSize(data) - 3, HeadSize(data))
    IN  [i \in DOMAIN body |->
            IF HaveMask(data) THEN Xor[body[i]][masking_key[(i % 4) + 1]] ELSE body[i]]

\* payload_data of a complete frame.
Unmasked(data) ==
    LET body == SubSeq(data, HeadSize(data) + 1, HeadSize(data) + PayloadLength(data))
        masking_key == SubSeq(data, HeadSize(data) - 3, HeadSize(data))
    IN  [i \in DOMAIN body |->
            IF HaveMask(data) THEN Xor[body[i]][masking_key[((i - 1) % 4) + 1]] ELSE body[i]]

\* The first frame in data, and counter, the number of its bytes.
Parse(data) ==
    [counter |-> HeadSize(data) + PayloadLength(data),
     fin |-> data[1] >= High, opcode |-> data[1] % 16, payload_data |-> Unmasked(data)]

WriteHeaderNarrow(f) ==                 \* mutant: <= 126
    LET n == Len(f.payload_data) IN
    <<(IF f.fin THEN High ELSE 0) + (f.opcode % 16)>>
        \o (IF n <= Len16 THEN <<n>>
            ELSE IF n <= Max16 THEN <<Len16>> \o Digits(n, 2)
            ELSE <<Len64>> \o Digits(n, 8))

\* Frame::write: the header only, never with a mask.
WriteHeader(f) ==
    LET n == Len(f.payload_data) IN
    <<(IF f.fin THEN High ELSE 0) + (f.opcode % 16)>>
        \o (IF n < Len16 THEN <<n>>
            ELSE IF n <= Max16 THEN <<Len16>> \o Digits(n, 2)
            ELSE <<Len64>> \o Digits(n, 8))

-----------------------------------------------------------------------------
(* The viewer and the network. *)

Init ==
    /\ sent = <<>>
    /\ inWire = <<>>
    /\ buffer_ = <<>>
    /\ processed = <<>>
    /\ fragment_ = <<>>
    /\ messages = <<>>
    /\ out = <<>>

IsData(f) == f.opcode \in {0, 1, 2}

\* The bounds on what is sent either way allow a payload of this size.
HasRoom(size) ==
    LET records == SelectSeq(out, LAMBDA w : w.kind = "text")
        sizes == [i \in DOMAIN sent |-> Len(sent[i].payload_data)]
                   \o [i \in DOMAIN records |-> Len(records[i].payload)]
    IN  /\ Len(sizes) < MaxFrames
        /\ sizes # <<>> => FoldLeft(+, size, sizes) <= MaxBytes

\* Behind n frames, a message in pieces is begun and not ended.
InPieces(n) ==
    \E i \in 1..n :
        /\ IsData(sent[i]) /\ ~sent[i].fin
        /\ \A j \in (i + 1)..n : ~IsData(sent[j])

\* The viewer sends a frame: a piece that continues a message exactly when one
\* is begun, a ping or pong at any time.
ViewerSends(f) ==
    /\ HasRoom(f.size)
    /\ IsData(f) => (f.opcode = 0 <=> InPieces(Len(sent)))
    /\ LET payload == Content(f.size, Len(sent)) IN
       /\ sent' = Append(sent, [fin |-> f.fin, opcode |-> f.opcode, payload_data |-> payload])
       /\ inWire' = inWire \o Rfc(f.fin, f.opcode, f.key, payload)
    /\ UNCHANGED <<inVars, out>>

\* async_read_until reads only while no complete frame is in the buffer.  The
\* middle of a long payload is not cut.
Receive(n) ==
    /\ n \in 1..Len(inWire)
    /\ Len(buffer_) + n <= MaxCut \/ Len(inWire) - n <= MaxCut
    /\ ~Complete(buffer_)
    /\ buffer_' = buffer_ \o SubSeq(inWire, 1, n)
    /\ inWire' = SubSeq(inWire, n + 1, Len(inWire))
    /\ UNCHANGED <<sent, processed, fragment_, messages, out>>

-----------------------------------------------------------------------------
(* The connection. *)

\* write_raw of one or several pieces: they are written one behind the other.
Writes(kind, payload, bytes) ==
    out' = Append(out, [kind |-> kind, payload |-> payload, bytes |-> bytes])

\* A ping is answered with its own frame, under opcode 0x10 and without its
\* payload.
ProcessPing(f) ==
    /\ f.opcode = 9
    /\ Writes("pong", f.payload_data, WriteHeader([f EXCEPT !.opcode = 16]))
    /\ UNCHANGED <<fragment_, messages>>

ProcessPong(f) ==
    /\ f.opcode = 10
    /\ UNCHANGED <<fragment_, messages, out>>

ProcessPieceKept(f) ==                  \* mutant: fragment_ is not consumed
    /\ f.opcode = 0
    /\ fragment_' = fragment_ \o f.payload_data
    /\ messages' = IF f.fin THEN Append(messages, fragment_') ELSE messages
    /\ UNCHANGED out

\* A continuation; the last one completes the message.
ProcessPiece(f) ==
    /\ f.opcode = 0
    /\ LET s == fragment_ \o f.payload_data IN
       IF f.fin
       THEN /\ messages' = Append(messages, s)
            /\ fragment_' = <<>>
       ELSE /\ fragment_' = s
            /\ UNCHANGED messages
    /\ UNCHANGED out

ProcessText(f) ==
    /\ f.opcode \in {1, 2}
    /\ IF f.fin
       THEN messages' = Append(messages, f.payload_data) /\ UNCHANGED fragment_
       ELSE fragment_' = fragment_ \o f.payload_data /\ UNCHANGED messages
    /\ UNCHANGED out

\* A uint64_t below 2^32 in an int.
ToInt(n) == IF n <= MaxInt THEN n ELSE n - 2 * (MaxInt + 1)

\* handle_read: take the frame that was found from the buffer and process it.
\* What parse returns is put into an int; when that is negative nothing is
\* taken, and async_read finds the same frame again.
HandleRead ==
    /\ Complete(buffer_)
    /\ LET f == Parse(buffer_)
           bytes == ToInt(f.counter)
           frame == [fin |-> f.fin, opcode |-> f.opcode, payload_data |-> f.payload_data]
       IN  IF bytes > 0
           THEN /\ buffer_' = SubSeq(buffer_, bytes + 1, Len(buffer_))
                /\ processed' = Append(processed, frame)
                /\ ProcessPing(frame) \/ ProcessPong(frame) \/ ProcessPiece(frame) \/ ProcessText(frame)
           ELSE UNCHANGED <<inVars, out>>
    /\ UNCHANGED <<sent, inWire>>

\* write_text of a record.
WriteText(size) ==
    /\ HasRoom(size)
    /\ LET payload == Content(size, 0) IN
       Writes("text", payload,
              WriteHeader([fin |-> TRUE, opcode |-> 1, payload_data |-> payload]) \o payload)
    /\ UNCHANGED <<sent, inWire, inVars>>

Next ==
    \/ \E f \in Frames : ViewerSends(f)
    \/ \E n \in 1..Len(inWire) : Receive(n)
    \/ HandleRead
    \/ \E size \in Texts : WriteText(size)

\* What is on its way arrives, and a handler that can run is run.
WireSpec ==
    /\ Init /\ [][Next]_wireVars
    /\ WF_wireVars(\E n \in 1..Len(inWire) : Receive(n))
    /\ WF_wireVars(HandleRead)

-----------------------------------------------------------------------------
(* Properties. *)

\* However the stream is cut, process is given the frames that were sent, each
\* once, in order and with its own payload (frame.cpp, parse, called twice for
\* each frame, by buffer_ready_condition and by handle_read), and no byte is
\* left over behind the last one.
FramesReceived ==
    /\ IsPrefix(processed, sent)
    /\ processed = sent => buffer_ = <<>> /\ inWire = <<>>

\* The first i strings, one behind the other.
Joined(strings) ==
    LET upTo[i \in 0..Len(strings)] == IF i = 0 THEN <<>> ELSE upTo[i - 1] \o strings[i]
    IN  upTo

\* What each frame adds to a message, and the frames up to the n-th that end one.
Pieces == [i \in DOMAIN sent |-> IF IsData(sent[i]) THEN sent[i].payload_data ELSE <<>>]
Ends(n) == {i \in 1..n : IsData(sent[i]) /\ sent[i].fin}

\* on_message is called with what the viewer sent as one message, in however
\* many pieces and with whatever pings between them, and the pieces of the next
\* one are kept (connection.cpp, process).
MessagesWhole ==
    LET n == Len(processed)
        given == Joined(messages)
        received == Joined(Pieces)
    IN  /\ Len(messages) = Cardinality(Ends(n))
        /\ \A i \in Ends(n) : given[Cardinality(Ends(i))] = received[i]
        /\ given[Len(messages)] \o fragment_ = received[n]

\* A record is written as one text frame of the RFC, whichever form its length
\* has (connection.cpp, write_text; frame.cpp, write).
TextsReadable ==
    \A i \in DOMAIN out :
        out[i].kind = "text" => out[i].bytes = Rfc(TRUE, 1, <<>>, out[i].payload)

\* The first k frames are short enough for the int of handle_read.
FitInt(k) == \A i \in 1..k : Len(sent[i].payload_data) + 14 <= MaxInt

\* However the stream is cut, no frame waits in the buffer for bytes of a later
\* one, as long as no frame is longer than an int (frame.cpp, parse).
AllProcessed ==
    \A k \in 1..MaxFrames : Len(sent) >= k /\ FitInt(k) ~> Len(processed) >= k

=============================================================================
