------------------------------ MODULE HttpConn ------------------------------
(***************************************************************************)
(* http_conn: one connection slot of the proactor and the clients that use *)
(* it one after the other.  The main thread reads and writes, a worker     *)
(* parses in between, never both at once (module WebServer).  What a line  *)
(* or a body is cut into, and how much each writev takes, is open.  The    *)
(* text of a line is one element of the buffer, like CR, LF and each piece *)
(* of a body.  A client waits for the answer before it asks again.         *)
(***************************************************************************)
EXTENDS Integers, Sequences, FiniteSets, FiniteSetsExt

CONSTANTS
    Messages,       \* requests: [line, headers, body]
    ContentLength,  \* the lengths that headers give
    Pieces,         \* what bodies consist of
    FileSizes,      \* sizes a requested file can have
    HeadSize,       \* length of status line and headers, or of an error page
    BufferSize,     \* READ_BUFFER_SIZE
    ByteSize,       \* what the low byte of an int counts up to, 256
    BodyWhole,      \* TRUE: a body arrives in one piece
    HeadInTwo       \* TRUE: two writevs are enough for the head

ASSUME SizesAssumption ==
    /\ HeadSize \in Nat \ {0} /\ BufferSize \in Nat \ {0}
    /\ FileSizes \subseteq Nat /\ FileSizes # {}

ASSUME ByteAssumption == ByteSize \in Nat \ {0} /\ BufferSize % ByteSize = 0

\* "lf" is a line with a lone LF.
LineTexts == {"get", "post", "junk", "lf"}

HeaderTexts == {"alive", "other"} \cup DOMAIN ContentLength

ASSUME LengthsAssumption ==
    /\ ContentLength \in [DOMAIN ContentLength -> Nat]
    /\ DOMAIN ContentLength \cap {"blank", "alive", "CR", "LF"} = {}

Declared(m) == {i \in DOMAIN m.headers : m.headers[i] \in DOMAIN ContentLength}

WellFormed(m) == m.line \in {"get", "post"}

\* A well-formed request gives the length of its body, if it has one.
ASSUME MessagesAssumption ==
    \A m \in Messages :
        /\ m.line \in LineTexts /\ m.headers \in Seq(HeaderTexts) /\ m.body \in Seq(Pieces)
        /\ WellFormed(m) =>
             /\ IF m.body = <<>> THEN m.line = "get" ELSE Declared(m) # {}
             /\ \A i \in Declared(m) : ContentLength[m.headers[i]] = Len(m.body)

\* What the client sends for a message, up to its body and with it.
Line(text) == (IF text = "lf" THEN <<"get", "LF">> ELSE <<text>>) \o <<"CR", "LF">>

HeaderLines(hs) ==
    [i \in 1..3 * Len(hs) |->
        CASE i % 3 = 1 -> hs[(i + 2) \div 3] [] i % 3 = 2 -> "CR" [] i % 3 = 0 -> "LF"]

Lines == [m \in Messages |-> Line(m.line) \o HeaderLines(m.headers) \o <<"CR", "LF">>]

Bytes == [m \in Messages |-> Lines[m] \o m.body]

VARIABLES
    mode,           \* m_trigger_mode
    pc,             \* what the server does next with the connection
    status,         \* process_read's line_status
    in,             \* what process_read works on, see Fresh
    content,        \* m_content, which init leaves alone
    ret,            \* process's read_ret
    address,        \* m_file_address: size of the mapping, 0 for null, -1 for MAP_FAILED
    fileSize,       \* m_file_stat.st_size
    leaked,         \* is there a mapping that nobody will unmap
    head, have, left,   \* m_write_idx, m_bytes_have_send, m_bytes_to_send
    iov,            \* m_iovec
    msg, sent, taken,   \* the client's request, bytes of it sent and read
    got,            \* bytes of the response the client has received
    due,            \* length of the response prepared for it
    done,           \* has write() sent all of it
    cut             \* was a connection dropped in the middle of a file

parser == <<status, in, content>>
file == <<address, fileSize, leaked>>
out == <<head, have, left, iov>>
client == <<msg, sent, taken>>
reply == <<got, due, done>>
vars == <<mode, pc, parser, ret, file, out, client, reply, cut>>

\* The parser's fields after init: m_read_buf up to m_read_idx, m_checked_idx,
\* m_start_line, m_check_state, m_cgi, m_keep_alive and m_content_length.
Fresh == [buf |-> <<>>, checked |-> 0, start |-> 0, state |-> "line",
          cgi |-> FALSE, alive |-> FALSE, length |-> 0]

NoVectors == <<[base |-> 0, len |-> 0], [base |-> 0, len |-> 0]>>

Init ==
    /\ mode \in {"LT", "ET"}
    /\ pc = "closed" /\ status = "ok" /\ in = Fresh /\ content = <<>> /\ ret = "none"
    /\ address = 0 /\ fileSize = 0 /\ leaked = FALSE
    /\ head = 0 /\ have = 0 /\ left = 0 /\ iov = NoVectors
    /\ msg \in Messages /\ sent = 0 /\ taken = 0
    /\ got = <<>> /\ due = 0 /\ done = FALSE /\ cut = FALSE

\* Defective: what the parser knows of the last request is kept.
ForgetBytes == in' = [in EXCEPT !.buf = <<>>, !.checked = 0, !.start = 0, !.state = "line"]

ForgetRequest == in' = Fresh

\* init().
InitSlot ==
    /\ ForgetRequest
    /\ head' = 0 /\ have' = 0 /\ left' = 0

----------------------------------------------------------------------------
(* The clients. *)

Ask ==
    /\ msg' \in Messages
    /\ sent' = 0 /\ taken' = 0
    /\ got' = <<>> /\ due' = 0 /\ done' = FALSE

\* A client connects to the free slot.
Connect ==
    /\ pc = "closed"
    /\ Ask
    /\ pc' = "in"
    /\ InitSlot
    /\ UNCHANGED <<mode, status, content, ret, file, iov, cut>>

\* The client of a kept connection goes on.
AskAgain ==
    /\ pc = "in" /\ done
    /\ Ask
    /\ UNCHANGED <<mode, pc, parser, ret, file, out, cut>>

\* What arrives while the server is busy could as well arrive when it is not:
\* only read() looks.
Arrive(n) ==
    /\ pc = "in" /\ ~done
    /\ sent + n <= Len(Bytes[msg])
    /\ BodyWhole => sent + n <= Len(Lines[msg]) \/ sent + n = Len(Bytes[msg])
    /\ sent' = sent + n
    /\ UNCHANGED <<mode, pc, parser, ret, file, out, msg, taken, reply, cut>>

\* The connection is hung up, or its timer expires, while no worker has it.
Drop ==
    /\ pc \in {"in", "out"}
    /\ pc' = "closed"
    /\ cut' = (cut \/ (pc = "out" /\ address > 0))
    /\ UNCHANGED <<mode, parser, ret, file, out, client, reply>>

----------------------------------------------------------------------------
(* read. *)

Waiting == sent - taken

Room == BufferSize - Len(in.buf)

\* Edge-triggered, recv goes on until there is nothing left, and one for no
\* bytes at all returns 0 like a closed connection.
Readable == Room > 0 /\ (mode = "ET" => Waiting < Room)

\* Defective: all there is.
AllWaiting == Waiting

Amount == Min({Waiting, Room})

Read ==
    /\ pc = "in" /\ Waiting > 0 /\ Readable
    /\ in' = [in EXCEPT !.buf = @ \o SubSeq(Bytes[msg], taken + 1, taken + Amount)]
    /\ taken' = taken + Amount
    /\ pc' = "parse" /\ status' = "ok"
    /\ UNCHANGED <<mode, content, ret, file, out, msg, sent, reply, cut>>

\* The main thread closes a connection it can not read from.
ReadFails ==
    /\ pc = "in" /\ Waiting > 0 /\ ~Readable
    /\ pc' = "closed"
    /\ UNCHANGED <<mode, parser, ret, file, out, client, reply, cut>>

----------------------------------------------------------------------------
(* process_read. *)

\* parse_line: positions count from 0 as in the code.
At(i) == in.buf[i + 1]

Ends == {i \in in.checked..Len(in.buf) - 1 : At(i) \in {"CR", "LF"}}

End == Min(Ends)

LineOpen == Ends = {} \/ (At(End) = "CR" /\ End + 1 = Len(in.buf))

LineOk ==
    /\ ~LineOpen
    /\ \/ At(End) = "CR" /\ At(End + 1) = "LF"
       \/ At(End) = "LF" /\ End > 1 /\ At(End - 1) = "CR"

Checked ==
    IF Ends = {} THEN Len(in.buf)
    ELSE IF LineOk THEN (IF At(End) = "CR" THEN End + 2 ELSE End + 1)
    ELSE End

\* get_line: the text of the line, or "blank".
Text == IF End = in.start THEN "blank" ELSE At(in.start)

\* The loop takes the body without a look at its lines.
TakeBody == in.state = "content" /\ status = "ok"

\* Defective: m_start_line stays.
SameStart(f) == [f EXCEPT !.checked = Checked]

\* On to the next line.
NextLine(f) == [f EXCEPT !.checked = Checked, !.start = Checked]

ParseRequestLine ==
    /\ pc = "parse" /\ in.state = "line" /\ LineOk
    /\ IF Text \in {"get", "post"}
       THEN /\ in' = NextLine([in EXCEPT !.state = "header", !.cgi = (Text = "post")])
            /\ UNCHANGED <<pc, ret>>
       ELSE /\ in' = NextLine(in)
            /\ ret' = "bad" /\ pc' = "reply"
    /\ UNCHANGED <<mode, status, content, file, out, client, reply, cut>>

ParseHeader ==
    /\ pc = "parse" /\ in.state = "header" /\ LineOk
    /\ in' = NextLine(
         CASE Text = "blank" -> [in EXCEPT !.state = IF in.length # 0 THEN "content" ELSE @]
           [] Text = "alive" -> [in EXCEPT !.alive = TRUE]
           [] Text \in DOMAIN ContentLength -> [in EXCEPT !.length = ContentLength[Text]]
           [] OTHER -> in)
    /\ pc' = IF Text = "blank" /\ in.length = 0 THEN "request" ELSE pc
    /\ UNCHANGED <<mode, status, content, ret, file, out, client, reply, cut>>

\* Defective: off by one.
BodyAndMore(from) == Len(in.buf) > in.length + from

BodyComplete(from) == Len(in.buf) >= in.length + from

\* m_read_buf after text[m_content_length] = '\0', when that is byte i of it.
\* Behind the bytes read it shows nowhere; behind the whole buffer it falls on
\* m_read_idx, the next field, and clears its low byte.
Terminated(i) ==
    IF i < Len(in.buf) THEN [in.buf EXCEPT ![i + 1] = "NUL"]
    ELSE IF i < BufferSize THEN in.buf
    ELSE SubSeq(in.buf, 1, Len(in.buf) - (Len(in.buf) % ByteSize))

\* parse_content; the text still begins where the last line ended.
ParseContent ==
    LET from == IF TakeBody THEN in.checked ELSE Checked IN
    /\ pc = "parse" /\ in.state = "content" /\ (TakeBody \/ LineOk)
    /\ IF BodyComplete(from)
       THEN /\ in' = [in EXCEPT !.checked = from, !.start = from,
                                !.buf = Terminated(in.start + in.length)]
            /\ content' = SubSeq(in.buf, in.start + 1, in.start + in.length)
            /\ pc' = "request" /\ UNCHANGED status
       ELSE /\ in' = [in EXCEPT !.checked = from, !.start = from]
            /\ status' = "open" /\ UNCHANGED <<content, pc>>
    /\ UNCHANGED <<mode, ret, file, out, client, reply, cut>>

\* NO_REQUEST: parse_line has found no whole line, or a bad one.
ParseMore ==
    /\ pc = "parse" /\ ~TakeBody /\ ~LineOk
    /\ in' = [in EXCEPT !.checked = Checked]
    /\ pc' = "in"
    /\ UNCHANGED <<mode, status, content, ret, file, out, client, reply, cut>>

----------------------------------------------------------------------------
(* do_request and process_write. *)

\* An empty file can not be mapped; open and mmap may fail for others as well.
DoRequestFile(n) ==
    /\ pc = "request"
    /\ ret' = "file" /\ pc' = "reply"
    /\ fileSize' = n
    /\ address' \in IF n = 0 THEN {-1} ELSE {-1, n}
    /\ leaked' = (leaked \/ address > 0)
    /\ UNCHANGED <<mode, parser, out, client, reply, cut>>

\* No such file, one that others may not read, or a directory.
DoRequestNoFile ==
    /\ pc = "request" /\ pc' = "reply"
    /\ \/ ret' = "absent" /\ UNCHANGED fileSize
       \/ ret' \in {"forbidden", "bad"} /\ fileSize' \in FileSizes
    /\ UNCHANGED <<mode, parser, address, leaked, out, client, reply, cut>>

\* There is no answer to a missing or an empty file.
NoAnswer == ret = "absent" \/ (ret = "file" /\ fileSize = 0)

SizeOfReply == IF ret = "file" THEN HeadSize + fileSize ELSE HeadSize

ProcessWrite ==
    /\ pc = "reply" /\ ~NoAnswer
    /\ head' = HeadSize /\ left' = SizeOfReply /\ due' = SizeOfReply
    /\ iov' = <<[base |-> 0, len |-> HeadSize],
                [base |-> 0, len |-> IF ret = "file" THEN fileSize ELSE 0]>>
    /\ pc' = "out" /\ ret' = "none"
    /\ UNCHANGED <<mode, parser, file, have, client, got, done, cut>>

CloseConn ==
    /\ pc = "reply" /\ NoAnswer
    /\ pc' = "closed" /\ ret' = "none"
    /\ UNCHANGED <<mode, parser, file, out, client, reply, cut>>

----------------------------------------------------------------------------
(* write. *)

\* Defective: the mapping is kept.
KeepMapping == UNCHANGED <<address, leaked>>

\* munmap with another size than the mapping's leaves some of it.
Unmap ==
    /\ address' = 0
    /\ leaked' = (leaked \/ (address > 0 /\ address # fileSize))

\* The bytes the two vectors stand for: of the head, of the file behind it,
\* and 0 for what is neither.
Vector(v, from, size) ==
    [i \in 1..v.len |-> IF v.base + i \in 1..size THEN from + v.base + i ELSE 0]

Vectors == Vector(iov[1], 0, head) \o Vector(iov[2], head, address)

\* The second vector points nowhere: the file could not be mapped.
Unmapped == address = -1 /\ iov[2].len > 0

Sendable == IF Unmapped THEN iov[1].len ELSE Len(Vectors)

\* Defective: the file is sent from its beginning again.
FileRestart(h) == 0

FileOffset(h) == h - head

\* Where the vectors point after all in all h bytes.
Advance(h, rest) ==
    IF h >= iov[1].len
    THEN <<[iov[1] EXCEPT !.len = 0], [base |-> FileOffset(h), len |-> rest]>>
    ELSE <<[base |-> h, len |-> iov[1].len - h], iov[2]>>

\* One writev, and the return of write() when it was the last.
Writev(n) ==
    /\ pc \in {"out", "writing"} /\ left > 0
    /\ n <= Sendable
    /\ HeadInTwo /\ have > 0 => have + n >= head
    /\ got' = got \o SubSeq(Vectors, 1, n)
    /\ iov' = Advance(have + n, left - n)
    /\ IF left - n > 0
       THEN /\ have' = have + n /\ left' = left - n
            /\ pc' = "writing"
            /\ UNCHANGED <<in, head, address, leaked, done>>
       ELSE /\ Unmap
            /\ done' = TRUE
            /\ IF in.alive
               THEN pc' = "in" /\ InitSlot
               ELSE /\ pc' = "closed"
                    /\ have' = have + n /\ left' = left - n /\ UNCHANGED <<in, head>>
    /\ UNCHANGED <<mode, status, content, ret, fileSize, client, due, cut>>

\* EAGAIN: write() returns and is called again when the socket has room.
WriteBlocks ==
    /\ pc = "writing"
    /\ pc' = "out"
    /\ UNCHANGED <<mode, parser, ret, file, out, client, reply, cut>>

WriteFails ==
    /\ pc \in {"out", "writing"}
    /\ Unmap
    /\ pc' = "closed"
    /\ UNCHANGED <<mode, parser, ret, fileSize, out, client, reply, cut>>

\* EFAULT, at once or when the head is out.
WriteFaults == Unmapped /\ WriteFails

----------------------------------------------------------------------------

Parse == ParseRequestLine \/ ParseHeader \/ ParseContent \/ ParseMore

Serve ==
    \/ Read \/ ReadFails \/ Parse
    \/ DoRequestNoFile \/ \E n \in FileSizes : DoRequestFile(n)
    \/ ProcessWrite \/ CloseConn
    \/ WriteFaults \/ \E n \in 1..Sendable : Writev(n)

Next ==
    \/ Connect \/ AskAgain \/ Drop \/ Serve \/ WriteBlocks \/ WriteFails
    \/ \E n \in 1..Len(Bytes[msg]) : Arrive(n)

Spec == Init /\ [][Next]_vars

\* Threads go on, and a client takes what is sent to it.
Fairness == WF_vars(Serve)

FairSpec == Spec /\ Fairness

----------------------------------------------------------------------------
(* Correctness. *)

Codes == {"none", "absent", "bad", "forbidden", "file"}

\* Each variable keeps its type; recv never gets more than the read buffer has
\* room for and no index runs ahead of the bytes read.
TypeOK ==
    /\ mode \in {"LT", "ET"}
    /\ pc \in {"closed", "in", "parse", "request", "reply", "out", "writing"}
    /\ status \in {"ok", "open"}
    /\ Len(in.buf) <= BufferSize /\ in.checked \in 0..Len(in.buf) /\ in.start \in 0..in.checked
    /\ in.state \in {"line", "header", "content"}
    /\ in.cgi \in BOOLEAN /\ in.alive \in BOOLEAN /\ in.length \in Nat
    /\ ret \in Codes
    /\ address \in Nat \cup {-1} /\ fileSize \in Nat /\ leaked \in BOOLEAN
    /\ head \in Nat /\ have \in Nat /\ left \in Nat
    /\ \A v \in {1, 2} : iov[v].base \in Nat /\ iov[v].len \in Nat
    /\ msg \in Messages /\ sent \in 0..Len(Bytes[msg]) /\ taken \in 0..sent
    /\ done \in BOOLEAN /\ cut \in BOOLEAN

Has(h) == \E i \in DOMAIN msg.headers : msg.headers[i] = h

\* However it was cut, a request goes to do_request whole, not before its last
\* byte was read, and as the client meant it.  parse_content may terminate a
\* body that just fills the buffer one byte past it: m_read_idx still says how
\* much was read.
RequestMeant ==
    pc = "request" =>
        /\ taken = Len(Bytes[msg]) /\ WellFormed(msg)
        /\ Len(in.buf) = taken
        /\ in.cgi = (msg.line = "post")
        /\ in.alive = Has("alive")
        /\ in.length = Len(msg.body)
        /\ in.cgi => content = msg.body

\* The server does not ask for more of a request that it has read to its end,
\* and has nothing left to read of one it has answered when it goes on.
CompleteIsTaken ==
    pc = "in" =>
        /\ WellFormed(msg) => done \/ taken < Len(Bytes[msg])
        /\ done => Waiting = 0

Response(size) == [i \in 1..size |-> i]

\* The client receives the head and the file byte by byte, whatever each
\* writev takes of the file and in however many calls, and all of it before
\* write() takes the response for sent.  With HeadInTwo the head takes two
\* writevs at most: a third goes wrong, as a comment in write() suspects.
ResponseExact ==
    /\ got = Response(Len(got))
    /\ done => Len(got) = due

\* A file stays mapped just as long as it is being sent, unless a connection
\* is dropped meanwhile: only write() unmaps.
MapOwned ==
    ~cut =>
        /\ ~leaked
        /\ address > 0 =>
             /\ address = fileSize
             /\ \/ pc = "reply" /\ ret = "file"
                \/ pc \in {"out", "writing"} /\ due = HeadSize + fileSize

\* Every well-formed request is answered in full or its connection closed.
RequestAnswered ==
    (pc # "closed" /\ WellFormed(msg) /\ sent = Len(Bytes[msg])) ~> (done \/ pc = "closed")

============================================================================
