-------------------------------- MODULE HttpParse --------------------------------
(***************************************************************************)
(* http/http_conn.cc: reading and parsing a request.  The bytes of a       *)
(* request arrive in pieces; read_once adds a piece to the buffer, and     *)
(* process_read goes on where it stopped: parse_line looks for the end of  *)
(* a line, and what the line is used for depends on check_state_.  Each    *)
(* turn of the loop of process_read is an action.                          *)
(*                                                                         *)
(* The bytes of the stream are CR, LF, and otherwise words: a word stands  *)
(* for a text without line ends, since inside of one nothing depends on    *)
(* where a piece ends.  "GET" and "POST" are correct request lines, the    *)
(* members of DOMAIN Length are Content-length headers, and "keep-alive"   *)
(* is the header Connection: keep-alive.                                   *)
(***************************************************************************)
EXTENDS Integers, Sequences, FiniteSetsExt

CONSTANTS Streams,           \* what a client may send on a connection
          READ_BUFFER_SIZE   \* in words

CR  == "CR"
LF  == "LF"
NUL == "NUL"
\* What atol makes of the header.  (-1 stands for every negative number, and for
\* one too large: atol saturates, and the int that takes its result is -1.)
Length == [word \in {"length -1", "length 0", "length 1", "length 2"} |->
              CASE word = "length -1" -> -1 [] word = "length 0" -> 0
                [] word = "length 1"  -> 1  [] word = "length 2" -> 2]

\* What read_buf_ can hold.
Word == {NUL} \cup UNION {{s[i] : i \in DOMAIN s} : s \in Streams}

ASSUME HttpParseAssumption ==
    /\ Streams \subseteq Seq(Word) /\ READ_BUFFER_SIZE \in Nat
    /\ \A s \in Streams : \A i \in DOMAIN s : s[i] # NUL

VARIABLES
    trig_mode_,                  \* edge triggered (TRUE) or level triggered
    stream, got,                 \* what the client sends; how much was received
    read_buf_,                   \* read_idx_ is its length
    checked_idx_, start_line_,
    check_state_,
    content_length_, linger_, method_,
    content_,                    \* a position in read_buf_, or 0 for nullptr
    line_state_,                 \* the local variable of process_read
    pc,                          \* what happens to the connection
    code,                        \* the result of process_read or do_request
    torn                         \* history: process_read found a part of a body

parser == <<read_buf_, checked_idx_, start_line_, check_state_,
            content_length_, linger_, method_, content_, line_state_, torn>>
client == <<trig_mode_, stream, got>>
parseVars == <<client, parser, pc, code>>

\* The bytes of the current request as they came, before any became NUL.
Raw == SubSeq(stream, got - Len(read_buf_) + 1, got)

ClientTypeOK == trig_mode_ \in BOOLEAN /\ stream \in Streams /\ got \in 0 .. Len(stream)

BufferTypeOK ==
    /\ read_buf_ \in Seq(Word) /\ Len(read_buf_) \in 0 .. READ_BUFFER_SIZE
    /\ checked_idx_ \in 0 .. Len(read_buf_) /\ start_line_ \in 0 .. checked_idx_

RequestTypeOK ==
    /\ check_state_ \in {"request line", "header", "content"} /\ line_state_ \in {"ok", "open"}
    /\ content_length_ \in Int /\ linger_ \in BOOLEAN /\ torn \in BOOLEAN
    /\ method_ \in {"GET", "POST"} /\ content_ \in Nat
    /\ code \in {"NO_REQUEST", "BAD_REQUEST", "NO_RESOURCE",
                 "FORBIDDEN_REQUEST", "FILE_REQUEST"}

ParseTypeOK == ClientTypeOK /\ BufferTypeOK /\ RequestTypeOK

\* HttpConn::init(), as far as it concerns the request: content_ still points
\* to where the last body was.
ParseInit ==
    /\ read_buf_ = <<>> /\ checked_idx_ = 0 /\ start_line_ = 0
    /\ check_state_ = "request line" /\ line_state_ = "ok"
    /\ content_length_ = 0 /\ linger_ = FALSE /\ method_ = "GET" /\ content_ = 0
    /\ torn = FALSE

ResetParser ==
    /\ read_buf_' = <<>> /\ checked_idx_' = 0 /\ start_line_' = 0
    /\ check_state_' = "request line" /\ line_state_' = "ok"
    /\ content_length_' = 0 /\ linger_' = FALSE /\ method_' = "GET"
    /\ torn' = FALSE /\ UNCHANGED content_

-----------------------------------------------------------------------------
\* Mutant of ReadOnce: recv is not told how much room there is.
ReadOnceUnbounded(n) ==
    /\ pc = "in" /\ n \in 1 .. Len(stream) - got
    /\ read_buf_' = read_buf_ \o SubSeq(stream, got + 1, got + n)
    /\ got' = got + n /\ pc' = "process_read"
    /\ UNCHANGED <<trig_mode_, stream, checked_idx_, start_line_, check_state_, content_length_,
                   linger_, method_, content_, line_state_, code, torn>>

\* read_once receives n words.  In ET mode recv is called until there is
\* nothing left, so a buffer that is full in between asks for 0 bytes, gets
\* 0 and takes the client to have closed.
ReadOnce(n) ==
    /\ pc = "in" /\ n \in 1 .. Len(stream) - got
    /\ LET room == READ_BUFFER_SIZE - Len(read_buf_)
           k    == IF n < room THEN n ELSE room
       IN /\ IF trig_mode_ THEN n < room ELSE room > 0
          /\ read_buf_' = read_buf_ \o SubSeq(stream, got + 1, got + k)
          /\ got' = got + k
    /\ pc' = "process_read"
    /\ UNCHANGED <<trig_mode_, stream, checked_idx_, start_line_, check_state_, content_length_,
                   linger_, method_, content_, line_state_, code, torn>>

\* The buffer is too small; the connection is closed.
BufferFull ==
    /\ pc = "in" /\ got < Len(stream)
    /\ LET room == READ_BUFFER_SIZE - Len(read_buf_)
       IN IF trig_mode_ THEN Len(stream) - got >= room ELSE room = 0
    /\ pc' = "closed"
    /\ UNCHANGED <<client, parser, code>>

-----------------------------------------------------------------------------
(* parse_line.                                                             *)

\* The first line end at or behind checked_idx_, as a position in read_buf_;
\* read_buf_[Break] is the byte that the C++ code calls read_buf_[Break - 1].
Breaks == {i \in checked_idx_ + 1 .. Len(read_buf_) : read_buf_[i] \in {CR, LF}}
Break  == Min(Breaks)

\* parse_line returns LINE_OK: behind the first line end is the other half.
\* (Or before it, for an LF whose CR came with the last piece; that never
\* happens, as checked_idx_ stays at such a CR.)  process_read makes no
\* difference between LINE_OPEN and LINE_BAD.
LineOk ==
    /\ Breaks # {}
    /\ \/ read_buf_[Break] = CR /\ Break < Len(read_buf_) /\ read_buf_[Break + 1] = LF
       \/ read_buf_[Break] = LF /\ Break > 2 /\ read_buf_[Break - 1] = CR

\* The line end becomes \0\0.
Ended == [read_buf_ EXCEPT ![Break] = NUL, ![Break + 1] = NUL]
EndLine ==
    /\ read_buf_' = Ended
    /\ checked_idx_' = Break + 1

\* get_line: the text of the line.
Text == SubSeq(read_buf_, start_line_ + 1, Break - 1)

-----------------------------------------------------------------------------
(* process_read.                                                           *)

\* The condition of the loop: the body is not split into lines.
InBody == check_state_ = "content" /\ line_state_ = "ok"

\* There is a line to be used in this state.
Line(state) ==
    /\ pc = "process_read" /\ check_state_ = state
    /\ ~InBody /\ LineOk
    /\ EndLine
    /\ start_line_' = checked_idx_'

\* Mutant of NoRequest: a CR at the end of the buffer is passed over.
NoRequestPastCR ==
    /\ pc = "process_read" /\ ~InBody /\ ~LineOk
    /\ checked_idx_' = IF Breaks = {} \/ read_buf_[Break] = CR THEN Len(read_buf_) ELSE Break - 1
    /\ line_state_' = "ok"
    /\ pc' = "in"
    /\ UNCHANGED <<client, read_buf_, start_line_, check_state_, content_length_, linger_,
                   method_, content_, code, torn>>

\* No line, or one that ends in the wrong way: process waits for more.
NoRequest ==
    /\ pc = "process_read" /\ ~InBody /\ ~LineOk
    /\ checked_idx_' = IF Breaks = {} THEN Len(read_buf_) ELSE Break - 1
    /\ line_state_' = "ok"
    /\ pc' = "in"
    /\ UNCHANGED <<client, read_buf_, start_line_, check_state_, content_length_, linger_,
                   method_, content_, code, torn>>

RequestLine ==
    /\ Line("request line") /\ Text \in {<<"GET">>, <<"POST">>}
    /\ method_' = Text[1]
    /\ check_state_' = "header"
    /\ UNCHANGED <<client, content_length_, linger_, content_, line_state_, pc, code, torn>>

BadRequestLine ==
    /\ Line("request line") /\ Text \notin {<<"GET">>, <<"POST">>}
    /\ pc' = "process_write" /\ code' = "BAD_REQUEST"
    /\ UNCHANGED <<client, check_state_, content_length_, linger_, method_, content_,
                   line_state_, torn>>

\* parse_headers, for a line that is not empty.
Header ==
    /\ Line("header") /\ Text # <<>>
    /\ linger_' = (linger_ \/ Text = <<"keep-alive">>)
    /\ content_length_' = IF Text[1] \in DOMAIN Length THEN Length[Text[1]] ELSE content_length_
    /\ UNCHANGED <<client, check_state_, method_, content_, line_state_, pc, code, torn>>

\* The empty line ends the request, or the body begins.
EmptyLine ==
    /\ Line("header") /\ Text = <<>>
    /\ IF content_length_ # 0 THEN check_state_' = "content" /\ UNCHANGED pc
       ELSE pc' = "do_request" /\ UNCHANGED check_state_
    /\ UNCHANGED <<client, content_length_, linger_, method_, content_, line_state_, code, torn>>

\* buf with \0 at position pos, or as it is where pos is outside of it.
PutNul(buf, pos) == [i \in DOMAIN buf |-> IF i = pos THEN NUL ELSE buf[i]]

\* Mutant of Content: the loop goes on with the same text.
ContentAgain ==
    /\ pc = "process_read" /\ InBody
    /\ start_line_' = checked_idx_
    /\ IF Len(read_buf_) >= content_length_ + checked_idx_
       THEN /\ pc' = "do_request" /\ content_' = start_line_ + 1
            /\ read_buf_' = PutNul(read_buf_, start_line_ + content_length_ + 1)
       ELSE UNCHANGED <<read_buf_, pc, content_>>
    /\ UNCHANGED <<client, checked_idx_, check_state_, content_length_, linger_, method_,
                   line_state_, code, torn>>

\* parse_content.  The text begins where the last line began, and the byte
\* behind the body becomes \0; with a negative length, a byte before it.  An
\* incomplete body is given to parse_line all the same, which moves
\* checked_idx_ on, and splits it when it holds a line end.
Content ==
    /\ pc = "process_read" /\ check_state_ = "content"
    /\ InBody \/ LineOk
    /\ checked_idx_' = IF InBody THEN checked_idx_ ELSE Break + 1
    /\ start_line_' = checked_idx_'
    /\ LET buf == IF InBody THEN read_buf_ ELSE Ended
       IN IF Len(buf) >= content_length_ + checked_idx_'
          THEN /\ read_buf_' = PutNul(buf, start_line_ + content_length_ + 1)
               /\ pc' = "do_request" /\ content_' = start_line_ + 1 /\ line_state_' = "ok"
               /\ UNCHANGED torn
          ELSE /\ read_buf_' = buf
               /\ line_state_' = "open" /\ torn' = (torn \/ Len(buf) > checked_idx_')
               /\ UNCHANGED <<pc, content_>>
    /\ UNCHANGED <<client, check_state_, content_length_, linger_, method_, code>>

\* The string that content_ points to ends before the first \0.
ContentText ==
    LET nuls == {i \in DOMAIN read_buf_ : i >= content_ /\ read_buf_[i] = NUL}
    IN SubSeq(read_buf_, content_, Min(nuls \cup {Len(read_buf_) + 1}) - 1)

ProcessRead ==
    NoRequest \/ RequestLine \/ BadRequestLine \/ Header \/ EmptyLine \/ Content

-----------------------------------------------------------------------------
(* What a request is: a reference that looks at all its bytes at once.     *)

Ends(s) == {i \in 1 .. Len(s) - 1 : s[i] = CR /\ s[i + 1] = LF}

\* Among the first n bytes is a CR without its LF or an LF without its CR.
Broken(s, n) ==
    \E i \in 1 .. n : \/ s[i] = CR /\ i \notin Ends(s) /\ i < Len(s)
                      \/ s[i] = LF /\ i - 1 \notin Ends(s)

\* Where the empty line after the headers begins, in a request that has one.
EmptyLines(s) == {i \in Ends(s) : i + 2 \in Ends(s)}
HeadEnd(s)    == Min(EmptyLines(s))
Headers(s)    == {i \in 2 .. HeadEnd(s) : s[i - 1] = LF}

Declared(s) ==
    LET lengths == {i \in Headers(s) : s[i] \in DOMAIN Length}
    IN IF lengths = {} THEN 0 ELSE Length[s[Max(lengths)]]

KeepAlive(s) == \E i \in Headers(s) : s[i] = "keep-alive" /\ s[i + 1] = CR
Body(s)      == SubSeq(s, HeadEnd(s) + 4,
                       IF Declared(s) < 0 THEN Len(s) ELSE HeadEnd(s) + 3 + Declared(s))

Verdict(s) ==
    IF Broken(s, Min(Ends(s) \cup {Len(s)})) THEN "broken"
    ELSE IF Ends(s) = {} THEN "incomplete"
    ELSE IF SubSeq(s, 1, Min(Ends(s)) - 1) \notin {<<"GET">>, <<"POST">>} THEN "bad"
    ELSE IF Broken(s, Min(EmptyLines(s) \cup {Len(s)})) THEN "broken"
    ELSE IF EmptyLines(s) = {} \/ Len(s) < HeadEnd(s) + 3 + Declared(s) THEN "incomplete"
    ELSE "request"
===============================================================================
