----------------------------- MODULE HttpConnProofs -----------------------------
(***************************************************************************)
(* What holds of a slot of users_ for every stream, buffer, file size and  *)
(* number of connections: the types, that an answer comes to the client in *)
(* order and once (Delivery), which files stay mapped, that a request that *)
(* comes in pieces is parsed as a whole, and that the loops of process_read*)
(* and write get on.                                                       *)
(***************************************************************************)
EXTENDS HttpConn, FiniteSetTheorems, SequenceTheorems, WellFoundedInduction, TLAPS

\* A set of natural numbers has a least element.
LEMMA LeastOf ==
  ASSUME NEW S \in SUBSET Nat, S # {}
  PROVE  Min(S) \in S /\ \A y \in S : Min(S) <= y
  <1> DEFINE R == OpToRel(<, Nat)
  <1>1. IsWellFoundedOn(R, Nat)
    BY NatLessThanWellFounded
  <1>2. \A x, y \in Nat : x < y => <<x, y>> \in R
    BY DEF OpToRel
  <1> HIDE DEF R
  <1>3. PICK x \in S : \A y \in S : ~(<<y, x>> \in R)
    BY <1>1, WFMin
  <1>4. ASSUME NEW y \in S PROVE x <= y
    <2>1. ~(y < x)
      BY <1>2, <1>3
    <2>2. QED
      BY <2>1
  <1>5. QED
    BY <1>4 DEF Min

\* What is cut out of a sequence.
LEMMA CutType ==
  ASSUME NEW T, NEW s \in Seq(T), NEW m \in Int, NEW n \in Int, 1 <= m, n <= Len(s)
  PROVE  SubSeq(s, m, n) \in Seq(T)
  <1>1. \A i \in m .. n : s[i] \in T
    BY ElementOfSeq
  <1>2. QED
    BY <1>1, SubSeqProperties

-----------------------------------------------------------------------------
(* The parser.                                                             *)

\* checked_idx_ does not stand behind a CR.
PastCR == checked_idx_ = 0 \/ read_buf_[checked_idx_] # CR

ParseInv == ParseTypeOK /\ PastCR

\* start_line_ <= checked_idx_ <= read_idx_ <= READ_BUFFER_SIZE.
LEMMA Indexes ==
  ASSUME ParseTypeOK
  PROVE  /\ Len(read_buf_) \in Nat /\ checked_idx_ \in Nat /\ start_line_ \in Nat
         /\ start_line_ <= checked_idx_ /\ checked_idx_ <= Len(read_buf_)
         /\ Len(read_buf_) <= READ_BUFFER_SIZE /\ READ_BUFFER_SIZE \in Nat
         /\ read_buf_ \in Seq(Word)
  <1>1. READ_BUFFER_SIZE \in Nat
    BY HttpParseAssumption
  <1>2. Len(read_buf_) \in Nat /\ Len(read_buf_) <= READ_BUFFER_SIZE /\ read_buf_ \in Seq(Word)
    BY <1>1, LenProperties DEF ParseTypeOK, BufferTypeOK
  <1>3. checked_idx_ \in Nat /\ checked_idx_ <= Len(read_buf_)
    BY <1>2 DEF ParseTypeOK, BufferTypeOK
  <1>4. start_line_ \in Nat /\ start_line_ <= checked_idx_
    BY <1>3 DEF ParseTypeOK, BufferTypeOK
  <1>5. QED
    BY <1>1, <1>2, <1>3, <1>4

\* The position of a line end.
LEMMA BreakIs ==
  ASSUME ParseTypeOK, Breaks # {}
  PROVE  /\ Break \in checked_idx_ + 1 .. Len(read_buf_)
         /\ read_buf_[Break] \in {CR, LF}
         /\ \A i \in checked_idx_ + 1 .. Break - 1 : read_buf_[i] \notin {CR, LF}
  <1>1. /\ Breaks \in SUBSET Nat /\ checked_idx_ \in Nat /\ Len(read_buf_) \in Nat
    BY Indexes DEF Breaks
  <1>2. Break \in Breaks /\ \A i \in Breaks : Break <= i
    BY <1>1, LeastOf DEF Break
  <1>3. Break \in checked_idx_ + 1 .. Len(read_buf_) /\ read_buf_[Break] \in {CR, LF}
    BY <1>2 DEF Breaks
  <1>4. ASSUME NEW i \in checked_idx_ + 1 .. Break - 1 PROVE read_buf_[i] \notin {CR, LF}
    <2>1. i \in checked_idx_ + 1 .. Len(read_buf_) /\ i < Break
      BY <1>1, <1>3
    <2>2. i \notin Breaks
      BY <1>2, <1>3, <2>1
    <2>3. QED
      BY <2>1, <2>2 DEF Breaks
  <1>5. QED
    BY <1>3, <1>4

\* A line ends with CR and LF, both in the buffer and not looked at before.
LEMMA LineIs ==
  ASSUME ParseInv, LineOk
  PROVE  Break \in checked_idx_ + 1 .. Len(read_buf_) - 1 /\ read_buf_[Break] = CR
  <1>1. /\ Break \in checked_idx_ + 1 .. Len(read_buf_)
        /\ \A i \in checked_idx_ + 1 .. Break - 1 : read_buf_[i] # CR
        /\ checked_idx_ \in Nat /\ Len(read_buf_) \in Nat
    BY BreakIs, Indexes DEF LineOk, ParseInv
  <1>2. read_buf_[Break] = CR
    <2>1. SUFFICES ASSUME read_buf_[Break] = LF, Break > 2, read_buf_[Break - 1] = CR
                   PROVE  FALSE
      BY DEF LineOk
    <2>2. Break - 1 = checked_idx_ \/ Break - 1 \in checked_idx_ + 1 .. Break - 1
      BY <1>1
    <2>3. QED
      BY <1>1, <2>1, <2>2 DEF ParseInv, PastCR
  <1>3. Break < Len(read_buf_)
    BY <1>2 DEF LineOk, CR, LF
  <1>4. QED
    BY <1>1, <1>2, <1>3

LEMMA EndedType ==
  ASSUME ParseInv, LineOk
  PROVE  /\ Ended \in Seq(Word) /\ Len(Ended) = Len(read_buf_)
         /\ Break + 1 \in 0 .. Len(read_buf_) /\ checked_idx_ <= Break + 1
         /\ Ended[Break + 1] = NUL
  <1>1. /\ Break \in checked_idx_ + 1 .. Len(read_buf_) - 1
        /\ checked_idx_ \in Nat /\ Len(read_buf_) \in Nat /\ read_buf_ \in Seq(Word)
    BY LineIs, Indexes DEF ParseInv
  <1>2. PICK b \in Nat : b = Break
    BY <1>1
  <1>3. /\ b \in 1 .. Len(read_buf_) /\ b + 1 \in 1 .. Len(read_buf_)
        /\ Ended = [read_buf_ EXCEPT ![b] = NUL, ![b + 1] = NUL]
    BY <1>1, <1>2 DEF Ended
  <1>4. Ended \in Seq(Word) /\ Len(Ended) = Len(read_buf_)
    <2>1. NUL \in Word
      BY DEF Word
    <2>2. PICK w \in Word : w = NUL
      BY <2>1
    <2>3. PICK first : first = [read_buf_ EXCEPT ![b] = w]
      OBVIOUS
    <2>4. first \in Seq(Word) /\ Len(first) = Len(read_buf_)
      BY <1>1, <1>3, <2>3, ExceptSeq
    <2>5. [first EXCEPT ![b + 1] = w] \in Seq(Word) /\ Len([first EXCEPT ![b + 1] = w]) = Len(first)
      BY <1>3, <2>4, ExceptSeq
    <2>6. Ended = [first EXCEPT ![b + 1] = w]
      BY <1>3, <2>2, <2>3
    <2>7. QED
      BY <2>4, <2>5, <2>6
  <1>5. Ended[b + 1] = NUL
    BY <1>1, <1>3
  <1>6. QED
    BY <1>1, <1>2, <1>3, <1>4, <1>5

LEMMA EndLineType ==
  ASSUME ParseInv, LineOk, EndLine
  PROVE  /\ read_buf_' \in Seq(Word) /\ Len(read_buf_') = Len(read_buf_)
         /\ checked_idx_' \in 0 .. Len(read_buf_) /\ checked_idx_ <= checked_idx_'
         /\ PastCR'
  <1>1. read_buf_' = Ended /\ checked_idx_' = Break + 1
    BY DEF EndLine
  <1>2. QED
    BY <1>1, EndedType DEF PastCR, CR, NUL

\* PutNul, inside of a buffer or outside.
LEMMA PutNulIs ==
  ASSUME NEW s \in Seq(Word), NEW pos
  PROVE  /\ PutNul(s, pos) \in Seq(Word) /\ Len(PutNul(s, pos)) = Len(s)
         /\ \A i \in 1 .. Len(s) : PutNul(s, pos)[i] = IF i = pos THEN NUL ELSE s[i]
  <1>1. Len(s) \in Nat /\ DOMAIN s = 1 .. Len(s)
    BY LenProperties
  <1>2. NUL \in Word
    BY DEF Word
  <1>3. \A i \in 1 .. Len(s) : s[i] \in Word
    BY <1>1, ElementOfSeq
  <1>4. PutNul(s, pos) \in [1 .. Len(s) -> Word]
    BY <1>1, <1>2, <1>3 DEF PutNul
  <1>5. PutNul(s, pos) \in Seq(Word)
    BY <1>1, <1>4, SeqDef
  <1>6. Len(PutNul(s, pos)) = Len(s)
    BY <1>1, <1>4, <1>5, LenProperties
  <1>7. QED
    BY <1>1, <1>5, <1>6 DEF PutNul

\* read_once receives k words, as many as there is room for.
LEMMA ReadOnceIs ==
  ASSUME ParseInv, NEW n, ReadOnce(n)
  PROVE  \E k \in Nat :
           /\ k <= READ_BUFFER_SIZE - Len(read_buf_) /\ got + k <= Len(stream)
           /\ read_buf_' = read_buf_ \o SubSeq(stream, got + 1, got + k) /\ got' = got + k
  <1>1. Len(read_buf_) \in Nat /\ READ_BUFFER_SIZE \in Nat /\ Len(read_buf_) <= READ_BUFFER_SIZE
    BY Indexes DEF ParseInv
  <1>2. Len(stream) \in Nat /\ got \in 0 .. Len(stream)
    BY HttpParseAssumption, LenProperties DEF ParseInv, ParseTypeOK, ClientTypeOK
  <1> DEFINE room == READ_BUFFER_SIZE - Len(read_buf_)
             least == IF n < room THEN n ELSE room
  <1>3. n \in 1 .. Len(stream) - got
    BY DEF ReadOnce
  <1>4. least \in Nat /\ least <= room /\ got + least <= Len(stream)
    BY <1>1, <1>2, <1>3
  <1>5. read_buf_' = read_buf_ \o SubSeq(stream, got + 1, got + least) /\ got' = got + least
    BY DEF ReadOnce
  <1> HIDE DEF least
  <1>6. QED
    BY <1>4, <1>5

LEMMA ReadOnceType ==
  ASSUME ParseInv, NEW n, ReadOnce(n)
  PROVE  ParseInv'
  <1>1. /\ Len(read_buf_) \in Nat /\ READ_BUFFER_SIZE \in Nat /\ Len(read_buf_) <= READ_BUFFER_SIZE
        /\ checked_idx_ \in Nat /\ checked_idx_ <= Len(read_buf_) /\ read_buf_ \in Seq(Word)
    BY Indexes DEF ParseInv
  <1>2. stream \in Seq(Word) /\ Len(stream) \in Nat /\ got \in 0 .. Len(stream)
    BY HttpParseAssumption, LenProperties DEF ParseInv, ParseTypeOK, ClientTypeOK
  <1>3. PICK k \in Nat :
          /\ k <= READ_BUFFER_SIZE - Len(read_buf_) /\ got + k <= Len(stream)
          /\ read_buf_' = read_buf_ \o SubSeq(stream, got + 1, got + k) /\ got' = got + k
    BY ReadOnceIs
  <1>4. PICK s : s = SubSeq(stream, got + 1, got + k)
    OBVIOUS
  <1>5. s \in Seq(Word) /\ Len(s) = k
    <2>1. \A i \in got + 1 .. got + k : stream[i] \in Word
      BY <1>2, <1>3, ElementOfSeq
    <2>2. QED
      BY <1>2, <1>3, <1>4, <2>1, SubSeqProperties
  <1>6. /\ read_buf_' \in Seq(Word) /\ Len(read_buf_') = Len(read_buf_) + k
        /\ \A i \in 1 .. Len(read_buf_) : read_buf_'[i] = read_buf_[i]
    BY <1>1, <1>3, <1>4, <1>5, ConcatProperties
  <1>7. UNCHANGED <<trig_mode_, stream, checked_idx_, start_line_, check_state_, content_length_,
                    linger_, method_, content_, line_state_, code, torn>>
    BY DEF ReadOnce
  <1>8. BufferTypeOK'
    <2>1. Len(read_buf_') \in 0 .. READ_BUFFER_SIZE /\ checked_idx_ \in 0 .. Len(read_buf_')
      BY <1>1, <1>3, <1>6
    <2>2. QED
      BY <1>6, <1>7, <2>1 DEF ParseInv, ParseTypeOK, BufferTypeOK
  <1>9. ClientTypeOK' /\ RequestTypeOK'
    <2>1. got' \in 0 .. Len(stream)
      BY <1>2, <1>3
    <2>2. ClientTypeOK'
      BY <1>7, <2>1 DEF ParseInv, ParseTypeOK, ClientTypeOK
    <2>3. RequestTypeOK'
      BY <1>7 DEF ParseInv, ParseTypeOK, RequestTypeOK
    <2>4. QED
      BY <2>2, <2>3
  <1>10. PastCR'
    BY <1>1, <1>6, <1>7 DEF ParseInv, PastCR
  <1>11. QED
    BY <1>8, <1>9, <1>10 DEF ParseInv, ParseTypeOK

\* A line is taken: what process_read has of the buffer then.
LEMMA LineType ==
  ASSUME ParseInv, NEW state, Line(state), UNCHANGED client
  PROVE  ClientTypeOK' /\ BufferTypeOK' /\ PastCR'
  <1>1. /\ read_buf_' \in Seq(Word) /\ Len(read_buf_') = Len(read_buf_)
        /\ checked_idx_' \in 0 .. Len(read_buf_) /\ PastCR' /\ start_line_' = checked_idx_'
    BY EndLineType DEF Line
  <1>2. Len(read_buf_) \in 0 .. READ_BUFFER_SIZE
    BY DEF ParseInv, ParseTypeOK, BufferTypeOK
  <1>3. BufferTypeOK'
    BY <1>1, <1>2 DEF BufferTypeOK
  <1>4. QED
    BY <1>1, <1>3 DEF ParseInv, ParseTypeOK, ClientTypeOK, client

LEMMA NoRequestType ==
  ASSUME ParseInv, NoRequest
  PROVE  ParseInv'
  <1>1. UNCHANGED <<client, read_buf_, start_line_, check_state_, content_length_, linger_,
                    method_, content_, code, torn>> /\ line_state_' = "ok"
    BY DEF NoRequest
  <1>2. /\ checked_idx_' \in checked_idx_ .. Len(read_buf_)
        /\ checked_idx_' = checked_idx_ \/ read_buf_[checked_idx_'] # CR
    <2>1. CASE Breaks = {}
      <3>1. checked_idx_' = Len(read_buf_)
        BY <2>1 DEF NoRequest
      <3>2. checked_idx_' = checked_idx_ \/ checked_idx_' \in checked_idx_ + 1 .. Len(read_buf_)
        BY <3>1, Indexes DEF ParseInv
      <3>3. \A i \in checked_idx_ + 1 .. Len(read_buf_) : read_buf_[i] # CR
        BY <2>1 DEF Breaks
      <3>4. QED
        BY <3>1, <3>2, <3>3, Indexes DEF ParseInv
    <2>2. CASE Breaks # {}
      <3>1. checked_idx_' = Break - 1
        BY <2>2 DEF NoRequest
      <3>2. QED
        BY <2>2, <3>1, BreakIs, Indexes DEF ParseInv
    <2>3. QED
      BY <2>1, <2>2
  <1>3. PastCR'
    BY <1>1, <1>2 DEF ParseInv, PastCR
  <1>4. BufferTypeOK'
    <2>1. checked_idx_' \in 0 .. Len(read_buf_) /\ start_line_ \in 0 .. checked_idx_'
      BY <1>2, Indexes DEF ParseInv
    <2>2. QED
      BY <1>1, <2>1 DEF ParseInv, ParseTypeOK, BufferTypeOK
  <1>5. ClientTypeOK' /\ RequestTypeOK'
    BY <1>1 DEF ParseInv, ParseTypeOK, ClientTypeOK, RequestTypeOK, client
  <1>6. QED
    BY <1>3, <1>4, <1>5 DEF ParseInv, ParseTypeOK

LEMMA RequestNumbers == RequestTypeOK => content_length_ \in Int /\ content_ \in Nat
  BY Zenon DEF RequestTypeOK

LEMMA ContentType ==
  ASSUME ParseInv, Content
  PROVE  ParseInv' /\ Len(read_buf_') = Len(read_buf_)
  <1>1. UNCHANGED <<client, check_state_, content_length_, linger_, method_, code>> /\ torn' \in BOOLEAN
    BY DEF Content, ParseInv, ParseTypeOK, RequestTypeOK
  <1>2. PICK buf \in Seq(Word) :
          /\ buf = (IF InBody THEN read_buf_ ELSE Ended) /\ Len(buf) = Len(read_buf_)
          /\ checked_idx_' \in 0 .. Len(read_buf_) /\ checked_idx_ <= checked_idx_'
          /\ checked_idx_' = 0 \/ buf[checked_idx_'] # CR
    <2>1. CASE InBody
      <3>1. checked_idx_' = checked_idx_
        BY <2>1 DEF Content
      <3>2. QED
        BY <2>1, <3>1, Indexes DEF ParseInv, PastCR
    <2>2. CASE ~InBody
      <3>1. LineOk /\ checked_idx_' = Break + 1
        BY <2>2 DEF Content
      <3>2. QED
        BY <2>2, <3>1, EndedType DEF CR, NUL
    <2>3. QED
      BY <2>1, <2>2
  <1>3. /\ read_buf_' = buf \/ \E pos : read_buf_' = PutNul(buf, pos)
        /\ content_' \in {content_, start_line_ + 1} /\ line_state_' \in {"ok", "open"}
        /\ start_line_' = checked_idx_'
    BY <1>2 DEF Content
  <1>a. /\ read_buf_' \in Seq(Word) /\ Len(read_buf_') = Len(read_buf_) /\ PastCR'
    <2>1. CASE read_buf_' = buf
      BY <1>2, <2>1 DEF PastCR
    <2>2. CASE read_buf_' # buf
      <3>1. PICK pos : read_buf_' = PutNul(buf, pos)
        BY <1>3, <2>2
      <3>2. /\ read_buf_' \in Seq(Word) /\ Len(read_buf_') = Len(buf)
            /\ \A i \in 1 .. Len(buf) : read_buf_'[i] = IF i = pos THEN NUL ELSE buf[i]
        BY <3>1, PutNulIs
      <3>3. checked_idx_' = 0 \/ checked_idx_' \in 1 .. Len(buf)
        BY <1>2, Indexes DEF ParseInv
      <3>4. QED
        BY <1>2, <3>2, <3>3 DEF PastCR, CR, NUL
    <2>3. QED
      BY <2>1, <2>2
  <1>b. content_' \in Nat
    <2>1. content_ \in Nat
      BY RequestNumbers DEF ParseInv, ParseTypeOK
    <2>2. QED
      BY <1>3, <2>1, Indexes DEF ParseInv
  <1>4. BufferTypeOK'
    <2>1. start_line_' \in 0 .. checked_idx_'
      BY <1>2, <1>3
    <2>2. QED
      BY <1>2, <1>a, <2>1 DEF ParseInv, ParseTypeOK, BufferTypeOK
  <1>5. ClientTypeOK'
    BY <1>1 DEF ParseInv, ParseTypeOK, ClientTypeOK, client
  <1>6. RequestTypeOK'
    BY <1>1, <1>3, <1>b DEF ParseInv, ParseTypeOK, RequestTypeOK
  <1>7. QED
    BY <1>a, <1>4, <1>5, <1>6 DEF ParseInv, ParseTypeOK

LEMMA ParseStep ==
  ASSUME ParseInv, ProcessRead
  PROVE  ParseInv' /\ UNCHANGED <<trig_mode_, stream>>
         /\ pc = "process_read" /\ pc' \in {"in", "process_read", "do_request", "process_write"}
  <1>1. ClientTypeOK /\ RequestTypeOK
    BY DEF ParseInv, ParseTypeOK
  <1>2. CASE RequestLine
    <2>1. Text[1] \in {"GET", "POST"}
      <3>1. Text = <<"GET">> \/ Text = <<"POST">>
        BY <1>2 DEF RequestLine
      <3>2. Text = <<"GET">> => Text[1] = "GET"
        OBVIOUS
      <3>3. Text = <<"POST">> => Text[1] = "POST"
        OBVIOUS
      <3>4. QED
        BY <3>1, <3>2, <3>3
    <2>2. RequestTypeOK'
      BY <1>1, <1>2, <2>1 DEF RequestLine, RequestTypeOK
    <2>3. ClientTypeOK' /\ BufferTypeOK' /\ PastCR'
      BY <1>2, LineType DEF RequestLine
    <2>4. QED
      BY <1>2, <2>2, <2>3 DEF RequestLine, ParseInv, ParseTypeOK, Line, client
  <1>3. CASE BadRequestLine
    <2>1. RequestTypeOK'
      BY <1>1, <1>3 DEF BadRequestLine, RequestTypeOK
    <2>2. ClientTypeOK' /\ BufferTypeOK' /\ PastCR'
      BY <1>3, LineType DEF BadRequestLine
    <2>3. QED
      BY <1>3, <2>1, <2>2 DEF BadRequestLine, ParseInv, ParseTypeOK, Line, client
  <1>4. CASE Header
    <2>1. content_length_' \in Int
      <3>1. \A word \in DOMAIN Length : Length[word] \in Int
        <4>1. SUFFICES ASSUME NEW word \in DOMAIN Length PROVE Length[word] \in {-1, 0, 1, 2}
          OBVIOUS
        <4>2. QED
          BY DEF Length
      <3>2. QED
        BY <1>1, <1>4, <3>1 DEF Header, RequestTypeOK
    <2>2. linger_' \in BOOLEAN
      BY <1>4, Zenon DEF Header
    <2>3. RequestTypeOK'
      BY <1>1, <1>4, <2>1, <2>2 DEF Header, RequestTypeOK
    <2>4. ClientTypeOK' /\ BufferTypeOK' /\ PastCR'
      BY <1>4, LineType DEF Header
    <2>5. QED
      BY <1>4, <2>3, <2>4 DEF Header, ParseInv, ParseTypeOK, Line, client
  <1>5. CASE EmptyLine
    <2>1. RequestTypeOK' /\ pc' \in {pc, "do_request"}
      BY <1>1, <1>5 DEF EmptyLine, RequestTypeOK
    <2>2. ClientTypeOK' /\ BufferTypeOK' /\ PastCR'
      BY <1>5, LineType DEF EmptyLine
    <2>3. QED
      BY <1>5, <2>1, <2>2 DEF EmptyLine, ParseInv, ParseTypeOK, Line, client
  <1>6. CASE NoRequest
    BY <1>6, NoRequestType DEF NoRequest, client
  <1>7. CASE Content
    BY <1>7, ContentType DEF Content, client
  <1>8. QED
    BY <1>2, <1>3, <1>4, <1>5, <1>6, <1>7 DEF ProcessRead

\* HttpConn::init().
LEMMA ResetType ==
  ASSUME ParseTypeOK, ResetParser, UNCHANGED <<trig_mode_, code>>, ClientTypeOK'
  PROVE  ParseInv'
  <1>1. BufferTypeOK' /\ PastCR'
    <2>1. read_buf_' \in Seq(Word) /\ Len(read_buf_') = 0
      <3>1. read_buf_' = <<>>
        BY DEF ResetParser
      <3>2. QED
        BY <3>1, EmptySeq
    <2>2. checked_idx_' = 0 /\ start_line_' = 0 /\ READ_BUFFER_SIZE \in Nat
      BY Indexes DEF ResetParser, ParseTypeOK
    <2>3. QED
      BY <2>1, <2>2 DEF BufferTypeOK, PastCR
  <1>2. RequestTypeOK'
    <2>1. content_ \in Nat /\ 0 \in Int
      BY RequestNumbers DEF ParseTypeOK
    <2>2. content_length_' \in Int /\ content_' \in Nat
      BY <2>1, Zenon DEF ResetParser
    <2>3. QED
      BY <2>2, Zenon DEF ParseTypeOK, ResetParser, RequestTypeOK
  <1>3. QED
    BY <1>1, <1>2 DEF ParseInv, ParseTypeOK

-----------------------------------------------------------------------------
(* The answer: types.                                                      *)

Vector == [base : Int, len : Nat]

LEMMA OfferIs ==
  ASSUME NEW vec \in Vector, NEW buffer \in {"write_buf_", "file"}
  PROVE  /\ Offer(vec, buffer) \in Seq(Byte) /\ Len(Offer(vec, buffer)) = vec.len
         /\ \A i \in 1 .. vec.len : Offer(vec, buffer)[i] = <<buffer, vec.base + i - 1>>
  <1>1. vec.len \in Nat /\ vec.base \in Int
    BY DEF Vector
  <1>2. \A i \in 1 .. vec.len : <<buffer, vec.base + i - 1>> \in Byte
    BY <1>1 DEF Byte
  <1>3. Offer(vec, buffer) \in [1 .. vec.len -> Byte]
    BY <1>2 DEF Offer
  <1>4. Offer(vec, buffer) \in Seq(Byte)
    BY <1>1, <1>3, SeqDef
  <1>5. Len(Offer(vec, buffer)) = vec.len
    BY <1>1, <1>3, <1>4, LenProperties
  <1>6. QED
    BY <1>4, <1>5 DEF Offer

LEMMA VectorsType ==
  ASSUME SendTypeOK
  PROVE  iv_[0] \in Vector /\ iv_[1] \in Vector
  BY DEF SendTypeOK, Vector

LEMMA OfferedType ==
  ASSUME SendTypeOK
  PROVE  Offered \in Seq(Byte) /\ Len(Offered) \in Nat
  <1>1. /\ Offer(iv_[0], "write_buf_") \in Seq(Byte) /\ Offer(iv_[1], "file") \in Seq(Byte)
        /\ <<>> \in Seq(Byte)
    BY VectorsType, OfferIs, EmptySeq
  <1>2. Offered \in Seq(Byte)
    BY <1>1, ConcatProperties DEF Offered
  <1>3. QED
    BY <1>2, LenProperties

LEMMA IovecsType ==
  ASSUME SendTypeOK, NEW sent \in Nat, NEW unsent \in Nat
  PROVE  Iovecs(sent, unsent) \in [{0, 1} -> Vector]
  <1>1. iv_[0].len \in Nat /\ iv_[0].base \in Int /\ write_idx_ \in Nat /\ iv_[0] \in Vector /\ iv_[1] \in Vector
    BY VectorsType, HttpWriteAssumption DEF SendTypeOK, Vector
  <1>2. CASE sent >= iv_[0].len
    <2>1. [iv_[0] EXCEPT !.len = 0] \in Vector /\ [base |-> sent - write_idx_, len |-> unsent] \in Vector
      BY <1>1 DEF Vector
    <2>2. QED
      BY <1>2, <2>1 DEF Iovecs
  <1>3. CASE ~(sent >= iv_[0].len)
    <2>1. [base |-> sent, len |-> iv_[0].len - sent] \in Vector
      BY <1>1, <1>3 DEF Vector
    <2>2. iv_ \in [{0, 1} -> Vector]
      BY DEF SendTypeOK, Vector
    <2>3. QED
      BY <1>3, <2>1, <2>2 DEF Iovecs
  <1>4. QED
    BY <1>2, <1>3

LEMMA WritevType ==
  ASSUME SendTypeOK, NEW n \in Nat, Writev(n), n <= bytes_unsent_
  PROVE  /\ received' \in Seq(Byte) /\ iv_' \in [{0, 1} -> Vector] /\ cuts' \in Nat /\ cuts <= cuts'
         /\ Len(received') = Len(received) + n
         /\ \A i \in 1 .. Len(received) : received'[i] = received[i]
         /\ \A i \in 1 .. n : received'[Len(received) + i] = Offered[i]
  <1>1. Offered \in Seq(Byte) /\ n \in 1 .. Len(Offered) /\ Len(Offered) \in Nat
    BY OfferedType DEF Writev
  <1>2. PICK s : s = SubSeq(Offered, 1, n)
    OBVIOUS
  <1>3. s \in Seq(Byte) /\ Len(s) = n /\ \A i \in 1 .. n : s[i] = Offered[i]
    <2>1. \A i \in 1 .. n : Offered[i] \in Byte
      BY <1>1, ElementOfSeq
    <2>2. s \in Seq(Byte) /\ Len(s) = n /\ \A i \in 1 .. n : s[i] = Offered[1 + i - 1]
      BY <1>1, <1>2, <2>1, SubSeqProperties
    <2>3. QED
      BY <2>2
  <1>4. received \in Seq(Byte) /\ received' = received \o s
    BY <1>2 DEF Writev, SendTypeOK
  <1>5. /\ received' \in Seq(Byte) /\ Len(received') = Len(received) + n
        /\ \A i \in 1 .. Len(received) : received'[i] = received[i]
    <2>1. Len(received) \in Nat
      BY <1>4, LenProperties
    <2>2. received \o s \in Seq(Byte) /\ Len(received \o s) = Len(received) + n
      BY <1>3, <1>4, ConcatProperties
    <2>3. \A i \in 1 .. Len(received) : i \in 1 .. Len(received) + n /\ i <= Len(received)
      BY <2>1
    <2>4. \A i \in 1 .. Len(received) : (received \o s)[i] = received[i]
      BY <1>3, <1>4, <2>3, ConcatProperties
    <2>5. QED
      BY <1>4, <2>2, <2>4
  <1>6. \A i \in 1 .. n : received'[Len(received) + i] = s[i]
    <2>1. Len(received) \in Nat
      BY <1>4, LenProperties
    <2>2. \A i \in 1 .. n : Len(received) + i \in Len(received) + 1 .. Len(received) + n
      BY <2>1
    <2>3. \A i \in 1 .. n : (Len(received) + i) - Len(received) = i
      BY <2>1
    <2>4. QED
      BY <1>3, <1>4, <2>2, <2>3, ConcatProperties
  <1>7. bytes_sent_ + n \in Nat /\ bytes_unsent_ - n \in Nat
    BY DEF SendTypeOK
  <1>8. iv_' \in [{0, 1} -> Vector]
    BY <1>7, IovecsType DEF Writev
  <1>9. cuts' \in Nat /\ cuts <= cuts'
    <2>1. cuts \in Nat /\ cuts' \in {cuts, cuts + 1}
      BY DEF Writev, SendTypeOK
    <2>2. QED
      BY <2>1
  <1>10. QED
    BY <1>3, <1>5, <1>6, <1>8, <1>9

LEMMA ProcessWriteType ==
  ASSUME SendTypeOK, MappingTypeOK, ProcessWrite
  PROVE  SendTypeOK'
  <1>1. file_size \in Nat /\ HeaderSize \in Nat /\ PageSize \in Nat
    BY HttpWriteAssumption DEF MappingTypeOK
  <1>2. iv_' \in [{0, 1} -> Vector] /\ iv_count_' \in {1, 2}
    <2>1. CASE code = "FILE_REQUEST" /\ file_size # 0
      BY <1>1, <2>1 DEF ProcessWrite, Vector
    <2>2. CASE ~(code = "FILE_REQUEST" /\ file_size # 0)
      <3>1. [base |-> 0, len |-> PageSize] \in Vector /\ iv_ \in [{0, 1} -> Vector]
        BY <1>1 DEF SendTypeOK, Vector
      <3>2. iv_' = [iv_ EXCEPT ![0] = [base |-> 0, len |-> PageSize]] /\ iv_count_' = 1
        BY <2>2 DEF ProcessWrite
      <3>3. QED
        BY <3>1, <3>2
    <2>3. QED
      BY <2>1, <2>2
  <1>3. write_idx_' \in {HeaderSize, PageSize} /\ bytes_unsent_' \in Nat /\ bytes_sent_' = bytes_sent_
    BY <1>1 DEF ProcessWrite
  <1>4. answer' \in Seq(Byte) /\ received' \in Seq(Byte) /\ cuts' = 0
    <2>1. /\ Offer(iv_'[0], "write_buf_") \in Seq(Byte) /\ Offer(iv_'[1], "file") \in Seq(Byte)
          /\ <<>> \in Seq(Byte)
      BY <1>2, OfferIs, EmptySeq
    <2>2. Offered' \in Seq(Byte)
      BY <2>1, ConcatProperties DEF Offered, Offer
    <2>3. QED
      BY <2>1, <2>2 DEF ProcessWrite
  <1>5. iv_' \in [{0, 1} -> [base : Int, len : Nat]]
    BY <1>2 DEF Vector
  <1>6. QED
    BY <1>2, <1>3, <1>4, <1>5 DEF SendTypeOK

LEMMA WriteSomeType ==
  ASSUME SendTypeOK, NEW n, WriteSome(n) \/ WriteLast(n)
  PROVE  SendTypeOK' /\ n \in 1 .. bytes_unsent_ /\ Writev(n)
  <1>1. n \in Nat /\ n # 0 /\ n <= bytes_unsent_ /\ Writev(n)
    <2>1. n \in 1 .. Len(Offered) /\ Len(Offered) \in Nat
      BY OfferedType DEF WriteSome, WriteLast, Writev
    <2>2. n < bytes_unsent_ \/ n = bytes_unsent_
      BY DEF WriteSome, WriteLast
    <2>3. QED
      BY <2>1, <2>2 DEF SendTypeOK, WriteSome, WriteLast
  <1>2. received' \in Seq(Byte) /\ iv_' \in [{0, 1} -> Vector] /\ cuts' \in Nat
    BY <1>1, WritevType
  <1>3. UNCHANGED <<iv_count_, answer>> /\ write_idx_' \in {write_idx_, 0}
    BY DEF WriteSome, WriteLast, ResetCounters
  <1>4. bytes_sent_' \in Nat /\ bytes_unsent_' \in Nat
    <2>1. bytes_sent_ + n \in Nat /\ bytes_unsent_ - n \in Nat
      BY <1>1 DEF SendTypeOK
    <2>2. /\ bytes_sent_' \in {bytes_sent_ + n, 0}
          /\ bytes_unsent_' \in {bytes_unsent_ - n, 0}
      BY DEF WriteSome, WriteLast, ResetCounters
    <2>3. QED
      BY <2>1, <2>2
  <1>5. iv_' \in [{0, 1} -> [base : Int, len : Nat]]
    BY <1>2 DEF Vector
  <1>6. SendTypeOK'
    BY <1>2, <1>3, <1>4, <1>5 DEF SendTypeOK
  <1>7. n \in 1 .. bytes_unsent_
    BY <1>1 DEF SendTypeOK
  <1>8. QED
    BY <1>1, <1>6, <1>7

LEMMA SendStep ==
  ASSUME SendTypeOK, MappingTypeOK, [Next]_vars
  PROVE  SendTypeOK'
  <1>1. CASE UNCHANGED <<iovecs, counters, answer, received, cuts>>
    BY <1>1 DEF SendTypeOK, iovecs, counters
  <1>2. CASE Accept
    BY <1>2 DEF Accept, ResetCounters, iovecs, SendTypeOK
  <1>3. CASE WriteNothing
    <2>1. bytes_sent_ \in Nat /\ bytes_unsent_ \in Nat
      BY DEF SendTypeOK
    <2>2. iv_' \in [{0, 1} -> [base : Int, len : Nat]]
      BY <1>3, <2>1, IovecsType DEF WriteNothing, Vector
    <2>3. QED
      BY <1>3, <2>2 DEF WriteNothing, SendTypeOK, counters
  <1>4. CASE CbFunc \/ ProcessWriteFails \/ WriteBlocks \/ WriteFails \/ CallWrite \/ NoFile \/ File
             \/ UNCHANGED writeVars
    BY <1>1, <1>4 DEF CbFunc, ProcessWriteFails, WriteBlocks, WriteFails, CallWrite, NoFile, File, writeVars
  <1>5. QED
    BY <1>2, <1>3, <1>4, ProcessWriteType, WriteSomeType DEF Next, Process, Write, WriteProceeds, vars

LEMMA MaxOf ==
  ASSUME NEW x \in Int
  PROVE  Max({0, x}) = IF x > 0 THEN x ELSE 0
  <1>1. PICK m \in {0, x} : \A y \in {0, x} : m >= y
    <2>1. CASE x > 0
      BY <2>1
    <2>2. CASE ~(x > 0)
      BY <2>2
    <2>3. QED
      BY <2>1, <2>2
  <1>2. Max({0, x}) \in {0, x} /\ \A y \in {0, x} : Max({0, x}) >= y
    BY <1>1 DEF Max
  <1>3. QED
    BY <1>2

LEMMA UnmapIs ==
  ASSUME MappingTypeOK, Unmap
  PROVE  /\ MappingTypeOK'
         /\ \A a \in Addresses : a # file_address_ => mapped'[a] = mapped[a]
         /\ \A a \in Addresses : mapped[a] = 0 => mapped'[a] = 0
         /\ file_address_ \in Addresses /\ mapped[file_address_] = file_size => mapped'[file_address_] = 0
  <1>1. file_size \in Nat /\ \A a \in Addresses : mapped[a] \in Nat
    BY HttpWriteAssumption DEF MappingTypeOK
  <1>2. \A a \in Addresses : /\ mapped[a] - file_size \in Int
                             /\ Max({0, mapped[a] - file_size})
                                  = IF mapped[a] - file_size > 0 THEN mapped[a] - file_size ELSE 0
    BY <1>1, MaxOf
  <1>3. \A a \in Addresses :
           mapped'[a] = IF a = file_address_
                        THEN IF mapped[a] - file_size > 0 THEN mapped[a] - file_size ELSE 0
                        ELSE mapped[a]
    BY <1>2 DEF Unmap
  <1>4. mapped' \in [Addresses -> Nat]
    <2>1. \A a \in Addresses : mapped'[a] \in Nat
      BY <1>1, <1>3
    <2>2. mapped' = [a \in Addresses |-> mapped'[a]]
      BY DEF Unmap
    <2>3. QED
      BY <2>1, <2>2
  <1>5. MappingTypeOK'
    BY <1>4 DEF Unmap, MappingTypeOK
  <1>6. \A a \in Addresses : mapped[a] = 0 => mapped'[a] = 0
    BY <1>1, <1>3
  <1>7. QED
    BY <1>1, <1>3, <1>5, <1>6

LEMMA FileIs ==
  ASSUME MappingTypeOK, File
  PROVE  /\ MappingTypeOK'
         /\ \/ file_address_' \notin Addresses /\ mapped' = mapped
            \/ /\ file_address_' \in Addresses /\ mapped[file_address_'] = 0
               /\ mapped'[file_address_'] = file_size'
               /\ \A a \in Addresses : a # file_address_' => mapped'[a] = mapped[a]
  <1>1. file_size' \in FileSizes /\ file_size' \in Nat
    BY HttpWriteAssumption DEF File
  <1>2. CASE file_address_' = MAP_FAILED /\ UNCHANGED mapped
    BY <1>1, <1>2, HttpWriteAssumption DEF File, MappingTypeOK
  <1>3. CASE ~(file_address_' = MAP_FAILED /\ UNCHANGED mapped)
    <2>1. /\ file_address_' \in Addresses /\ mapped[file_address_'] = 0
          /\ mapped' = [mapped EXCEPT ![file_address_'] = file_size']
      BY <1>3 DEF File
    <2>2. QED
      BY <1>1, <2>1 DEF MappingTypeOK
  <1>4. QED
    BY <1>2, <1>3

\* A connection is abandoned at most once.
CountInv == abandoned + (IF pc = "closed" THEN 0 ELSE 1) <= conns

ConnInv == TypeOK /\ PastCR /\ CountInv

LEMMA ParseInvStep ==
  ASSUME ParseInv, [Next]_vars
  PROVE  ParseInv'
  <1>1. ClientTypeOK /\ RequestTypeOK
    BY DEF ParseInv, ParseTypeOK
  <1>2. CASE UNCHANGED <<client, parser>>
             /\ code' \in {code, "NO_RESOURCE", "FORBIDDEN_REQUEST", "BAD_REQUEST", "FILE_REQUEST"}
    <2>1. UNCHANGED <<trig_mode_, stream, got>>
      BY <1>2 DEF client
    <2>2. UNCHANGED <<read_buf_, checked_idx_, start_line_, check_state_, content_length_, linger_,
                      method_, content_, line_state_, torn>>
      BY <1>2 DEF parser
    <2>3. ClientTypeOK'
      BY <1>1, <2>1 DEF ClientTypeOK
    <2>4. BufferTypeOK' /\ PastCR'
      BY <2>2 DEF ParseInv, ParseTypeOK, BufferTypeOK, PastCR
    <2>5. RequestTypeOK'
      BY <1>1, <1>2, <2>2 DEF RequestTypeOK
    <2>6. QED
      BY <2>3, <2>4, <2>5 DEF ParseInv, ParseTypeOK
  <1>3. CASE Read
    BY <1>2, <1>3, ReadOnceType DEF Read, BufferFull
  <1>4. CASE ProcessRead
    BY <1>4, ParseStep
  <1>5. CASE NoFile \/ File \/ ProcessWrite \/ ProcessWriteFails \/ CallWrite \/ WriteNothing
             \/ WriteBlocks \/ WriteFails \/ CbFunc \/ UNCHANGED vars
    BY <1>2, <1>5 DEF NoFile, File, ProcessWrite, ProcessWriteFails, CallWrite, WriteNothing,
       WriteBlocks, WriteFails, CbFunc, vars, parseVars
  <1>6. ASSUME NEW n, WriteSome(n) \/ WriteLast(n) PROVE ParseInv'
    <2>1. CASE UNCHANGED parser
      BY <1>2, <1>6, <2>1 DEF WriteSome, WriteLast
    <2>2. CASE ResetParser
      <3>1. UNCHANGED <<trig_mode_, stream, got, code>>
        BY <1>6 DEF WriteSome, WriteLast, client
      <3>2. QED
        BY <1>1, <2>2, <3>1, ResetType DEF ParseInv, ClientTypeOK
    <2>3. QED
      BY <1>6, <2>1, <2>2 DEF WriteSome, WriteLast
  <1>7. CASE Accept
    <2>1. stream' \in Streams /\ got' = 0 /\ UNCHANGED <<trig_mode_, code>> /\ ResetParser
      BY <1>7 DEF Accept
    <2>2. Len(stream') \in Nat
      <3>1. stream' \in Seq(Word)
        BY <2>1, HttpParseAssumption
      <3>2. QED
        BY <3>1, LenProperties
    <2>3. ClientTypeOK'
      BY <1>1, <2>1, <2>2 DEF ClientTypeOK
    <2>4. QED
      BY <2>1, <2>3, ResetType DEF ParseInv
  <1>8. QED
    BY <1>3, <1>4, <1>5, <1>6, <1>7 DEF Next, Process, Write, WriteProceeds

LEMMA MappingStep ==
  ASSUME MappingTypeOK, [Next]_vars
  PROVE  MappingTypeOK'
  <1>1. CASE UNCHANGED mapping
    BY <1>1 DEF mapping, MappingTypeOK
  <1>2. CASE NoFile
    <2>1. file_size' \in FileSizes \cup {0}
      BY <1>2 DEF NoFile, MappingTypeOK
    <2>2. QED
      BY <1>2, <2>1 DEF NoFile, MappingTypeOK
  <1>3. CASE Unmap
    BY <1>3, UnmapIs
  <1>4. CASE File
    BY <1>4, FileIs
  <1>5. QED
    BY <1>1, <1>2, <1>3, <1>4 DEF Next, Process, Write, WriteProceeds, ProcessWrite, ProcessWriteFails, CallWrite,
       WriteNothing, WriteBlocks, WriteFails, WriteSome, WriteLast, Accept, CbFunc, vars, writeVars

LEMMA ConnStep ==
  ASSUME TypeOK, PastCR, CountInv, [Next]_vars
  PROVE  ConnTypeOK' /\ CountInv'
  <1>1. /\ conns \in Nat /\ abandoned \in Nat /\ MaxConns \in Nat /\ conns <= MaxConns /\ conns # 0
        /\ ConnTypeOK
    BY HttpConnAssumption DEF TypeOK, ConnTypeOK
  <1>2. CASE UNCHANGED <<conns, abandoned>> /\ pc # "closed"
             /\ pc' \in {"in", "process_read", "do_request", "process_write", "out", "write", "closed"}
    BY <1>1, <1>2 DEF ConnTypeOK, CountInv
  <1>3. CASE (Read \/ Process \/ CallWrite \/ WriteNothing \/ Write) /\ UNCHANGED <<conns, abandoned>>
    <2>1. ParseInv
      BY DEF TypeOK, ParseInv
    <2>2. pc # "closed"
          /\ pc' \in {"in", "process_read", "do_request", "process_write", "out", "write", "closed"}
      <3>1. CASE ProcessRead
        BY <2>1, <3>1, ParseStep
      <3>2. CASE Read
        BY <3>2 DEF Read, ReadOnce, BufferFull
      <3>3. CASE NoFile \/ File \/ ProcessWrite \/ ProcessWriteFails
        BY <3>3 DEF NoFile, File, ProcessWrite, ProcessWriteFails
      <3>4. CASE CallWrite \/ WriteNothing \/ WriteBlocks \/ WriteFails
        BY <3>4 DEF CallWrite, WriteNothing, WriteBlocks, WriteFails
      <3>5. ASSUME NEW n, WriteSome(n) \/ WriteLast(n)
            PROVE  pc = "write" /\ pc' \in {"write", "in", "closed"}
        BY <3>5 DEF WriteSome, WriteLast, Writev
      <3>6. QED
        BY <1>3, <3>1, <3>2, <3>3, <3>4, <3>5 DEF Process, Write, WriteProceeds
    <2>3. QED
      BY <1>2, <1>3, <2>2
  <1>4. CASE Accept
    <2>1. pc = "closed" /\ pc' = "in" /\ conns < MaxConns /\ conns' = conns + 1 /\ abandoned' = abandoned
      BY <1>4 DEF Accept
    <2>2. abandoned <= conns
      BY <1>1, <2>1 DEF CountInv
    <2>3. QED
      BY <1>1, <2>1, <2>2 DEF ConnTypeOK, CountInv
  <1>5. CASE CbFunc
    <2>1. /\ pc \in {"in", "out"} /\ pc' = "closed" /\ conns' = conns
          /\ abandoned' \in {abandoned, abandoned + 1}
      BY <1>5 DEF CbFunc
    <2>2. abandoned + 1 <= conns
      BY <1>1, <2>1 DEF CountInv
    <2>3. abandoned' \in Nat /\ abandoned' <= conns /\ abandoned' <= MaxConns
      BY <1>1, <2>1, <2>2
    <2>4. ConnTypeOK'
      BY <1>1, <2>1, <2>3 DEF ConnTypeOK
    <2>5. QED
      BY <2>1, <2>3, <2>4 DEF CountInv
  <1>6. CASE UNCHANGED vars
    BY <1>1, <1>6 DEF vars, parseVars, ConnTypeOK, CountInv
  <1>7. QED
    BY <1>3, <1>4, <1>5, <1>6 DEF Next

LEMMA ConnInit == Init => ConnInv
  <1> SUFFICES ASSUME Init PROVE ConnInv
    OBVIOUS
  <1>1. ClientTypeOK
    <2>1. stream \in Seq(Word)
      BY HttpParseAssumption DEF Init
    <2>2. Len(stream) \in Nat
      BY <2>1, LenProperties
    <2>3. QED
      BY <2>2 DEF Init, ClientTypeOK
  <1>2. BufferTypeOK /\ PastCR
    <2>1. read_buf_ \in Seq(Word) /\ Len(read_buf_) = 0
      <3>1. read_buf_ = <<>>
        BY DEF Init, ParseInit
      <3>2. QED
        BY <3>1, EmptySeq
    <2>2. checked_idx_ = 0 /\ start_line_ = 0 /\ READ_BUFFER_SIZE \in Nat
      BY HttpParseAssumption DEF Init, ParseInit
    <2>3. QED
      BY <2>1, <2>2 DEF BufferTypeOK, PastCR
  <1>3. RequestTypeOK
    <2>1. content_length_ \in Int /\ content_ \in Nat
      <3>1. content_length_ = 0 /\ content_ = 0
        BY Zenon DEF Init, ParseInit
      <3>2. QED
        BY <3>1
    <2>2. /\ check_state_ = "request line" /\ line_state_ = "ok" /\ method_ = "GET"
          /\ linger_ = FALSE /\ torn = FALSE /\ code = "NO_REQUEST"
      BY DEF Init, ParseInit
    <2>3. QED
      BY <2>1, <2>2, Zenon DEF RequestTypeOK
  <1>4. MappingTypeOK
    BY DEF Init, WriteInit, MappingTypeOK
  <1>5. SendTypeOK
    <2>1. answer \in Seq(Byte) /\ received \in Seq(Byte)
      <3>1. <<>> \in Seq(Byte)
        BY EmptySeq
      <3>2. QED
        BY <3>1 DEF Init, WriteInit
    <2>2. iv_ \in [{0, 1} -> [base : Int, len : Nat]]
      BY DEF Init, WriteInit
    <2>3. QED
      BY <2>1, <2>2 DEF Init, WriteInit, SendTypeOK
  <1>6. ConnTypeOK /\ CountInv
    BY HttpConnAssumption DEF Init, ConnTypeOK, CountInv
  <1>7. QED
    BY <1>1, <1>2, <1>3, <1>4, <1>5, <1>6 DEF ConnInv, TypeOK, ParseTypeOK, WriteTypeOK

LEMMA ConnInvStep == ConnInv /\ [Next]_vars => ConnInv'
  <1> SUFFICES ASSUME ConnInv, [Next]_vars PROVE ConnInv'
    OBVIOUS
  <1>1. TypeOK /\ PastCR /\ CountInv
    BY DEF ConnInv
  <1>2. ParseInv'
    BY <1>1, ParseInvStep DEF TypeOK, ParseInv
  <1>3. WriteTypeOK'
    BY <1>1, SendStep, MappingStep DEF TypeOK, WriteTypeOK
  <1>4. ConnTypeOK' /\ CountInv'
    BY <1>1, ConnStep
  <1>5. QED
    BY <1>2, <1>3, <1>4 DEF ConnInv, TypeOK, ParseInv

\* The types, for whatever clients send and in whatever pieces: in particular
\* parse_line and parse_content stay within what was received.
THEOREM TypeCorrect == Spec => []TypeOK
  <1>1. ConnInv => TypeOK
    BY DEF ConnInv
  <1>2. QED
    BY <1>1, ConnInit, ConnInvStep, PTL DEF Spec

-----------------------------------------------------------------------------
(* The answer: which bytes come.                                           *)

\* Until writev stops within the headers for the second time: the counters
\* divide the answer into what has come and what the iovecs offer.
VecInv ==
    /\ bytes_sent_ + bytes_unsent_ = Len(answer) /\ bytes_unsent_ # 0
    /\ write_idx_ # 0 /\ write_idx_ <= Len(answer) /\ iv_count_ \in {1, 2}
    /\ iv_count_ = 1 => Len(answer) = write_idx_
    /\ \A i \in 1 .. Len(answer) :
          answer[i] = IF i <= write_idx_ THEN <<"write_buf_", i - 1>>
                                         ELSE <<"file", (i - write_idx_) - 1>>
    /\ Len(received) = bytes_sent_ /\ \A i \in 1 .. bytes_sent_ : received[i] = answer[i]
    /\ bytes_sent_ < write_idx_ =>
          /\ bytes_sent_ = 0 \/ cuts = 1
          /\ iv_[0].base = bytes_sent_ /\ iv_[0].len = write_idx_ - bytes_sent_
          /\ iv_count_ = 2 => iv_[1].base = 0 /\ iv_[1].len = Len(answer) - write_idx_
    /\ bytes_sent_ >= write_idx_ =>
          /\ iv_[0].len = 0 /\ iv_count_ = 2
          /\ iv_[1].base = bytes_sent_ - write_idx_ /\ iv_[1].len = bytes_unsent_

SendInv ==
    /\ pc \in {"out", "write"} /\ cuts <= 1 => VecInv
    /\ pc \notin {"out", "write", "closed"} => bytes_sent_ = 0

\* All that is left is offered.
LEMMA OfferedIs ==
  ASSUME SendTypeOK, VecInv
  PROVE  /\ Len(Offered) = bytes_unsent_
         /\ \A j \in 1 .. bytes_unsent_ : Offered[j] = answer[bytes_sent_ + j]
  <1>1. /\ bytes_sent_ \in Nat /\ bytes_unsent_ \in Nat /\ write_idx_ \in Nat /\ Len(answer) \in Nat
        /\ bytes_sent_ + bytes_unsent_ = Len(answer) /\ write_idx_ <= Len(answer)
    BY HttpWriteAssumption, LenProperties DEF SendTypeOK, VecInv
  <1>2. PICK first : first = Offer(iv_[0], "write_buf_")
    OBVIOUS
  <1>3. PICK second : second = IF iv_count_ = 2 THEN Offer(iv_[1], "file") ELSE <<>>
    OBVIOUS
  <1>4. /\ first \in Seq(Byte) /\ Len(first) = iv_[0].len
        /\ \A i \in 1 .. iv_[0].len : first[i] = <<"write_buf_", iv_[0].base + i - 1>>
    BY <1>2, VectorsType, OfferIs
  <1>5. /\ second \in Seq(Byte)
        /\ iv_count_ = 2 => /\ Len(second) = iv_[1].len
                            /\ \A i \in 1 .. iv_[1].len : second[i] = <<"file", iv_[1].base + i - 1>>
        /\ iv_count_ = 1 => Len(second) = 0
    BY <1>3, VectorsType, OfferIs, EmptySeq
  <1>6. /\ Len(Offered) = Len(first) + Len(second)
        /\ \A i \in 1 .. Len(first) + Len(second) :
              Offered[i] = IF i <= Len(first) THEN first[i] ELSE second[i - Len(first)]
    <2>1. Offered = first \o second
      BY <1>2, <1>3 DEF Offered
    <2>2. QED
      BY <1>4, <1>5, <2>1, ConcatProperties
  <1>7. CASE bytes_sent_ < write_idx_
    <2>1. /\ Len(first) = write_idx_ - bytes_sent_
          /\ \A i \in 1 .. Len(first) : first[i] = <<"write_buf_", bytes_sent_ + i - 1>>
      BY <1>4, <1>7 DEF VecInv
    <2>2. /\ Len(second) = Len(answer) - write_idx_
          /\ \A i \in 1 .. Len(second) : second[i] = <<"file", 0 + i - 1>>
      <3>1. CASE iv_count_ = 1
        <4>1. Len(second) = 0 /\ Len(answer) = write_idx_
          BY <1>5, <3>1 DEF VecInv
        <4>2. QED
          BY <1>1, <4>1
      <3>2. CASE iv_count_ = 2
        BY <1>5, <1>7, <3>2 DEF VecInv
      <3>3. QED
        BY <3>1, <3>2 DEF VecInv
    <2>3. Len(Offered) = bytes_unsent_
      BY <1>1, <1>6, <2>1, <2>2
    <2>4. ASSUME NEW j \in 1 .. bytes_unsent_ PROVE Offered[j] = answer[bytes_sent_ + j]
      <3>1. bytes_sent_ + j \in 1 .. Len(answer) /\ j \in 1 .. Len(first) + Len(second)
        BY <1>1, <2>1, <2>2
      <3>2. CASE j <= Len(first)
        <4>1. j \in 1 .. Len(first) /\ bytes_sent_ + j <= write_idx_
          BY <1>1, <2>1, <3>1, <3>2
        <4>2. Offered[j] = <<"write_buf_", bytes_sent_ + j - 1>>
          BY <1>6, <2>1, <3>1, <3>2, <4>1
        <4>3. (bytes_sent_ + j) - 1 = bytes_sent_ + j - 1
          BY <1>1
        <4>4. QED
          BY <3>1, <4>1, <4>2, <4>3 DEF VecInv
      <3>3. CASE j > Len(first)
        <4>1. j - Len(first) \in 1 .. Len(second) /\ ~(j <= Len(first))
          BY <1>1, <2>1, <2>2, <3>1, <3>3
        <4>2. Offered[j] = <<"file", 0 + (j - Len(first)) - 1>>
          BY <1>6, <2>2, <3>1, <4>1
        <4>3. /\ ~(bytes_sent_ + j <= write_idx_)
              /\ ((bytes_sent_ + j) - write_idx_) - 1 = 0 + (j - Len(first)) - 1
          BY <1>1, <2>1, <3>1, <3>3
        <4>4. QED
          BY <3>1, <4>2, <4>3 DEF VecInv
      <3>4. QED
        BY <1>1, <2>1, <3>2, <3>3
    <2>5. QED
      BY <2>3, <2>4
  <1>8. CASE bytes_sent_ >= write_idx_
    <2>1. /\ Len(first) = 0 /\ Len(second) = bytes_unsent_
          /\ \A i \in 1 .. bytes_unsent_ : second[i] = <<"file", (bytes_sent_ - write_idx_) + i - 1>>
      BY <1>4, <1>5, <1>8 DEF VecInv
    <2>2. Len(Offered) = bytes_unsent_
      BY <1>1, <1>6, <2>1
    <2>3. ASSUME NEW j \in 1 .. bytes_unsent_ PROVE Offered[j] = answer[bytes_sent_ + j]
      <3>1. /\ bytes_sent_ + j \in 1 .. Len(answer) /\ ~(bytes_sent_ + j <= write_idx_)
            /\ ((bytes_sent_ + j) - write_idx_) - 1 = (bytes_sent_ - write_idx_) + j - 1
            /\ j \in 1 .. 0 + bytes_unsent_ /\ ~(j <= 0) /\ j - 0 = j
        BY <1>1, <1>8
      <3>2. Offered[j] = second[j]
        BY <1>6, <2>1, <3>1
      <3>3. QED
        BY <2>1, <3>1, <3>2 DEF VecInv
    <2>4. QED
      BY <2>2, <2>3
  <1>9. QED
    BY <1>1, <1>7, <1>8

\* What has come is the beginning of the answer, with n bytes more than before.
LEMMA Comes ==
  ASSUME SendTypeOK, VecInv, NEW n \in 1 .. bytes_unsent_, Writev(n)
  PROVE  /\ received' \in Seq(Byte) /\ Len(received') = bytes_sent_ + n
         /\ \A i \in 1 .. bytes_sent_ + n : received'[i] = answer[i]
         /\ \A i \in 1 .. bytes_sent_ : received'[i] = received[i]
  <1>1. /\ n \in Nat /\ bytes_sent_ \in Nat /\ bytes_unsent_ \in Nat /\ n <= bytes_unsent_
        /\ Len(received) = bytes_sent_
    BY DEF SendTypeOK, VecInv
  <1>2. /\ received' \in Seq(Byte) /\ Len(received') = bytes_sent_ + n
        /\ \A i \in 1 .. bytes_sent_ : received'[i] = received[i]
        /\ \A i \in 1 .. n : received'[bytes_sent_ + i] = Offered[i]
    BY <1>1, WritevType
  <1>3. ASSUME NEW i \in 1 .. bytes_sent_ + n PROVE received'[i] = answer[i]
    <2>1. CASE i <= bytes_sent_
      <3>1. i \in 1 .. bytes_sent_
        BY <1>1, <2>1
      <3>2. QED
        BY <1>2, <3>1 DEF VecInv
    <2>2. CASE i > bytes_sent_
      <3>1. i - bytes_sent_ \in 1 .. n /\ i - bytes_sent_ \in 1 .. bytes_unsent_
            /\ bytes_sent_ + (i - bytes_sent_) = i
        BY <1>1, <2>2
      <3>2. received'[i] = Offered[i - bytes_sent_]
        BY <1>2, <3>1
      <3>3. QED
        BY <3>1, <3>2, OfferedIs
    <2>3. QED
      BY <1>1, <2>1, <2>2
  <1>4. QED
    BY <1>2, <1>3

LEMMA VecSome ==
  ASSUME SendTypeOK, VecInv, cuts <= 1, cuts' <= 1, NEW n, WriteSome(n)
  PROVE  VecInv'
  <1>1. n \in 1 .. bytes_unsent_ /\ Writev(n) /\ n < bytes_unsent_ /\ SendTypeOK'
    BY WriteSomeType DEF WriteSome
  <1>2. /\ bytes_sent_' = bytes_sent_ + n /\ bytes_unsent_' = bytes_unsent_ - n
        /\ UNCHANGED <<iv_count_, write_idx_, answer>>
        /\ iv_' = Iovecs(bytes_sent_ + n, bytes_unsent_ - n)
        /\ cuts' = IF n < iv_[0].len THEN cuts + 1 ELSE cuts
    BY <1>1 DEF WriteSome, Writev
  <1>3. /\ n \in Nat /\ n # 0 /\ bytes_sent_ \in Nat /\ bytes_unsent_ \in Nat /\ write_idx_ \in Nat
        /\ Len(answer) \in Nat /\ bytes_sent_ + bytes_unsent_ = Len(answer) /\ cuts \in Nat
    <2>1. /\ bytes_sent_ \in Nat /\ bytes_unsent_ \in Nat /\ write_idx_ \in Nat /\ cuts \in Nat
      BY HttpWriteAssumption DEF SendTypeOK
    <2>2. Len(answer) \in Nat
      BY LenProperties DEF SendTypeOK
    <2>3. QED
      BY <1>1, <2>1, <2>2 DEF VecInv
  <1>4. /\ Len(received') = bytes_sent_' /\ \A i \in 1 .. bytes_sent_' : received'[i] = answer[i]
    BY <1>1, <1>2, Comes
  <1>5. bytes_sent_' + bytes_unsent_' = Len(answer) /\ bytes_unsent_' # 0
    BY <1>1, <1>2, <1>3
  <1>6. CASE bytes_sent_ < write_idx_ /\ n < write_idx_ - bytes_sent_
    <2>1. iv_[0].len = write_idx_ - bytes_sent_ /\ cuts' = cuts + 1
      BY <1>2, <1>6 DEF VecInv
    <2>2. cuts' = 1 /\ bytes_sent_ = 0
      BY <1>3, <1>6, <2>1 DEF VecInv
    <2>3. bytes_sent_' = n /\ n < write_idx_ /\ iv_[0].len = write_idx_ /\ ~(bytes_sent_ + n >= iv_[0].len)
      BY <1>2, <1>3, <1>6, <2>1, <2>2
    <2>4. iv_' = [iv_ EXCEPT ![0] = [base |-> bytes_sent_ + n, len |-> iv_[0].len - (bytes_sent_ + n)]]
      BY <1>2, <2>3 DEF Iovecs
    <2>5. iv_'[0].base = bytes_sent_' /\ iv_'[0].len = write_idx_ - bytes_sent_' /\ iv_'[1] = iv_[1]
      BY <1>2, <2>3, <2>4 DEF SendTypeOK
    <2>6. iv_count_ = 2 => iv_[1].base = 0 /\ iv_[1].len = Len(answer) - write_idx_
      BY <1>6 DEF VecInv
    <2>7. bytes_sent_' < write_idx_ /\ ~(bytes_sent_' >= write_idx_)
      BY <1>3, <2>3
    <2>8. QED
      BY <1>2, <1>4, <1>5, <2>2, <2>5, <2>6, <2>7 DEF VecInv
  <1>7. CASE bytes_sent_ >= write_idx_ \/ (bytes_sent_ < write_idx_ /\ n >= write_idx_ - bytes_sent_)
    <2>1. bytes_sent_ + n >= write_idx_ /\ bytes_sent_ + n >= iv_[0].len
      <3>1. CASE bytes_sent_ >= write_idx_
        BY <1>3, <3>1 DEF VecInv
      <3>2. CASE bytes_sent_ < write_idx_ /\ n >= write_idx_ - bytes_sent_
        <4>1. iv_[0].len = write_idx_ - bytes_sent_
          BY <3>2 DEF VecInv
        <4>2. QED
          BY <1>3, <3>2, <4>1
      <3>3. QED
        BY <1>7, <3>1, <3>2
    <2>2. iv_count_ = 2
      <3>1. Len(answer) # write_idx_
        BY <1>1, <1>3, <2>1
      <3>2. QED
        BY <3>1 DEF VecInv
    <2>3. /\ iv_'[0].len = 0 /\ iv_'[1].base = bytes_sent_' - write_idx_ /\ iv_'[1].len = bytes_unsent_'
      BY <1>2, <2>1 DEF Iovecs, SendTypeOK
    <2>4. bytes_sent_' >= write_idx_ /\ ~(bytes_sent_' < write_idx_)
      BY <1>2, <1>3, <2>1
    <2>5. QED
      BY <1>2, <1>4, <1>5, <2>2, <2>3, <2>4 DEF VecInv
  <1>8. QED
    BY <1>3, <1>6, <1>7

\* The answer as process_write prepares it.
LEMMA VecBegin ==
  ASSUME SendTypeOK, MappingTypeOK, bytes_sent_ = 0, ProcessWrite
  PROVE  VecInv'
  <1>1. /\ file_size \in Nat /\ HeaderSize \in Nat \ {0} /\ PageSize \in Nat \ {0}
        /\ bytes_sent_' = 0 /\ received' = <<>> /\ answer' = Offered' /\ SendTypeOK'
    BY HttpWriteAssumption, ProcessWriteType DEF MappingTypeOK, ProcessWrite
  <1>2. PICK first : first = Offer(iv_'[0], "write_buf_")
    OBVIOUS
  <1>3. PICK second : second = Offer(iv_'[1], "file")
    OBVIOUS
  <1>4. answer' = first \o (IF iv_count_' = 2 THEN second ELSE <<>>)
    BY <1>1, <1>2, <1>3 DEF Offered, Offer
  <1>5. iv_'[0] \in Vector /\ iv_'[1] \in Vector
    BY <1>1 DEF SendTypeOK, Vector
  <1>6. /\ first \in Seq(Byte) /\ Len(first) = iv_'[0].len
        /\ \A i \in 1 .. iv_'[0].len : first[i] = <<"write_buf_", iv_'[0].base + i - 1>>
    BY <1>2, <1>5, OfferIs
  <1>7. /\ second \in Seq(Byte) /\ Len(second) = iv_'[1].len
        /\ \A i \in 1 .. iv_'[1].len : second[i] = <<"file", iv_'[1].base + i - 1>>
    BY <1>3, <1>5, OfferIs
  <1>8. CASE code = "FILE_REQUEST" /\ file_size # 0
    <2>1. /\ write_idx_' = HeaderSize /\ iv_count_' = 2 /\ bytes_unsent_' = HeaderSize + file_size
          /\ iv_'[0].base = 0 /\ iv_'[0].len = HeaderSize
          /\ iv_'[1].base = 0 /\ iv_'[1].len = file_size
      BY <1>8 DEF ProcessWrite
    <2>2. answer' = first \o second
      BY <1>4, <2>1
    <2>3. /\ Len(answer') = HeaderSize + file_size
          /\ \A i \in 1 .. HeaderSize + file_size :
                answer'[i] = IF i <= HeaderSize THEN first[i] ELSE second[i - HeaderSize]
      <3>1. /\ Len(first \o second) = Len(first) + Len(second)
            /\ \A i \in 1 .. Len(first) + Len(second) :
                  (first \o second)[i] = IF i <= Len(first) THEN first[i] ELSE second[i - Len(first)]
        BY <1>6, <1>7, ConcatProperties
      <3>2. Len(first) = HeaderSize /\ Len(second) = file_size
        BY <1>6, <1>7, <2>1
      <3>3. QED
        BY <2>2, <3>1, <3>2
    <2>4. ASSUME NEW i \in 1 .. HeaderSize + file_size
          PROVE  answer'[i] = IF i <= HeaderSize THEN <<"write_buf_", i - 1>>
                                                 ELSE <<"file", (i - HeaderSize) - 1>>
      <3>1. CASE i <= HeaderSize
        <4>1. i \in 1 .. HeaderSize /\ 0 + i - 1 = i - 1
          BY <1>1, <3>1
        <4>2. QED
          BY <1>6, <2>1, <2>3, <3>1, <4>1
      <3>2. CASE ~(i <= HeaderSize)
        <4>1. i - HeaderSize \in 1 .. file_size
              /\ 0 + (i - HeaderSize) - 1 = (i - HeaderSize) - 1
          BY <1>1, <3>2
        <4>2. QED
          BY <1>7, <2>1, <2>3, <3>2, <4>1
      <3>3. QED
        BY <3>1, <3>2
    <2>5. Len(received') = 0 /\ \A i \in 1 .. 0 : received'[i] = answer'[i]
      BY <1>1, EmptySeq
    <2>6. bytes_sent_' + bytes_unsent_' = Len(answer') /\ bytes_unsent_' # 0
          /\ write_idx_' <= Len(answer') /\ write_idx_' # 0 /\ ~(bytes_sent_' >= write_idx_')
          /\ iv_'[0].len = write_idx_' - bytes_sent_' /\ iv_'[1].len = Len(answer') - write_idx_'
      BY <1>1, <2>1, <2>3
    <2>7. QED
      BY <1>1, <2>1, <2>3, <2>4, <2>5, <2>6 DEF VecInv
  <1>9. CASE ~(code = "FILE_REQUEST" /\ file_size # 0)
    <2>1. /\ write_idx_' = PageSize /\ iv_count_' = 1 /\ bytes_unsent_' = PageSize
          /\ iv_'[0].base = 0 /\ iv_'[0].len = PageSize
      BY <1>9 DEF ProcessWrite, SendTypeOK
    <2>2. answer' = first
      BY <1>4, <1>6, <2>1, ConcatEmptySeq
    <2>3. /\ Len(answer') = PageSize
          /\ \A i \in 1 .. PageSize : answer'[i] = <<"write_buf_", i - 1>> /\ i <= PageSize
      BY <1>1, <1>6, <2>1, <2>2
    <2>4. Len(received') = 0 /\ \A i \in 1 .. 0 : received'[i] = answer'[i]
      BY <1>1, EmptySeq
    <2>5. bytes_sent_' + bytes_unsent_' = Len(answer') /\ bytes_unsent_' # 0
          /\ write_idx_' = Len(answer') /\ write_idx_' # 0 /\ ~(bytes_sent_' >= write_idx_')
          /\ iv_'[0].len = write_idx_' - bytes_sent_'
      BY <1>1, <2>1, <2>3
    <2>6. QED
      BY <1>1, <2>1, <2>3, <2>4, <2>5 DEF VecInv
  <1>10. QED
    BY <1>8, <1>9

\* The reading side of a connection leaves the answer alone.
LEMMA Quiet ==
  ASSUME ParseInv, (Read \/ ProcessRead) /\ UNCHANGED writeVars
  PROVE  /\ pc \in {"in", "process_read"}
         /\ pc' \in {"in", "process_read", "do_request", "process_write", "closed"}
         /\ UNCHANGED <<answer, received, cuts, bytes_sent_, bytes_unsent_, write_idx_, iv_, iv_count_,
                        file_address_, file_size, mapped>>
  <1>1. UNCHANGED <<answer, received, cuts, bytes_sent_, bytes_unsent_, write_idx_, iv_, iv_count_,
                    file_address_, file_size, mapped>>
    BY DEF writeVars, counters, iovecs, mapping
  <1>2. CASE Read
    BY <1>1, <1>2 DEF Read, ReadOnce, BufferFull
  <1>3. CASE ProcessRead
    BY <1>1, <1>3, ParseStep
  <1>4. QED
    BY <1>2, <1>3

LEMMA SendInvStep ==
  ASSUME TypeOK, PastCR, SendInv, [Next]_vars
  PROVE  SendInv'
  <1>1. SendTypeOK /\ MappingTypeOK /\ ParseInv
    BY DEF TypeOK, WriteTypeOK, ParseInv
  <1>2. CASE (Read \/ ProcessRead) /\ UNCHANGED writeVars
    BY <1>1, <1>2, Quiet DEF SendInv
  <1>3. CASE NoFile \/ File
    BY <1>3 DEF SendInv, NoFile, File, counters
  <1>4. CASE ProcessWrite
    <2>1. bytes_sent_ = 0 /\ pc' = "out"
      BY <1>4 DEF SendInv, ProcessWrite
    <2>2. VecInv'
      BY <1>1, <1>4, <2>1, VecBegin
    <2>3. QED
      BY <2>1, <2>2 DEF SendInv
  <1>5. CASE CbFunc \/ ProcessWriteFails \/ WriteFails
    BY <1>5 DEF SendInv, CbFunc, ProcessWriteFails, WriteFails
  <1>6. CASE CallWrite \/ WriteBlocks
    <2>1. pc \in {"out", "write"} /\ pc' \in {"out", "write"} /\ UNCHANGED writeVars
      BY <1>6 DEF CallWrite, WriteBlocks
    <2>2. VecInv <=> VecInv'
      BY <2>1 DEF VecInv, writeVars, counters, iovecs
    <2>3. QED
      BY <2>1, <2>2 DEF SendInv, writeVars
  <1>7. CASE WriteNothing
    <2>1. pc = "write" /\ pc' = pc /\ cuts' = cuts /\ Offered = <<>>
      BY <1>7 DEF WriteNothing
    <2>2. cuts > 1
      <3>1. SUFFICES ASSUME ~(cuts > 1) PROVE FALSE
        OBVIOUS
      <3>2. VecInv
        BY <1>1, <2>1, <3>1 DEF SendInv, SendTypeOK
      <3>3. Len(Offered) = bytes_unsent_ /\ bytes_unsent_ # 0
        BY <1>1, <3>2, OfferedIs DEF VecInv
      <3>4. QED
        BY <2>1, <3>3, EmptySeq
    <2>3. QED
      BY <1>1, <2>1, <2>2 DEF SendInv, SendTypeOK
  <1>8. ASSUME NEW n, WriteSome(n) PROVE SendInv'
    <2>1. pc = "write" /\ pc' = "write"
      BY <1>8 DEF WriteSome, Writev
    <2>2. cuts \in Nat /\ cuts' \in Nat /\ cuts <= cuts'
      <3>1. cuts \in Nat /\ cuts' \in {cuts, cuts + 1}
        BY <1>1, <1>8 DEF WriteSome, Writev, SendTypeOK
      <3>2. QED
        BY <3>1
    <2>3. ASSUME cuts' <= 1 PROVE VecInv'
      <3>1. cuts <= 1
        BY <2>2, <2>3
      <3>2. VecInv
        BY <2>1, <3>1 DEF SendInv
      <3>3. QED
        BY <1>1, <1>8, <2>3, <3>1, <3>2, VecSome
    <2>4. QED
      BY <2>1, <2>3 DEF SendInv
  <1>9. ASSUME NEW n, WriteLast(n) PROVE SendInv'
    BY <1>9 DEF SendInv, WriteLast, ResetCounters
  <1>10. CASE Accept
    BY <1>10 DEF SendInv, Accept, ResetCounters
  <1>11. CASE UNCHANGED vars
    <2>1. UNCHANGED writeVars /\ pc' = pc
      BY <1>11 DEF vars, parseVars
    <2>2. VecInv <=> VecInv'
      BY <2>1 DEF VecInv, writeVars, counters, iovecs
    <2>3. QED
      BY <2>1, <2>2 DEF SendInv, writeVars, counters
  <1>12. QED
    BY <1>2, <1>3, <1>4, <1>5, <1>6, <1>7, <1>8, <1>9, <1>10, <1>11 DEF Next, Process, Write, WriteProceeds

\* A sequence of the first bytes of the answer, and a longer one.
LEMMA PrefixIs ==
  ASSUME NEW s \in Seq(Byte), NEW t \in Seq(Byte), Len(s) <= Len(t),
         \A i \in 1 .. Len(s) : s[i] = t[i]
  PROVE  IsPrefix(s, t)
  <1>1. Len(s) \in Nat /\ Len(t) \in Nat
    BY LenProperties
  <1>2. \A i \in 1 .. Len(s) : s[i] \in Byte /\ t[i] \in Byte
    BY <1>1, ElementOfSeq
  <1>3. PICK u : u = SubSeq(s, 1, Len(s))
    OBVIOUS
  <1>4. PICK v : v = SubSeq(t, 1, Len(s))
    OBVIOUS
  <1>5. u \in Seq(Byte) /\ Len(u) = Len(s) /\ \A i \in 1 .. Len(s) : u[i] = s[1 + i - 1]
    BY <1>1, <1>2, <1>3, SubSeqProperties
  <1>6. v \in Seq(Byte) /\ Len(v) = Len(s) /\ \A i \in 1 .. Len(s) : v[i] = t[1 + i - 1]
    BY <1>1, <1>2, <1>4, SubSeqProperties
  <1>7. \A i \in 1 .. Len(s) : 1 + i - 1 = i
    BY <1>1
  <1>8. u = v
    BY <1>5, <1>6, <1>7, SeqEqual
  <1>9. QED
    BY <1>3, <1>4, <1>8 DEF IsPrefix

\* What writev took is a step towards the whole answer.
LEMMA TakenComes ==
  ASSUME SendTypeOK, VecInv, NEW n \in 1 .. bytes_unsent_, Writev(n), answer' = answer
  PROVE  Client!Comes /\ (n = bytes_unsent_ => received' = answer)
  <1>1. /\ received' \in Seq(Byte) /\ received \in Seq(Byte) /\ answer \in Seq(Byte)
        /\ Len(received') = bytes_sent_ + n /\ Len(received) = bytes_sent_
    BY Comes DEF SendTypeOK, VecInv
  <1>2. bytes_sent_ \in Nat /\ bytes_unsent_ \in Nat /\ n \in Nat /\ n # 0 /\ n <= bytes_unsent_
        /\ bytes_sent_ + bytes_unsent_ = Len(answer)
    BY DEF SendTypeOK, VecInv
  <1>3. \A i \in 1 .. Len(received') : received'[i] = answer[i]
    BY <1>1, Comes
  <1>4. \A i \in 1 .. Len(received) : received[i] = received'[i]
    BY <1>1, Comes
  <1>5. IsPrefix(received, received')
    <2>1. Len(received) <= Len(received')
      BY <1>1, <1>2
    <2>2. QED
      BY <1>1, <1>4, <2>1, PrefixIs
  <1>6. IsPrefix(received', answer)
    <2>1. Len(received') <= Len(answer)
      BY <1>1, <1>2
    <2>2. QED
      BY <1>1, <1>3, <2>1, PrefixIs
  <1>7. received' # received
    BY <1>1, <1>2
  <1>8. n = bytes_unsent_ => received' = answer
    <2>1. n = bytes_unsent_ => Len(received') = Len(answer)
      BY <1>1, <1>2
    <2>2. QED
      BY <1>1, <1>3, <2>1, SeqEqual
  <1>9. QED
    BY <1>5, <1>6, <1>7, <1>8 DEF Client!Comes, Client!IsPrefix, IsPrefix

LEMMA DeliverStep ==
  ASSUME TypeOK, PastCR, SendInv, [Next]_vars
  PROVE  [cuts' > 1 \/ Client!Next]_(Client!vars)
  <1>1. SendTypeOK /\ MappingTypeOK /\ ParseInv /\ cuts \in Nat
    BY DEF TypeOK, WriteTypeOK, SendTypeOK, ParseInv
  <1>2. CASE (Read \/ ProcessRead) /\ UNCHANGED writeVars
    <2>1. State = "reading" /\ State' \in {"reading", "closed"} /\ UNCHANGED <<answer, received>>
      BY <1>1, <1>2, Quiet DEF State
    <2>2. QED
      BY <2>1 DEF Client!Next, Client!Close, Client!vars
  <1>3. CASE NoFile \/ File
    BY <1>3 DEF NoFile, File, State, Client!vars
  <1>4. CASE ProcessWrite
    <2>1. bytes_sent_ = 0 /\ State = "reading" /\ State' = "sending" /\ received' = <<>>
      BY <1>4 DEF SendInv, ProcessWrite, State
    <2>2. Len(answer') \in Nat /\ write_idx_' \in Nat /\ write_idx_' # 0 /\ write_idx_' <= Len(answer')
      <3>1. VecInv' /\ SendTypeOK'
        BY <1>1, <1>4, <2>1, VecBegin, ProcessWriteType
      <3>2. Len(answer') \in Nat
        BY <3>1, LenProperties DEF SendTypeOK
      <3>3. write_idx_' \in Nat
        BY <3>1, HttpWriteAssumption DEF SendTypeOK
      <3>4. QED
        BY <3>1, <3>2, <3>3 DEF VecInv
    <2>3. answer' # <<>>
      BY <2>2, EmptySeq
    <2>4. QED
      BY <2>1, <2>3 DEF Client!Next, Client!Begin
  <1>5. CASE CbFunc \/ ProcessWriteFails \/ WriteFails
    <2>1. State # "closed" /\ State' = "closed" /\ UNCHANGED <<answer, received>>
      BY <1>5 DEF CbFunc, ProcessWriteFails, WriteFails, State, writeVars
    <2>2. QED
      BY <2>1 DEF Client!Next, Client!Close
  <1>6. CASE CallWrite \/ WriteBlocks \/ WriteNothing \/ UNCHANGED vars
    <2>1. UNCHANGED <<State, answer, received>>
      BY <1>6 DEF CallWrite, WriteBlocks, WriteNothing, State, writeVars, vars, parseVars
    <2>2. QED
      BY <2>1 DEF Client!vars
  <1>7. ASSUME NEW n, WriteSome(n) \/ WriteLast(n), ~(cuts' > 1)
        PROVE  Client!Next
    <2>1. n \in 1 .. bytes_unsent_ /\ Writev(n) /\ answer' = answer /\ pc = "write"
      BY <1>1, <1>7, WriteSomeType DEF WriteSome, WriteLast, Writev
    <2>2. cuts <= 1
      <3>1. cuts' \in {cuts, cuts + 1}
        BY <2>1 DEF Writev
      <3>2. QED
        BY <1>1, <1>7, <3>1
    <2>3. VecInv
      BY <2>1, <2>2 DEF SendInv
    <2>4. Client!Comes /\ (n = bytes_unsent_ => received' = answer) /\ State = "sending"
      BY <1>1, <2>1, <2>3, TakenComes DEF State
    <2>5. CASE WriteSome(n)
      <3>1. State' = "sending"
        BY <2>1, <2>5 DEF WriteSome, State
      <3>2. QED
        BY <2>1, <2>4, <3>1 DEF Client!Next, Client!Send
    <2>6. CASE WriteLast(n)
      <3>1. State' \in {"reading", "closed"} /\ n = bytes_unsent_
        BY <2>6 DEF WriteLast, State
      <3>2. QED
        BY <2>1, <2>4, <3>1 DEF Client!Next, Client!Complete
    <2>7. QED
      BY <1>7, <2>5, <2>6
  <1>8. CASE Accept
    <2>1. State = "closed" /\ State' = "reading" /\ UNCHANGED <<answer, received>>
      BY <1>8 DEF Accept, State
    <2>2. QED
      BY <2>1 DEF Client!Next, Client!Accept
  <1>9. QED
    BY <1>2, <1>3, <1>4, <1>5, <1>6, <1>7, <1>8 DEF Next, Process, Write, WriteProceeds

\* Whatever writev takes of what it is offered, the client gets each answer
\* from its first byte to its last, in order and each byte once, unless
\* writev stops within the headers twice: write computes the iovecs anew from
\* its counters after every part.
THEOREM AnswersInOrder == Spec => DeliversInOrder
  <1>1. Init => SendInv /\ Client!Init
    BY DEF Init, WriteInit, SendInv, State, Client!Init
  <1>2. TypeOK /\ PastCR /\ SendInv /\ [Next]_vars => SendInv'
    BY SendInvStep
  <1>3. TypeOK /\ PastCR /\ SendInv /\ [Next]_vars => [cuts' > 1 \/ Client!Next]_(Client!vars)
    BY DeliverStep
  <1>4. ConnInv => TypeOK /\ PastCR
    BY DEF ConnInv
  <1>5. QED
    BY <1>1, <1>2, <1>3, <1>4, ConnInit, ConnInvStep, PTL DEF Spec, DeliversInOrder

\* writev is always offered all that is left of the answer, which is something:
\* the loop of write cannot turn for ever over nothing (WriteNothing).  (Until
\* writev stops within the headers for the second time.)
THEOREM OffersAllThatIsLeft ==
  Spec => [](pc = "write" /\ cuts <= 1 => Len(Offered) = bytes_unsent_ /\ bytes_unsent_ # 0)
  <1>1. TypeOK /\ SendInv =>
          (pc = "write" /\ cuts <= 1 => Len(Offered) = bytes_unsent_ /\ bytes_unsent_ # 0)
    <2> SUFFICES ASSUME TypeOK, SendInv, pc = "write", cuts <= 1
                 PROVE  Len(Offered) = bytes_unsent_ /\ bytes_unsent_ # 0
      OBVIOUS
    <2>1. SendTypeOK /\ VecInv
      BY DEF TypeOK, WriteTypeOK, SendInv
    <2>2. QED
      BY <2>1, OfferedIs DEF VecInv
  <1>2. Init => SendInv
    BY DEF Init, WriteInit, SendInv
  <1>3. ConnInv => TypeOK /\ PastCR
    BY DEF ConnInv
  <1>4. TypeOK /\ PastCR /\ SendInv /\ [Next]_vars => SendInv'
    BY SendInvStep
  <1>5. QED
    BY <1>1, <1>2, <1>3, <1>4, ConnInit, ConnInvStep, PTL DEF Spec

-----------------------------------------------------------------------------
(* The files: what is mapped.                                              *)

\* The file of the current answer is mapped.
Fresh == /\ pc \in {"process_write", "out", "write"}
         /\ code = "FILE_REQUEST" /\ file_address_ \in Addresses

\* Besides it only what abandoned connections have left.
MapInv ==
    /\ IsFiniteSet(Mappings)
    /\ IF Fresh THEN /\ mapped[file_address_] = file_size
                     /\ Cardinality(Mappings \ {file_address_}) <= abandoned
                ELSE Cardinality(Mappings) <= abandoned

LEMMA Fewer ==
  ASSUME NEW S, IsFiniteSet(S), NEW T, T \subseteq S
  PROVE  /\ IsFiniteSet(T) /\ Cardinality(T) \in Nat /\ Cardinality(S) \in Nat
         /\ Cardinality(T) <= Cardinality(S)
  BY FS_Subset, FS_CardinalityType

\* One element makes a difference of at most one.
LEMMA LessOne ==
  ASSUME NEW S, IsFiniteSet(S), NEW x
  PROVE  /\ IsFiniteSet(S \ {x}) /\ Cardinality(S \ {x}) \in Nat /\ Cardinality(S) \in Nat
         /\ Cardinality(S) <= Cardinality(S \ {x}) + 1
  <1>1. IsFiniteSet(S \ {x}) /\ Cardinality(S \ {x}) \in Nat /\ Cardinality(S) \in Nat
    BY Fewer
  <1>2. CASE x \in S
    BY <1>1, <1>2, FS_RemoveElement
  <1>3. CASE x \notin S
    <2>1. S \ {x} = S
      BY <1>3
    <2>2. QED
      BY <1>1, <2>1
  <1>4. QED
    BY <1>2, <1>3

LEMMA MapInvStep ==
  ASSUME TypeOK, PastCR, MapInv, [Next]_vars
  PROVE  MapInv'
  <1>1. MappingTypeOK /\ ParseInv /\ abandoned \in Nat /\ IsFiniteSet(Mappings)
    BY DEF TypeOK, WriteTypeOK, ConnTypeOK, ParseInv, MapInv
  <1>2. Cardinality(Mappings) \in Nat
    BY <1>1, FS_CardinalityType
  <1>3. CASE /\ UNCHANGED mapping /\ abandoned' = abandoned
             /\ (Fresh <=> Fresh')
    <2>1. UNCHANGED <<file_address_, file_size, mapped>> /\ Mappings' = Mappings
      BY <1>3 DEF mapping, Mappings
    <2>2. QED
      BY <1>3, <2>1 DEF MapInv
  <1>4. CASE (Read \/ ProcessRead) /\ UNCHANGED <<writeVars, abandoned>>
    <2>1. ~Fresh /\ UNCHANGED mapping
      BY <1>1, <1>4, Quiet DEF Fresh, writeVars
    <2>2. ~Fresh'
      <3>1. CASE Read
        BY <3>1 DEF Read, ReadOnce, BufferFull, Fresh
      <3>2. CASE ProcessRead
        <4>1. pc' = "process_write" => code' = "BAD_REQUEST"
          BY <3>2 DEF ProcessRead, NoRequest, RequestLine, BadRequestLine, Header, EmptyLine, Content, Line
        <4>2. QED
          BY <1>1, <3>2, <4>1, ParseStep DEF Fresh
      <3>3. QED
        BY <1>4, <3>1, <3>2
    <2>3. QED
      BY <1>3, <1>4, <2>1, <2>2
  <1>5. CASE NoFile /\ abandoned' = abandoned
    <2>1. ~Fresh /\ ~Fresh' /\ mapped' = mapped
      BY <1>5 DEF NoFile, Fresh
    <2>2. Mappings' = Mappings
      BY <2>1 DEF Mappings
    <2>3. QED
      BY <1>5, <2>1, <2>2 DEF MapInv
  <1>6. CASE File /\ abandoned' = abandoned
    <2>1. ~Fresh /\ Cardinality(Mappings) <= abandoned
      BY <1>6 DEF File, Fresh, MapInv
    <2>2. pc' = "process_write" /\ code' = "FILE_REQUEST"
      BY <1>6 DEF File
    <2>3. CASE file_address_' \notin Addresses
      <3>1. mapped' = mapped /\ ~Fresh'
        BY <1>1, <1>6, <2>3, FileIs DEF Fresh
      <3>2. Mappings' = Mappings
        BY <3>1 DEF Mappings
      <3>3. QED
        BY <1>6, <2>1, <3>1, <3>2 DEF MapInv
    <2>4. CASE file_address_' \in Addresses
      <3>1. /\ mapped[file_address_'] = 0 /\ mapped'[file_address_'] = file_size'
            /\ \A a \in Addresses : a # file_address_' => mapped'[a] = mapped[a]
        BY <1>1, <1>6, <2>4, FileIs
      <3>2. Mappings' \ {file_address_'} = Mappings /\ Mappings' \subseteq Mappings \cup {file_address_'}
        BY <3>1 DEF Mappings
      <3>3. IsFiniteSet(Mappings')
        <4>1. IsFiniteSet(Mappings \cup {file_address_'})
          BY <1>1, FS_AddElement
        <4>2. QED
          BY <3>2, <4>1, FS_Subset
      <3>4. Fresh'
        BY <2>2, <2>4 DEF Fresh
      <3>5. QED
        BY <1>6, <2>1, <3>1, <3>2, <3>3, <3>4 DEF MapInv
    <2>5. QED
      BY <2>3, <2>4
  <1>7. CASE ProcessWriteFails /\ abandoned' = abandoned
    BY <1>3, <1>7 DEF ProcessWriteFails, Fresh, writeVars
  <1>8. CASE (ProcessWrite \/ CallWrite \/ WriteBlocks \/ WriteNothing) /\ abandoned' = abandoned
    <2>1. UNCHANGED <<mapping, code>> /\ pc \in {"process_write", "out", "write"}
          /\ pc' \in {"process_write", "out", "write"}
      BY <1>8 DEF ProcessWrite, CallWrite, WriteBlocks, WriteNothing, writeVars
    <2>2. QED
      BY <1>3, <1>8, <2>1 DEF Fresh, mapping
  <1>9. ASSUME NEW n, WriteSome(n), abandoned' = abandoned PROVE MapInv'
    BY <1>3, <1>9 DEF WriteSome, Writev, Fresh, mapping
  <1>10. CASE Unmap /\ pc = "write" /\ pc' \in {"in", "closed"} /\ UNCHANGED <<code, abandoned>>
    <2>1. ~Fresh' /\ Mappings' \subseteq Mappings
      BY <1>1, <1>10, UnmapIs DEF Fresh, Mappings
    <2>2. CASE Fresh
      <3>1. mapped'[file_address_] = 0
        BY <1>1, <1>10, <2>2, UnmapIs DEF Fresh, MapInv
      <3>2. Mappings' \subseteq Mappings \ {file_address_}
        BY <2>1, <3>1 DEF Mappings
      <3>3. IsFiniteSet(Mappings \ {file_address_})
        BY <1>1, LessOne
      <3>4. /\ IsFiniteSet(Mappings') /\ Cardinality(Mappings') \in Nat
            /\ Cardinality(Mappings \ {file_address_}) \in Nat
            /\ Cardinality(Mappings') <= Cardinality(Mappings \ {file_address_})
        BY <3>2, <3>3, Fewer
      <3>5. QED
        BY <1>1, <1>10, <2>1, <2>2, <3>4 DEF MapInv
    <2>3. CASE ~Fresh
      <3>1. IsFiniteSet(Mappings') /\ Cardinality(Mappings') \in Nat
            /\ Cardinality(Mappings') <= Cardinality(Mappings)
        BY <1>1, <2>1, Fewer
      <3>2. QED
        BY <1>1, <1>2, <1>10, <2>1, <2>3, <3>1 DEF MapInv
    <2>4. QED
      BY <2>2, <2>3
  <1>11. CASE CbFunc
    <2>1. UNCHANGED mapping /\ ~Fresh' /\ pc \in {"in", "out"}
      BY <1>11 DEF CbFunc, Fresh, writeVars
    <2>2. Mappings' = Mappings
      BY <2>1 DEF mapping, Mappings
    <2>3. Fresh => abandoned' = abandoned + 1
      BY <1>11 DEF CbFunc, Fresh
    <2>4. abandoned' \in {abandoned, abandoned + 1}
      BY <1>11 DEF CbFunc
    <2>5. Cardinality(Mappings) <= Cardinality(Mappings \ {file_address_}) + 1
          /\ Cardinality(Mappings \ {file_address_}) \in Nat
      BY <1>1, LessOne
    <2>6. Cardinality(Mappings) <= abandoned'
      <3>1. CASE Fresh
        BY <1>1, <1>2, <2>3, <2>5, <3>1 DEF MapInv
      <3>2. CASE ~Fresh
        BY <1>1, <1>2, <2>4, <3>2 DEF MapInv
      <3>3. QED
        BY <3>1, <3>2
    <2>7. QED
      BY <1>1, <2>1, <2>2, <2>6 DEF MapInv
  <1>12. CASE Accept
    BY <1>3, <1>12 DEF Accept, Fresh
  <1>13. CASE UNCHANGED vars
    BY <1>3, <1>13 DEF vars, parseVars, writeVars, mapping, Fresh
  <1>14. ASSUME NEW n, WriteLast(n), abandoned' = abandoned PROVE MapInv'
    BY <1>10, <1>14 DEF WriteLast, Writev
  <1>15. CASE WriteFails /\ abandoned' = abandoned
    BY <1>10, <1>15 DEF WriteFails
  <1>16. QED
    BY <1>4, <1>5, <1>6, <1>7, <1>8, <1>9, <1>11, <1>12, <1>13, <1>14, <1>15 DEF Next, Process, Write, WriteProceeds

\* A file that do_request maps is unmapped when its answer is sent or fails,
\* with the size it was mapped with; only connections that cb_func closed in
\* between leave one behind, and each of them at most one.
THEOREM MappingsKept == Spec => []MappingsAccounted
  <1>1. Init => MapInv
    <2> SUFFICES ASSUME Init PROVE MapInv
      OBVIOUS
    <2>2. Mappings = {} /\ ~Fresh /\ abandoned = 0
      BY DEF Init, WriteInit, Mappings, Fresh
    <2>3. QED
      BY <2>2, FS_EmptySet DEF MapInv
  <1>2. ConnInv /\ MapInv /\ [Next]_vars => MapInv'
    BY MapInvStep DEF ConnInv
  <1>3. ConnInv /\ MapInv => MappingsAccounted
    <2> SUFFICES ASSUME ConnInv, MapInv PROVE MappingsAccounted
      OBVIOUS
    <2>2. abandoned \in Nat /\ IsFiniteSet(Mappings)
      BY DEF ConnInv, TypeOK, ConnTypeOK, MapInv
    <2>3. /\ Cardinality(Mappings) \in Nat /\ Cardinality(Mappings \ {file_address_}) \in Nat
          /\ IsFiniteSet(Mappings \ {file_address_})
          /\ Cardinality(Mappings) <= Cardinality(Mappings \ {file_address_}) + 1
      BY <2>2, LessOne
    <2>4. CASE Fresh
      <3>1. Cardinality(Mappings) <= abandoned + 1
        BY <2>2, <2>3, <2>4 DEF MapInv
      <3>2. ASSUME abandoned = 0, Mappings # {} PROVE Mappings = {file_address_}
        <4>1. Cardinality(Mappings \ {file_address_}) = 0
          BY <2>3, <2>4, <3>2 DEF MapInv
        <4>2. Mappings \ {file_address_} = {}
          BY <2>3, <4>1, FS_EmptySet
        <4>3. QED
          BY <3>2, <4>2
      <3>3. QED
        BY <2>4, <3>1, <3>2 DEF Fresh, MapInv, MappingsAccounted
    <2>5. CASE ~Fresh
      <3>1. Cardinality(Mappings) <= abandoned
        BY <2>5 DEF MapInv
      <3>2. abandoned = 0 => Mappings = {}
        BY <2>2, <2>3, <3>1, FS_EmptySet
      <3>3. QED
        BY <2>2, <2>3, <3>1, <3>2 DEF MappingsAccounted
    <2>6. QED
      BY <2>4, <2>5
  <1>4. QED
    BY <1>1, <1>2, <1>3, ConnInit, ConnInvStep, PTL DEF Spec

-----------------------------------------------------------------------------
(* The parser: what it says of a request.  First what the reference in     *)
(* HttpParse says of any bytes r, of which the first n are a request line  *)
(* and headers.                                                            *)

\* The first n bytes are a correct request line and headers that are not
\* empty, each with its line end.
LinesTo(r, n) ==
    /\ n \in 3 .. Len(r)
    /\ r[1] \in {"GET", "POST"} /\ r[2] = CR /\ r[3] = LF
    /\ r[n - 1] = CR /\ r[n] = LF
    /\ \A i \in 1 .. n : r[i] = CR => i < n /\ r[i + 1] = LF
    /\ \A i \in 1 .. n : r[i] = LF => i > 1 /\ r[i - 1] = CR
    /\ \A i \in 1 .. n - 3 : r[i] = CR => r[i + 2] # CR

\* Headers, Declared and KeepAlive, for the headers that begin up to n.
HeadersTo(r, n)   == {i \in 2 .. n : r[i - 1] = LF}
DeclaredTo(r, n)  ==
    LET lengths == {i \in HeadersTo(r, n) : r[i] \in DOMAIN Length}
    IN IF lengths = {} THEN 0 ELSE Length[r[Max(lengths)]]
KeepAliveTo(r, n) == \E i \in HeadersTo(r, n) : r[i] = "keep-alive" /\ r[i + 1] = CR

LEMMA MinIs ==
  ASSUME NEW S \in SUBSET Nat, NEW m \in S, \A y \in S : m <= y
  PROVE  Min(S) = m
  <1>1. Min(S) \in S /\ \A y \in S : Min(S) <= y
    BY LeastOf
  <1>2. PICK k \in Nat : k = Min(S) /\ k <= m /\ m <= k
    BY <1>1
  <1>3. QED
    BY <1>2

LEMMA MaxIs ==
  ASSUME NEW S \in SUBSET Nat, NEW m \in S, \A y \in S : y <= m
  PROVE  Max(S) = m
  <1>1. Max(S) \in S /\ \A y \in S : Max(S) >= y
    <2>1. \A y \in S : m >= y
      OBVIOUS
    <2>2. QED
      BY <2>1, Zenon DEF Max
  <1>2. PICK k \in Nat : k = Max(S) /\ k <= m /\ m <= k
    BY <1>1
  <1>3. QED
    BY <1>2

\* A set of natural numbers that has an upper bound has a greatest element.
LEMMA GreatestOf ==
  ASSUME NEW S \in SUBSET Nat, S # {}, NEW n \in Nat, \A y \in S : y <= n
  PROVE  Max(S) \in S /\ \A y \in S : y <= Max(S)
  <1> DEFINE B == {k \in Nat : \A y \in S : y <= k}
  <1>1. PICK m \in B : \A k \in B : m <= k
    <2>1. B \in SUBSET Nat /\ n \in B
      OBVIOUS
    <2> HIDE DEF B
    <2>2. QED
      BY <2>1, LeastOf
  <1>2. m \in S
    <2>1. SUFFICES ASSUME m \notin S PROVE FALSE
      OBVIOUS
    <2>2. m \in Nat /\ \A y \in S : y \in Nat /\ y <= m /\ y # m
      BY <1>1, <2>1
    <2>3. \A y \in S : y <= m - 1
      BY <2>2
    <2>4. m - 1 \in B
      <3>1. PICK y \in S : y \in Nat /\ y <= m /\ y # m
        BY <2>2
      <3>2. QED
        BY <2>2, <2>3, <3>1
    <2>5. QED
      BY <1>1, <2>2, <2>4
  <1>3. QED
    BY <1>1, <1>2, MaxIs

\* After a correct request line, only the headers and the body matter.
LEMMA VerdictOfLines ==
  ASSUME NEW r \in Seq(Word), NEW n, LinesTo(r, n)
  PROVE  Verdict(r) = IF Broken(r, Min(EmptyLines(r) \cup {Len(r)})) THEN "broken"
                      ELSE IF EmptyLines(r) = {} \/ Len(r) < HeadEnd(r) + 3 + Declared(r)
                           THEN "incomplete" ELSE "request"
  <1>1. Len(r) \in Nat /\ Len(r) >= 3 /\ r[1] \in {"GET", "POST"} /\ r[2] = CR /\ r[3] = LF
    BY LenProperties DEF LinesTo
  <1>2. 2 \in Ends(r) /\ 1 \notin Ends(r) /\ Ends(r) \in SUBSET (1 .. Len(r) - 1)
    BY <1>1 DEF Ends, CR, LF
  <1>3. Min(Ends(r)) = 2
    <2>1. \A y \in Ends(r) : 2 <= y
      BY <1>1, <1>2
    <2>2. Ends(r) \in SUBSET Nat
      BY <1>1, <1>2
    <2>3. QED
      BY <1>2, <2>1, <2>2, MinIs
  <1>4. Min(Ends(r) \cup {Len(r)}) = 2
    <2>1. \A y \in Ends(r) \cup {Len(r)} : 2 <= y
      BY <1>1, <1>2
    <2>2. Ends(r) \cup {Len(r)} \in SUBSET Nat
      BY <1>1, <1>2
    <2>3. QED
      BY <1>2, <2>1, <2>2, MinIs
  <1>5. ~Broken(r, 2)
    <2>1. SUFFICES ASSUME NEW i \in 1 .. 2,
                          \/ r[i] = CR /\ i \notin Ends(r) /\ i < Len(r)
                          \/ r[i] = LF /\ i - 1 \notin Ends(r)
                   PROVE  FALSE
      BY DEF Broken
    <2>2. i = 1 \/ i = 2
      OBVIOUS
    <2>3. QED
      BY <1>1, <1>2, <2>1, <2>2 DEF CR, LF
  <1>6. SubSeq(r, 1, Min(Ends(r)) - 1) \in {<<"GET">>, <<"POST">>}
    <2>1. PICK t : t = SubSeq(r, 1, 1)
      OBVIOUS
    <2>2. Len(t) = 1 /\ t[1] = r[1] /\ t \in Seq(Word)
      <3>1. \A i \in 1 .. 1 : r[i] \in Word
        BY <1>1, ElementOfSeq
      <3>2. QED
        BY <2>1, <3>1, SubSeqProperties
    <2>3. t = <<r[1]>>
      BY <2>2
    <2>4. t \in {<<"GET">>, <<"POST">>}
      BY <1>1, <2>3
    <2>5. Min(Ends(r)) - 1 = 1
      BY <1>3
    <2>6. QED
      BY <2>1, <2>4, <2>5, Zenon
  <1>7. QED
    BY <1>2, <1>3, <1>4, <1>5, <1>6 DEF Verdict

\* There is no empty line among the first n bytes.
LEMMA NoEmptyYet ==
  ASSUME NEW r \in Seq(Word), NEW n, LinesTo(r, n), NEW i \in EmptyLines(r)
  PROVE  i >= n - 1
  <1>1. /\ n \in Nat /\ Len(r) \in Nat /\ i \in 1 .. Len(r) - 1
        /\ r[i] = CR /\ r[i + 1] = LF /\ r[i + 2] = CR
    BY LenProperties DEF LinesTo, EmptyLines, Ends
  <1>2. CASE i <= n - 3
    BY <1>1, <1>2 DEF LinesTo
  <1>3. CASE i = n - 2
    <2>1. i + 1 = n - 1
      BY <1>1, <1>3
    <2>2. QED
      BY <1>1, <2>1 DEF LinesTo, CR, LF
  <1>4. QED
    BY <1>1, <1>2, <1>3

\* The empty line comes next.
LEMMA EmptyNext ==
  ASSUME NEW r \in Seq(Word), NEW n, LinesTo(r, n), n + 2 <= Len(r), r[n + 1] = CR, r[n + 2] = LF
  PROVE  /\ HeadEnd(r) = n - 1
         /\ Declared(r) = DeclaredTo(r, n - 1) /\ KeepAlive(r) = KeepAliveTo(r, n - 1)
         /\ Verdict(r) = IF Len(r) < n + 2 + Declared(r) THEN "incomplete" ELSE "request"
  <1>1. n \in Nat /\ n >= 3 /\ Len(r) \in Nat /\ r[n - 1] = CR /\ r[n] = LF
    BY LenProperties DEF LinesTo
  <1>2. n - 1 \in EmptyLines(r)
    <2>1. n - 1 \in Ends(r) /\ n + 1 \in Ends(r) /\ (n - 1) + 2 = n + 1
      BY <1>1 DEF Ends
    <2>2. QED
      BY <2>1 DEF EmptyLines
  <1>3. EmptyLines(r) \in SUBSET (1 .. Len(r) - 1) /\ \A i \in EmptyLines(r) : n - 1 <= i
    BY <1>1, NoEmptyYet DEF EmptyLines, Ends
  <1>4. HeadEnd(r) = n - 1
    <2>1. EmptyLines(r) \in SUBSET Nat
      BY <1>1, <1>3
    <2>2. QED
      BY <1>2, <1>3, <2>1, MinIs DEF HeadEnd
  <1>5. Min(EmptyLines(r) \cup {Len(r)}) = n - 1
    <2>1. EmptyLines(r) \cup {Len(r)} \in SUBSET Nat /\ \A i \in EmptyLines(r) \cup {Len(r)} : n - 1 <= i
      BY <1>1, <1>3
    <2>2. QED
      BY <1>2, <2>1, MinIs
  <1>6. ~Broken(r, n - 1)
    <2>1. SUFFICES ASSUME NEW i \in 1 .. n - 1,
                          \/ r[i] = CR /\ i \notin Ends(r) /\ i < Len(r)
                          \/ r[i] = LF /\ i - 1 \notin Ends(r)
                   PROVE  FALSE
      BY DEF Broken
    <2>2. i \in 1 .. n
      BY <1>1
    <2>3. CASE r[i] = CR
      <3>1. r[i + 1] = LF /\ i \in 1 .. Len(r) - 1
        BY <1>1, <2>2, <2>3 DEF LinesTo
      <3>2. QED
        BY <2>1, <2>3, <3>1 DEF Ends, CR, LF
    <2>4. CASE r[i] = LF
      <3>1. r[i - 1] = CR /\ i - 1 \in 1 .. Len(r) - 1 /\ (i - 1) + 1 = i
        BY <1>1, <2>2, <2>4 DEF LinesTo
      <3>2. QED
        BY <2>1, <2>4, <3>1 DEF Ends, CR, LF
    <2>5. QED
      BY <2>1, <2>3, <2>4
  <1>7. Headers(r) = HeadersTo(r, n - 1)
    BY <1>4 DEF Headers, HeadersTo
  <1>8. Declared(r) = DeclaredTo(r, n - 1) /\ KeepAlive(r) = KeepAliveTo(r, n - 1)
    BY <1>7 DEF Declared, DeclaredTo, KeepAlive, KeepAliveTo
  <1>9. Verdict(r) = IF Len(r) < (n - 1) + 3 + Declared(r) THEN "incomplete" ELSE "request"
    BY <1>2, <1>4, <1>5, <1>6, VerdictOfLines
  <1>10. (n - 1) + 3 = n + 2
    BY <1>1
  <1>11. QED
    BY <1>4, <1>8, <1>9, <1>10

\* The next line end, at b, ends one more header.
LEMMA LinesGrow ==
  ASSUME NEW r \in Seq(Word), NEW n, LinesTo(r, n),
         NEW b \in n + 2 .. Len(r) - 1, r[b] = CR, r[b + 1] = LF,
         \A i \in n + 1 .. b - 1 : r[i] \notin {CR, LF}
  PROVE  /\ LinesTo(r, b + 1)
         /\ DeclaredTo(r, b) = IF r[n + 1] \in DOMAIN Length THEN Length[r[n + 1]]
                                                             ELSE DeclaredTo(r, n - 1)
         /\ KeepAliveTo(r, b) <=> KeepAliveTo(r, n - 1) \/ (r[n + 1] = "keep-alive" /\ r[n + 2] = CR)
  <1>1. /\ n \in Nat /\ n >= 3 /\ n < Len(r) /\ Len(r) \in Nat /\ b \in Nat
        /\ r[n - 1] = CR /\ r[n] = LF
    BY LenProperties DEF LinesTo
  <1>2. LinesTo(r, b + 1)
    <2>1. \A i \in 1 .. b + 1 : i \in 1 .. n \/ i \in n + 1 .. b - 1 \/ i = b \/ i = b + 1
      BY <1>1
    <2>2. ASSUME NEW i \in 1 .. b + 1, r[i] = CR PROVE i < b + 1 /\ r[i + 1] = LF
      <3>1. CASE i \in 1 .. n
        BY <1>1, <2>2, <3>1 DEF LinesTo
      <3>2. CASE i = b
        BY <1>1, <3>2
      <3>3. QED
        BY <2>1, <2>2, <3>1, <3>2 DEF CR, LF
    <2>3. ASSUME NEW i \in 1 .. b + 1, r[i] = LF PROVE i > 1 /\ r[i - 1] = CR
      <3>1. CASE i \in 1 .. n
        BY <2>3, <3>1 DEF LinesTo
      <3>2. CASE i = b + 1
        BY <1>1, <3>2
      <3>3. QED
        BY <2>1, <2>3, <3>1, <3>2 DEF CR, LF
    <2>4. ASSUME NEW i \in 1 .. b - 2, r[i] = CR PROVE r[i + 2] # CR
      <3>1. CASE i \in 1 .. n - 3
        BY <2>4, <3>1 DEF LinesTo
      <3>2. CASE i = n - 2
        <4>1. r[i + 1] = LF /\ i + 1 = n - 1
          BY <1>1, <2>4, <3>2 DEF LinesTo
        <4>2. QED
          BY <1>1, <4>1 DEF CR, LF
      <3>3. CASE i = n - 1
        <4>1. i + 2 = n + 1 /\ n + 1 \in n + 1 .. b - 1
          BY <1>1, <3>3
        <4>2. QED
          BY <4>1
      <3>4. CASE i = n
        BY <1>1, <2>4, <3>4 DEF CR, LF
      <3>5. i \in 1 .. n - 3 \/ i = n - 2 \/ i = n - 1 \/ i = n \/ i \in n + 1 .. b - 1
        BY <1>1
      <3>6. QED
        BY <2>4, <3>1, <3>2, <3>3, <3>4, <3>5
    <2>5. b + 1 \in 3 .. Len(r) /\ (b + 1) - 1 = b /\ (b + 1) - 3 = b - 2
      BY <1>1
    <2>6. r[1] \in {"GET", "POST"} /\ r[2] = CR /\ r[3] = LF
      BY DEF LinesTo
    <2>7. QED
      BY <2>2, <2>3, <2>4, <2>5, <2>6 DEF LinesTo
  <1>3. HeadersTo(r, b) = HeadersTo(r, n - 1) \cup {n + 1}
    <2>1. ASSUME NEW i \in 2 .. b, r[i - 1] = LF PROVE i \in 2 .. n - 1 \/ i = n + 1
      <3>1. CASE i = n
        BY <1>1, <2>1, <3>1 DEF CR, LF
      <3>2. CASE i > n + 1
        <4>1. i - 1 \in n + 1 .. b - 1
          BY <1>1, <3>2
        <4>2. QED
          BY <2>1, <4>1
      <3>3. QED
        BY <1>1, <3>1, <3>2
    <2>2. n + 1 \in 2 .. b /\ (n + 1) - 1 = n /\ \A i \in 2 .. n - 1 : i \in 2 .. b
      BY <1>1
    <2>3. QED
      BY <1>1, <2>1, <2>2 DEF HeadersTo
  <1>4. DeclaredTo(r, b) = IF r[n + 1] \in DOMAIN Length THEN Length[r[n + 1]]
                                                         ELSE DeclaredTo(r, n - 1)
    <2> DEFINE Lengths(m) == {i \in HeadersTo(r, m) : r[i] \in DOMAIN Length}
    <2>1. CASE r[n + 1] \in DOMAIN Length
      <3>1. Lengths(b) \in SUBSET Nat /\ n + 1 \in Lengths(b) /\ \A i \in Lengths(b) : i <= n + 1
        <4>1. \A i \in HeadersTo(r, n - 1) : i \in Nat /\ i <= n + 1
          BY <1>1 DEF HeadersTo
        <4>2. QED
          BY <1>1, <1>3, <2>1, <4>1
      <3>2. Max(Lengths(b)) = n + 1
        BY <3>1, MaxIs
      <3>3. QED
        BY <2>1, <3>1, <3>2 DEF DeclaredTo
    <2>2. CASE r[n + 1] \notin DOMAIN Length
      <3>1. Lengths(b) = Lengths(n - 1)
        BY <1>3, <2>2
      <3>2. QED
        BY <2>2, <3>1 DEF DeclaredTo
    <2>3. QED
      BY <2>1, <2>2
  <1>5. KeepAliveTo(r, b) <=> KeepAliveTo(r, n - 1) \/ (r[n + 1] = "keep-alive" /\ r[n + 2] = CR)
    <2>1. (n + 1) + 1 = n + 2
      BY <1>1
    <2>2. QED
      BY <1>3, <2>1 DEF KeepAliveTo
  <1>6. QED
    BY <1>2, <1>4, <1>5

\* At b there is no line end, or a wrong one, or none yet.
NoLineAt(r, b) ==
    /\ b \in 1 .. Len(r) + 1
    /\ b <= Len(r) => r[b] \in {CR, LF} /\ ~(r[b] = CR /\ b < Len(r) /\ r[b + 1] = LF)

\* Bytes with no correct line end before anything else are not a request.
LEMMA NoFirstLine ==
  ASSUME NEW r \in Seq(Word), NEW b, NoLineAt(r, b), \A i \in 1 .. b - 1 : r[i] \notin {CR, LF}
  PROVE  Verdict(r) \in {"broken", "incomplete"}
  <1>1. Len(r) \in Nat /\ b \in Nat /\ b >= 1 /\ b <= Len(r) + 1
    BY LenProperties DEF NoLineAt
  <1>2. \A i \in Ends(r) : i \in 1 .. Len(r) - 1 /\ i > b
    <2>1. SUFFICES ASSUME NEW i \in 1 .. Len(r) - 1, r[i] = CR, r[i + 1] = LF PROVE i > b
      BY DEF Ends
    <2>2. CASE i = b
      BY <1>1, <2>1, <2>2 DEF NoLineAt
    <2>3. CASE i < b
      BY <1>1, <2>1, <2>3
    <2>4. QED
      BY <1>1, <2>2, <2>3
  <1>3. CASE Ends(r) = {}
    BY <1>3 DEF Verdict
  <1>4. CASE Ends(r) # {}
    <2>1. Ends(r) \cup {Len(r)} \in SUBSET Nat
      BY <1>1, <1>2
    <2>2. PICK m \in Ends(r) \cup {Len(r)} : m = Min(Ends(r) \cup {Len(r)})
      BY <2>1, LeastOf
    <2>3. b < Len(r) /\ m \in Nat /\ b <= m
      BY <1>1, <1>2, <1>4, <2>2
    <2>4. b \in 1 .. m /\ b \notin Ends(r) /\ b - 1 \notin Ends(r) /\ r[b] \in {CR, LF}
      BY <1>1, <1>2, <2>3 DEF NoLineAt
    <2>5. Broken(r, m)
      BY <2>3, <2>4 DEF Broken
    <2>6. QED
      BY <2>2, <2>5 DEF Verdict
  <1>5. QED
    BY <1>3, <1>4

\* The same behind some lines.
LEMMA NoNextLine ==
  ASSUME NEW r \in Seq(Word), NEW n, LinesTo(r, n), NEW b, NoLineAt(r, b), b > n,
         \A i \in n + 1 .. b - 1 : r[i] \notin {CR, LF}
  PROVE  Verdict(r) \in {"broken", "incomplete"}
  <1>1. /\ Len(r) \in Nat /\ b \in Nat /\ b <= Len(r) + 1 /\ n \in Nat /\ n >= 3 /\ n <= Len(r)
        /\ r[n - 1] = CR /\ r[n] = LF
    BY LenProperties DEF NoLineAt, LinesTo
  <1>2. CASE EmptyLines(r) = {}
    BY <1>2, VerdictOfLines
  <1>3. CASE EmptyLines(r) # {}
    <2>1. \A i \in EmptyLines(r) : /\ i \in 1 .. Len(r) - 1 /\ i + 2 \in 1 .. Len(r) - 1 /\ i >= n - 1
                                   /\ r[i] = CR /\ r[i + 1] = LF /\ r[i + 2] = CR /\ r[i + 3] = LF
      <3>1. ASSUME NEW i \in EmptyLines(r)
            PROVE  /\ i \in 1 .. Len(r) - 1 /\ i + 2 \in 1 .. Len(r) - 1 /\ i >= n - 1
                   /\ r[i] = CR /\ r[i + 1] = LF /\ r[i + 2] = CR /\ r[i + 3] = LF
        <4>1. i \in Nat /\ (i + 2) + 1 = i + 3
          BY <1>1 DEF EmptyLines, Ends
        <4>2. QED
          BY <4>1, NoEmptyYet DEF EmptyLines, Ends
      <3>2. QED
        BY <3>1
    <2>2. \A i \in EmptyLines(r) : b <= i
      <3>1. SUFFICES ASSUME NEW i \in EmptyLines(r), i < b PROVE FALSE
        BY <1>1, <2>1
      <3>2. CASE i = n - 1
        <4>1. r[n + 1] = CR /\ r[n + 2] = LF /\ n + 2 <= Len(r)
          BY <1>1, <2>1, <3>2
        <4>2. CASE b = n + 1
          BY <1>1, <4>1, <4>2 DEF NoLineAt
        <4>3. CASE b > n + 1
          BY <1>1, <4>1, <4>3
        <4>4. QED
          BY <1>1, <4>2, <4>3
      <3>3. CASE i = n
        BY <1>1, <2>1, <3>3 DEF CR, LF
      <3>4. CASE i > n
        BY <1>1, <2>1, <3>1, <3>4
      <3>5. QED
        BY <1>1, <2>1, <3>2, <3>3, <3>4
    <2>3. EmptyLines(r) \cup {Len(r)} \in SUBSET Nat
      BY <1>1, <2>1
    <2>4. PICK m \in EmptyLines(r) \cup {Len(r)} : m = Min(EmptyLines(r) \cup {Len(r)})
      BY <2>3, LeastOf
    <2>5. b < Len(r) /\ m \in Nat /\ b <= m
      BY <1>1, <1>3, <2>1, <2>2, <2>4
    <2>6. b \notin Ends(r) /\ r[b] \in {CR, LF}
      BY <1>1, <2>5 DEF NoLineAt, Ends
    <2>7. b - 1 \notin Ends(r)
      <3>1. CASE b - 1 = n
        BY <1>1, <3>1 DEF Ends, CR, LF
      <3>2. CASE b - 1 # n
        <4>1. b - 1 \in n + 1 .. b - 1
          BY <1>1, <3>2
        <4>2. QED
          BY <4>1 DEF Ends
      <3>3. QED
        BY <3>1, <3>2
    <2>8. Broken(r, m)
      BY <1>1, <2>5, <2>6, <2>7 DEF Broken
    <2>9. QED
      BY <2>4, <2>8, VerdictOfLines
  <1>4. QED
    BY <1>2, <1>3

\* Bytes that follow change nothing.
LEMMA LinesStay ==
  ASSUME NEW r \in Seq(Word), NEW q \in Seq(Word), NEW n, LinesTo(r, n),
         Len(r) <= Len(q), \A i \in 1 .. Len(r) : q[i] = r[i]
  PROVE  /\ LinesTo(q, n)
         /\ DeclaredTo(q, n - 1) = DeclaredTo(r, n - 1)
         /\ KeepAliveTo(q, n - 1) <=> KeepAliveTo(r, n - 1)
  <1>1. n \in Nat /\ n >= 3 /\ n <= Len(r) /\ Len(r) \in Nat /\ Len(q) \in Nat
    BY LenProperties DEF LinesTo
  <1>2. \A i \in 1 .. n : q[i] = r[i]
    BY <1>1
  <1>3. LinesTo(q, n)
    <2>1. n \in 3 .. Len(q) /\ 1 \in 1 .. n /\ 2 \in 1 .. n /\ 3 \in 1 .. n /\ n - 1 \in 1 .. n /\ n \in 1 .. n
      BY <1>1
    <2>2. ASSUME NEW i \in 1 .. n, q[i] = CR PROVE i < n /\ q[i + 1] = LF
      <3>1. i < n /\ r[i + 1] = LF
        BY <1>2, <2>2 DEF LinesTo
      <3>2. i + 1 \in 1 .. n
        BY <1>1, <3>1
      <3>3. QED
        BY <1>2, <3>1, <3>2
    <2>3. ASSUME NEW i \in 1 .. n, q[i] = LF PROVE i > 1 /\ q[i - 1] = CR
      <3>1. i > 1 /\ r[i - 1] = CR
        BY <1>2, <2>3 DEF LinesTo
      <3>2. i - 1 \in 1 .. n
        BY <1>1, <3>1
      <3>3. QED
        BY <1>2, <3>1, <3>2
    <2>4. ASSUME NEW i \in 1 .. n - 3, q[i] = CR PROVE q[i + 2] # CR
      <3>1. i \in 1 .. n /\ i + 2 \in 1 .. n
        BY <1>1
      <3>2. r[i + 2] # CR
        BY <1>2, <2>4, <3>1 DEF LinesTo
      <3>3. QED
        BY <1>2, <3>1, <3>2
    <2>5. q[1] \in {"GET", "POST"} /\ q[2] = CR /\ q[3] = LF /\ q[n - 1] = CR /\ q[n] = LF
      BY <1>2, <2>1 DEF LinesTo
    <2>6. QED
      BY <2>1, <2>2, <2>3, <2>4, <2>5 DEF LinesTo
  <1>4. HeadersTo(q, n - 1) = HeadersTo(r, n - 1)
        /\ \A i \in HeadersTo(r, n - 1) : q[i] = r[i] /\ q[i + 1] = r[i + 1] /\ i \in Nat
    <2>1. \A i \in 2 .. n - 1 : i - 1 \in 1 .. n /\ i \in 1 .. n /\ i + 1 \in 1 .. n /\ i \in Nat
      BY <1>1
    <2>2. QED
      BY <1>2, <2>1 DEF HeadersTo
  <1>5. KeepAliveTo(q, n - 1) <=> KeepAliveTo(r, n - 1)
    BY <1>4 DEF KeepAliveTo
  <1>6. DeclaredTo(q, n - 1) = DeclaredTo(r, n - 1)
    <2> DEFINE L == {i \in HeadersTo(r, n - 1) : r[i] \in DOMAIN Length}
    <2>1. {i \in HeadersTo(q, n - 1) : q[i] \in DOMAIN Length} = L
      BY <1>4
    <2>2. L # {} => q[Max(L)] = r[Max(L)]
      <3>1. SUFFICES ASSUME L # {} PROVE Max(L) \in L
        BY <1>4
      <3>2. L \in SUBSET Nat /\ \A i \in L : i <= n
        BY <1>1 DEF HeadersTo
      <3>3. QED
        BY <1>1, <3>1, <3>2, GreatestOf
    <2>3. QED
      BY <2>1, <2>2 DEF DeclaredTo
  <1>7. QED
    BY <1>3, <1>5, <1>6

LEMMA OneWord ==
  ASSUME NEW text \in Seq(Word), NEW w
  PROVE  text = <<w>> <=> Len(text) = 1 /\ text[1] = w
  OBVIOUS

\* What Text is, as the bytes of r from m to n.
LEMMA TextIs ==
  ASSUME NEW r \in Seq(Word), NEW m \in Nat, NEW n \in Nat, 1 <= m, m <= n + 1, n <= Len(r)
  PROVE  /\ SubSeq(r, m, n) \in Seq(Word) /\ Len(SubSeq(r, m, n)) = n + 1 - m
         /\ SubSeq(r, m, n) = <<>> <=> n < m
         /\ m <= n => SubSeq(r, m, n)[1] = r[m]
  <1>1. Len(r) \in Nat /\ \A i \in m .. n : r[i] \in Word
    BY LenProperties, ElementOfSeq
  <1>2. PICK text : text = SubSeq(r, m, n)
    OBVIOUS
  <1>3. /\ text \in Seq(Word) /\ Len(text) = IF m <= n THEN n - m + 1 ELSE 0
        /\ \A i \in 1 .. n - m + 1 : text[i] = r[m + i - 1]
    BY <1>1, <1>2, SubSeqProperties
  <1>4. Len(text) = n + 1 - m
    BY <1>3
  <1>5. text = <<>> <=> n < m
    BY <1>3, <1>4, EmptySeq
  <1>6. m <= n => text[1] = r[m]
    <2>1. m <= n => 1 \in 1 .. n - m + 1 /\ m + 1 - 1 = m
      OBVIOUS
    <2>2. QED
      BY <1>3, <2>1
  <1>7. QED
    BY <1>2, <1>3, <1>4, <1>5, <1>6

-----------------------------------------------------------------------------
(* The parser: what it has found out so far, while more may come.          *)

\* The first n bytes have been taken as a request line and headers.
HeadParsed(n) ==
    /\ LinesTo(Raw, n) /\ method_ = Raw[1]
    /\ content_length_ = DeclaredTo(Raw, n - 1) /\ linger_ = KeepAliveTo(Raw, n - 1)

\* What was not yet taken is as it came, and up to checked_idx_ without a line
\* end; what was taken is, line for line, what check_state_ says.  (Only an
\* incomplete body leaves line_state_ at "open".)
Parsing ==
    /\ \A i \in start_line_ + 1 .. Len(read_buf_) : read_buf_[i] = Raw[i]
    /\ \A i \in start_line_ + 1 .. checked_idx_ : Raw[i] \notin {CR, LF}
    /\ line_state_ = "open" => check_state_ = "content" /\ pc # "in"
    /\ check_state_ = "request line" => start_line_ = 0 /\ content_length_ = 0 /\ linger_ = FALSE
    /\ check_state_ = "header" => HeadParsed(start_line_)
    /\ check_state_ = "content" =>
          /\ start_line_ >= 2 /\ HeadParsed(start_line_ - 2)
          /\ Raw[start_line_ - 1] = CR /\ Raw[start_line_] = LF /\ content_length_ # 0
          /\ checked_idx_ = start_line_ /\ (line_state_ = "open" => Len(read_buf_) = start_line_ /\ content_length_ > 0)

\* ParsedAsWhole, and what makes it inductive: as long as a request is being
\* parsed, what is known of it is what the reference says of as many bytes.
ParsedInv ==
    /\ Len(read_buf_) <= got
    /\ ~torn => /\ pc \in {"in", "process_read"} => Parsing
                /\ pc = "do_request" => check_state_ # "request line"
    /\ ParsedAsWhole

LEMMA RawOf ==
  ASSUME NEW str \in Streams, NEW g \in Nat, g <= Len(str), NEW m \in Nat, 1 <= m, m <= g + 1
  PROVE  /\ SubSeq(str, m, g) \in Seq(Word) /\ Len(SubSeq(str, m, g)) = g + 1 - m
         /\ \A i \in 1 .. g + 1 - m : /\ SubSeq(str, m, g)[i] = str[m + i - 1]
                                     /\ SubSeq(str, m, g)[i] # NUL
  <1>1. str \in Seq(Word) /\ Len(str) \in Nat /\ DOMAIN str = 1 .. Len(str)
    <2>1. str \in Seq(Word)
      BY HttpParseAssumption
    <2>2. QED
      BY <2>1, LenProperties
  <1>2. PICK r : r = SubSeq(str, m, g)
    OBVIOUS
  <1>3. \A i \in m .. g : str[i] \in Word
    BY <1>1, ElementOfSeq
  <1>4. /\ r \in Seq(Word) /\ Len(r) = IF m <= g THEN g - m + 1 ELSE 0
        /\ \A i \in 1 .. g - m + 1 : r[i] = str[m + i - 1]
    BY <1>1, <1>2, <1>3, SubSeqProperties
  <1>5. Len(r) = g + 1 - m
    BY <1>4
  <1>6. ASSUME NEW i \in 1 .. g + 1 - m PROVE r[i] = str[m + i - 1] /\ r[i] # NUL
    <2>1. i \in 1 .. g - m + 1 /\ m + i - 1 \in DOMAIN str
      BY <1>1
    <2>2. QED
      BY <1>4, <2>1, HttpParseAssumption
  <1>7. QED
    BY <1>2, <1>4, <1>5, <1>6

LEMMA RawIs ==
  ASSUME ParseTypeOK, Len(read_buf_) <= got
  PROVE  /\ Raw \in Seq(Word) /\ Len(Raw) = Len(read_buf_)
         /\ \A i \in 1 .. Len(read_buf_) : /\ Raw[i] = stream[(got - Len(read_buf_)) + i]
                                           /\ Raw[i] # NUL
  <1>1. PICK str, g, m, r : str = stream /\ g = got /\ m = got - Len(read_buf_) + 1 /\ r = Raw
    OBVIOUS
  <1>2. /\ str \in Streams /\ g \in Nat /\ g <= Len(str) /\ m \in Nat /\ 1 <= m /\ m <= g + 1
        /\ Len(read_buf_) \in Nat
    <2>1. str \in Streams /\ str \in Seq(Word) /\ got \in 0 .. Len(str) /\ Len(read_buf_) \in Nat
      BY <1>1, Indexes, HttpParseAssumption DEF ParseTypeOK, ClientTypeOK
    <2>2. Len(str) \in Nat
      BY <2>1, LenProperties
    <2>3. QED
      BY <1>1, <2>1, <2>2
  <1>3. r = SubSeq(str, m, g)
    BY <1>1 DEF Raw
  <1>4. r \in Seq(Word) /\ Len(r) = g + 1 - m
    BY <1>2, <1>3, RawOf
  <1>5. \A i \in 1 .. g + 1 - m : r[i] = str[m + i - 1] /\ r[i] # NUL
    BY <1>2, <1>3, RawOf
  <1>6. ASSUME NEW i \in 1 .. Len(read_buf_)
        PROVE  r[i] = str[(got - Len(read_buf_)) + i] /\ r[i] # NUL
    <2>1. i \in 1 .. g + 1 - m /\ m + i - 1 = (got - Len(read_buf_)) + i
      BY <1>1, <1>2
    <2>2. QED
      BY <1>5, <2>1
  <1>7. Len(r) = Len(read_buf_)
    BY <1>1, <1>2, <1>4
  <1>8. QED
    BY <1>1, <1>4, <1>6, <1>7

\* A line is taken: where it ends, and what it is.
LEMMA LineFound ==
  ASSUME ParseInv, Len(read_buf_) <= got, Parsing, LineOk, EndLine,
         start_line_' = checked_idx_', UNCHANGED client
  PROVE  /\ Raw' = Raw /\ Len(read_buf_') = Len(read_buf_)
         /\ \E b \in Nat :
              /\ b \in checked_idx_ + 1 .. Len(Raw) - 1 /\ Raw[b] = CR /\ Raw[b + 1] = LF
              /\ \A i \in start_line_ + 1 .. b - 1 : Raw[i] \notin {CR, LF}
              /\ Text = SubSeq(Raw, start_line_ + 1, b - 1)
              /\ start_line_' = b + 1 /\ checked_idx_' = b + 1
              /\ \A i \in b + 2 .. Len(read_buf_) : read_buf_'[i] = Raw[i]
  <1>1. /\ Len(read_buf_) \in Nat /\ checked_idx_ \in Nat /\ start_line_ \in Nat
        /\ start_line_ <= checked_idx_ /\ checked_idx_ <= Len(read_buf_)
        /\ read_buf_ \in Seq(Word) /\ DOMAIN read_buf_ = 1 .. Len(read_buf_)
    BY Indexes, LenProperties DEF ParseInv
  <1>2. Raw \in Seq(Word) /\ Len(Raw) = Len(read_buf_)
    BY RawIs DEF ParseInv
  <1>3. Len(read_buf_') = Len(read_buf_)
    BY EndLineType
  <1>4. Raw' = Raw
    BY <1>3 DEF client, Raw
  <1>5. PICK b \in Nat : b = Break
    BY <1>1, LineIs
  <1>6. b \in checked_idx_ + 1 .. Len(Raw) - 1 /\ read_buf_[b] = CR
    BY <1>2, <1>5, LineIs
  <1>7. read_buf_[b + 1] = LF
    BY <1>5, <1>6 DEF LineOk, CR, LF
  <1>8. \A i \in checked_idx_ + 1 .. b - 1 : read_buf_[i] \notin {CR, LF}
    BY <1>5, BreakIs DEF LineOk, ParseInv
  <1>9. \A i \in start_line_ + 1 .. Len(read_buf_) : read_buf_[i] = Raw[i]
    BY DEF Parsing
  <1>10. \A i \in start_line_ + 1 .. b - 1 : Raw[i] \notin {CR, LF}
    <2>1. SUFFICES ASSUME NEW i \in start_line_ + 1 .. b - 1 PROVE Raw[i] \notin {CR, LF}
      OBVIOUS
    <2>2. CASE i <= checked_idx_
      <3>1. \A j \in start_line_ + 1 .. checked_idx_ : Raw[j] \notin {CR, LF}
        BY DEF Parsing
      <3>2. i \in start_line_ + 1 .. checked_idx_
        BY <1>1, <2>2
      <3>3. QED
        BY <3>1, <3>2
    <2>3. CASE i > checked_idx_
      <3>1. i \in checked_idx_ + 1 .. b - 1 /\ i \in start_line_ + 1 .. Len(read_buf_)
        BY <1>1, <1>2, <1>6, <2>3
      <3>2. QED
        BY <1>8, <1>9, <3>1
    <2>4. QED
      BY <1>1, <2>2, <2>3
  <1>11. Raw[b] = CR /\ Raw[b + 1] = LF
    <2>1. b \in start_line_ + 1 .. Len(read_buf_) /\ b + 1 \in start_line_ + 1 .. Len(read_buf_)
      BY <1>1, <1>2, <1>6
    <2>2. QED
      BY <1>6, <1>7, <1>9, <2>1
  <1>12. Text = SubSeq(Raw, start_line_ + 1, b - 1)
    <2>1. PICK m, n \in Int : m = start_line_ + 1 /\ n = b - 1
      BY <1>1
    <2>2. \A i \in m .. n : read_buf_[i] \in Word /\ read_buf_[i] = Raw[i]
      <3>1. \A i \in m .. n : i \in 1 .. Len(read_buf_) /\ i \in start_line_ + 1 .. Len(read_buf_)
        BY <1>1, <1>2, <1>6, <2>1
      <3>2. QED
        BY <1>1, <1>9, <3>1, ElementOfSeq
    <2>3. \A i \in m .. n : Raw[i] \in Word
      BY <2>2
    <2>4. PICK x, y : x = SubSeq(read_buf_, m, n) /\ y = SubSeq(Raw, m, n)
      OBVIOUS
    <2>5. /\ x \in Seq(Word) /\ Len(x) = (IF m <= n THEN n - m + 1 ELSE 0)
          /\ \A i \in 1 .. n - m + 1 : x[i] = read_buf_[m + i - 1]
      BY <2>1, <2>2, <2>4, SubSeqProperties
    <2>6. /\ y \in Seq(Word) /\ Len(y) = (IF m <= n THEN n - m + 1 ELSE 0)
          /\ \A i \in 1 .. n - m + 1 : y[i] = Raw[m + i - 1]
      BY <2>1, <2>3, <2>4, SubSeqProperties
    <2>7. ASSUME NEW i \in 1 .. Len(x) PROVE x[i] = y[i]
      <3>1. i \in 1 .. n - m + 1 /\ m + i - 1 \in m .. n
        BY <2>1, <2>5
      <3>2. QED
        BY <2>2, <2>5, <2>6, <3>1
    <2>8. x = y
      BY <2>5, <2>6, <2>7, SeqEqual
    <2>9. QED
      BY <1>5, <2>1, <2>4, <2>8 DEF Text
  <1>13. /\ start_line_' = b + 1 /\ checked_idx_' = b + 1
         /\ read_buf_' = [read_buf_ EXCEPT ![b] = NUL, ![b + 1] = NUL]
    BY <1>5 DEF EndLine, Ended
  <1>14. ASSUME NEW i \in b + 2 .. Len(read_buf_) PROVE read_buf_'[i] = Raw[i]
    <2>1. i \in DOMAIN read_buf_ /\ i # b /\ i # b + 1 /\ i \in start_line_ + 1 .. Len(read_buf_)
      BY <1>1, <1>2, <1>6
    <2>2. read_buf_'[i] = read_buf_[i]
      BY <1>13, <2>1
    <2>3. QED
      BY <1>9, <2>1, <2>2
  <1>15. QED
    BY <1>3, <1>4, <1>6, <1>10, <1>11, <1>12, <1>13, <1>14

-----------------------------------------------------------------------------
(* The parser: each step.                                                  *)

LEMMA RequestLineParses ==
  ASSUME ParseInv, ParsedInv, ~torn, RequestLine
  PROVE  Parsing'
  <1>1. /\ Parsing /\ Len(read_buf_) <= got /\ check_state_ = "request line" /\ pc = "process_read"
        /\ start_line_ = 0 /\ content_length_ = 0 /\ linger_ = FALSE /\ line_state_ # "open"
    BY DEF RequestLine, Line, ParsedInv, Parsing
  <1>2. /\ LineOk /\ EndLine /\ start_line_' = checked_idx_' /\ Text \in {<<"GET">>, <<"POST">>}
        /\ method_' = Text[1] /\ check_state_' = "header"
        /\ UNCHANGED <<client, content_length_, linger_, line_state_>>
    BY DEF RequestLine, Line
  <1>3. Raw' = Raw /\ Len(read_buf_') = Len(read_buf_)
    BY <1>1, <1>2, LineFound
  <1>4. PICK b \in Nat :
          /\ b \in checked_idx_ + 1 .. Len(Raw) - 1 /\ Raw[b] = CR /\ Raw[b + 1] = LF
          /\ Text = SubSeq(Raw, 0 + 1, b - 1)
          /\ start_line_' = b + 1 /\ checked_idx_' = b + 1
          /\ \A i \in b + 2 .. Len(read_buf_) : read_buf_'[i] = Raw[i]
    BY <1>1, <1>2, LineFound
  <1>5. Raw \in Seq(Word) /\ Len(Raw) = Len(read_buf_) /\ Len(Raw) \in Nat /\ checked_idx_ \in Nat
    BY <1>1, RawIs, Indexes DEF ParseInv
  <1>6. b = 2 /\ Raw[1] \in {"GET", "POST"} /\ method_' = Raw[1]
    <2>1. 0 < b /\ b <= Len(Raw) + 1
      BY <1>4, <1>5
    <2>2. PICK w \in {"GET", "POST"} : Text = <<w>>
      BY <1>2
    <2>3. b = 0 + 2 /\ Raw[0 + 1] = w
      <3>1. PICK r, m, n, text : r = Raw /\ m = 0 + 1 /\ n = b - 1 /\ text = SubSeq(r, m, n)
        OBVIOUS
      <3>2. r \in Seq(Word) /\ m \in Nat /\ n \in Nat /\ 1 <= m /\ m <= n + 1 /\ n <= Len(r)
        BY <1>5, <2>1, <3>1
      <3>3. text \in Seq(Word) /\ Len(text) = n + 1 - m /\ (m <= n => text[1] = r[m])
        BY <3>1, <3>2, TextIs
      <3>4. text = <<w>>
        BY <1>4, <2>2, <3>1
      <3>5. Len(text) = 1 /\ text[1] = w
        BY <3>3, <3>4, OneWord
      <3>6. QED
        BY <3>1, <3>2, <3>3, <3>5
    <2>4. Text[1] = w
      BY <2>2
    <2>5. QED
      BY <1>2, <2>3, <2>4
  <1>7. LinesTo(Raw, 3)
    <2>1. Raw[1] # CR /\ Raw[1] # LF /\ Raw[2] = CR /\ Raw[3] = LF /\ 3 \in 3 .. Len(Raw) /\ CR # LF
      BY <1>4, <1>5, <1>6 DEF CR, LF
    <2>2. \A i \in 1 .. 3 : i = 1 \/ i = 2 \/ i = 3
      OBVIOUS
    <2>3. QED
      BY <1>6, <2>1, <2>2 DEF LinesTo
  <1>8. HeadersTo(Raw, 2) = {}
    <2>1. \A i \in 2 .. 2 : i - 1 = 1
      OBVIOUS
    <2>2. QED
      BY <1>6, <2>1 DEF HeadersTo, LF
  <1>9. DeclaredTo(Raw, 3 - 1) = 0 /\ KeepAliveTo(Raw, 3 - 1) = FALSE
    BY <1>8 DEF DeclaredTo, KeepAliveTo
  <1>10. HeadParsed(start_line_)'
    <2>1. start_line_' = 3
      BY <1>4, <1>6
    <2>2. content_length_' = 0 /\ linger_' = FALSE
      BY <1>1, <1>2
    <2>3. /\ LinesTo(Raw', start_line_') /\ method_' = Raw'[1]
          /\ content_length_' = DeclaredTo(Raw', start_line_' - 1)
          /\ linger_' = KeepAliveTo(Raw', start_line_' - 1)
      BY <1>3, <1>6, <1>7, <1>9, <2>1, <2>2
    <2>4. QED
      BY <2>3 DEF HeadParsed
  <1>11. \A i \in start_line_' + 1 .. Len(read_buf_') : read_buf_'[i] = Raw'[i]
    BY <1>3, <1>4, <1>6
  <1>12. \A i \in start_line_' + 1 .. checked_idx_' : Raw'[i] \notin {CR, LF}
    BY <1>4
  <1>13. QED
    BY <1>1, <1>2, <1>10, <1>11, <1>12 DEF Parsing

LEMMA BadRequestLineJudged ==
  ASSUME ParseInv, ParsedInv, ~torn, BadRequestLine
  PROVE  Verdict(Raw') = "bad"
  <1>1. /\ Parsing /\ Len(read_buf_) <= got /\ start_line_ = 0
    BY DEF BadRequestLine, Line, ParsedInv, Parsing
  <1>2. /\ LineOk /\ EndLine /\ start_line_' = checked_idx_' /\ Text \notin {<<"GET">>, <<"POST">>}
        /\ UNCHANGED client
    BY DEF BadRequestLine, Line
  <1>3. Raw' = Raw
    BY <1>1, <1>2, LineFound
  <1>4. PICK b \in Nat :
          /\ b \in checked_idx_ + 1 .. Len(Raw) - 1 /\ Raw[b] = CR /\ Raw[b + 1] = LF
          /\ \A i \in 0 + 1 .. b - 1 : Raw[i] \notin {CR, LF}
          /\ Text = SubSeq(Raw, 0 + 1, b - 1)
    BY <1>1, <1>2, LineFound
  <1>5. Raw \in Seq(Word) /\ Len(Raw) \in Nat /\ b >= 1 /\ b < Len(Raw)
    <2>1. Raw \in Seq(Word) /\ checked_idx_ \in Nat
      BY <1>1, RawIs, Indexes DEF ParseInv
    <2>2. QED
      BY <1>4, <2>1, LenProperties
  <1>6. b \in Ends(Raw) /\ Ends(Raw) \in SUBSET (1 .. Len(Raw) - 1) /\ \A i \in Ends(Raw) : b <= i
    <2>1. b \in Ends(Raw)
      BY <1>4, <1>5 DEF Ends
    <2>2. ASSUME NEW i \in Ends(Raw), i < b PROVE FALSE
      <3>1. i \in 0 + 1 .. b - 1 /\ Raw[i] = CR
        BY <1>5, <2>2 DEF Ends
      <3>2. QED
        BY <1>4, <3>1
    <2>3. Ends(Raw) \in SUBSET (1 .. Len(Raw) - 1)
      BY DEF Ends
    <2>4. QED
      BY <1>5, <2>1, <2>2, <2>3
  <1>7. Min(Ends(Raw)) = b
    <2>1. Ends(Raw) \in SUBSET Nat
      BY <1>5, <1>6
    <2>2. QED
      BY <1>6, <2>1, MinIs
  <1>8. Min(Ends(Raw) \cup {Len(Raw)}) = b
    <2>1. Ends(Raw) \cup {Len(Raw)} \in SUBSET Nat /\ \A i \in Ends(Raw) \cup {Len(Raw)} : b <= i
      BY <1>5, <1>6
    <2>2. QED
      BY <1>6, <2>1, MinIs
  <1>9. ~Broken(Raw, b)
    <2>1. SUFFICES ASSUME NEW i \in 1 .. b,
                          \/ Raw[i] = CR /\ i \notin Ends(Raw) /\ i < Len(Raw)
                          \/ Raw[i] = LF /\ i - 1 \notin Ends(Raw)
                   PROVE  FALSE
      BY DEF Broken
    <2>2. i = b \/ i \in 0 + 1 .. b - 1
      BY <1>5
    <2>3. QED
      BY <1>4, <1>6, <2>1, <2>2 DEF CR, LF
  <1>10. SubSeq(Raw, 1, b - 1) \notin {<<"GET">>, <<"POST">>}
    BY <1>2, <1>4
  <1>11. QED
    BY <1>3, <1>6, <1>7, <1>8, <1>9, <1>10 DEF Verdict

LEMMA HeaderParses ==
  ASSUME ParseInv, ParsedInv, ~torn, Header
  PROVE  Parsing'
  <1>1. /\ Parsing /\ Len(read_buf_) <= got /\ check_state_ = "header" /\ pc = "process_read"
        /\ HeadParsed(start_line_) /\ line_state_ # "open"
    BY DEF Header, Line, ParsedInv, Parsing
  <1>2. /\ LineOk /\ EndLine /\ start_line_' = checked_idx_' /\ Text # <<>>
        /\ linger_' = (linger_ \/ Text = <<"keep-alive">>)
        /\ content_length_' = IF Text[1] \in DOMAIN Length THEN Length[Text[1]] ELSE content_length_
        /\ UNCHANGED <<client, check_state_, method_, line_state_>>
    BY DEF Header, Line
  <1>3. PICK n \in Nat : n = start_line_
    BY Indexes DEF ParseInv
  <1>4. Raw' = Raw /\ Len(read_buf_') = Len(read_buf_)
    BY <1>1, <1>2, LineFound
  <1>5. PICK b \in Nat :
          /\ b \in checked_idx_ + 1 .. Len(Raw) - 1 /\ Raw[b] = CR /\ Raw[b + 1] = LF
          /\ \A i \in n + 1 .. b - 1 : Raw[i] \notin {CR, LF}
          /\ Text = SubSeq(Raw, n + 1, b - 1)
          /\ start_line_' = b + 1 /\ checked_idx_' = b + 1
          /\ \A i \in b + 2 .. Len(read_buf_) : read_buf_'[i] = Raw[i]
    BY <1>1, <1>2, <1>3, LineFound
  <1>6. Raw \in Seq(Word) /\ Len(Raw) = Len(read_buf_) /\ Len(Raw) \in Nat /\ n < b /\ b < Len(Raw)
    <2>1. Raw \in Seq(Word) /\ Len(Raw) = Len(read_buf_) /\ checked_idx_ \in Nat /\ n <= checked_idx_
      BY <1>1, <1>3, RawIs, Indexes DEF ParseInv
    <2>2. QED
      BY <1>5, <2>1, LenProperties
  <1>7. /\ b # n + 1 /\ Text[1] = Raw[n + 1]
        /\ Text = <<"keep-alive">> <=> (b = n + 2 /\ Raw[n + 1] = "keep-alive")
    <2>1. PICK r, m, k, text, w :
            r = Raw /\ m = n + 1 /\ k = b - 1 /\ text = SubSeq(r, m, k) /\ w = "keep-alive"
      OBVIOUS
    <2>2. r \in Seq(Word) /\ m \in Nat /\ k \in Nat /\ 1 <= m /\ m <= k + 1 /\ k <= Len(r)
      BY <1>6, <2>1
    <2>3. Text = text
      BY <1>5, <2>1
    <2>4. /\ text \in Seq(Word) /\ Len(text) = k + 1 - m
          /\ text = <<>> <=> k < m
          /\ m <= k => text[1] = r[m]
      BY <2>1, <2>2, TextIs
    <2>5. b # n + 1 /\ Text[1] = Raw[n + 1]
      BY <1>2, <1>6, <2>1, <2>2, <2>3, <2>4
    <2>6. text = <<w>> <=> Len(text) = 1 /\ text[1] = w
      BY <2>4, OneWord
    <2>7. Len(text) = 1 <=> b = n + 2
      BY <1>6, <2>1, <2>4
    <2>8. Text = <<w>> <=> (b = n + 2 /\ Raw[n + 1] = w)
      BY <2>3, <2>5, <2>6, <2>7
    <2>9. QED
      BY <2>1, <2>5, <2>8
  <1>8. b \in n + 2 .. Len(Raw) - 1
    BY <1>6, <1>7
  <1>9. Text = <<"keep-alive">> <=> (Raw[n + 1] = "keep-alive" /\ Raw[n + 2] = CR)
    <2>1. Raw[n + 2] = CR <=> b = n + 2
      <3>1. b # n + 2 => n + 2 \in n + 1 .. b - 1
        BY <1>8
      <3>2. QED
        BY <1>5, <3>1
    <2>2. QED
      BY <1>7, <2>1
  <1>10. LinesTo(Raw, n) /\ method_ = Raw[1] /\ content_length_ = DeclaredTo(Raw, n - 1)
         /\ linger_ = KeepAliveTo(Raw, n - 1)
    BY <1>1, <1>3 DEF HeadParsed
  <1>11. /\ LinesTo(Raw, b + 1)
         /\ DeclaredTo(Raw, b) = IF Raw[n + 1] \in DOMAIN Length THEN Length[Raw[n + 1]]
                                                                 ELSE DeclaredTo(Raw, n - 1)
         /\ KeepAliveTo(Raw, b) <=> KeepAliveTo(Raw, n - 1)
                                    \/ (Raw[n + 1] = "keep-alive" /\ Raw[n + 2] = CR)
    BY <1>5, <1>6, <1>8, <1>10, LinesGrow
  <1>12. content_length_' = DeclaredTo(Raw, b)
    BY <1>2, <1>7, <1>10, <1>11
  <1>13. linger_' = KeepAliveTo(Raw, b)
    <2>1. linger_' = (KeepAliveTo(Raw, n - 1) \/ (Raw[n + 1] = "keep-alive" /\ Raw[n + 2] = CR))
      BY <1>2, <1>9, <1>10, Zenon
    <2>2. KeepAliveTo(Raw, b) \in BOOLEAN
      BY DEF KeepAliveTo
    <2>3. QED
      BY <1>11, <2>1, <2>2, Zenon
  <1>14. (b + 1) - 1 = b
    OBVIOUS
  <1>15. HeadParsed(start_line_)'
    BY <1>2, <1>4, <1>5, <1>10, <1>11, <1>12, <1>13, <1>14 DEF HeadParsed
  <1>16. \A i \in start_line_' + 1 .. Len(read_buf_') : read_buf_'[i] = Raw'[i]
    BY <1>4, <1>5
  <1>17. \A i \in start_line_' + 1 .. checked_idx_' : Raw'[i] \notin {CR, LF}
    BY <1>5
  <1>18. QED
    BY <1>1, <1>2, <1>15, <1>16, <1>17 DEF Parsing
\* An empty line ends the headers: of a request without a body, or of one whose
\* body is to come.
LEMMA EmptyLineParses ==
  ASSUME ParseInv, ParsedInv, ~torn, EmptyLine
  PROVE  /\ content_length_ # 0 => pc' = "process_read" /\ Parsing'
         /\ content_length_ = 0 => /\ pc' = "do_request" /\ Verdict(Raw') = "request"
                                   /\ method_' = Raw'[1] /\ content_length_' = Declared(Raw')
                                   /\ linger_' = KeepAlive(Raw')
  <1>1. /\ Parsing /\ Len(read_buf_) <= got /\ check_state_ = "header" /\ pc = "process_read"
        /\ HeadParsed(start_line_) /\ line_state_ # "open"
    BY DEF EmptyLine, Line, ParsedInv, Parsing
  <1>2. /\ LineOk /\ EndLine /\ start_line_' = checked_idx_' /\ Text = <<>>
        /\ UNCHANGED <<client, content_length_, linger_, method_, line_state_>>
        /\ content_length_ # 0 => check_state_' = "content" /\ pc' = pc
        /\ content_length_ = 0 => pc' = "do_request" /\ check_state_' = check_state_
    BY DEF EmptyLine, Line
  <1>3. PICK n \in Nat : n = start_line_
    BY Indexes DEF ParseInv
  <1>4. Raw' = Raw /\ Len(read_buf_') = Len(read_buf_)
    BY <1>1, <1>2, LineFound
  <1>5. PICK b \in Nat :
          /\ b \in checked_idx_ + 1 .. Len(Raw) - 1 /\ Raw[b] = CR /\ Raw[b + 1] = LF
          /\ Text = SubSeq(Raw, n + 1, b - 1)
          /\ start_line_' = b + 1 /\ checked_idx_' = b + 1
          /\ \A i \in b + 2 .. Len(read_buf_) : read_buf_'[i] = Raw[i]
    BY <1>1, <1>2, <1>3, LineFound
  <1>6. Raw \in Seq(Word) /\ Len(Raw) = Len(read_buf_) /\ Len(Raw) \in Nat /\ n < b /\ b < Len(Raw)
    <2>1. Raw \in Seq(Word) /\ Len(Raw) = Len(read_buf_) /\ checked_idx_ \in Nat /\ n <= checked_idx_
      BY <1>1, <1>3, RawIs, Indexes DEF ParseInv
    <2>2. QED
      BY <1>5, <2>1, LenProperties
  <1>7. b = n + 1
    <2>1. PICK r, m, k : r = Raw /\ m = n + 1 /\ k = b - 1
      OBVIOUS
    <2>2. r \in Seq(Word) /\ m \in Nat /\ k \in Nat /\ 1 <= m /\ m <= k + 1 /\ k <= Len(r)
      BY <1>6, <2>1
    <2>3. SubSeq(r, m, k) = <<>>
      BY <1>2, <1>5, <2>1
    <2>4. k < m
      BY <2>2, <2>3, TextIs
    <2>5. QED
      BY <1>6, <2>1, <2>4
  <1>8. LinesTo(Raw, n) /\ method_ = Raw[1] /\ content_length_ = DeclaredTo(Raw, n - 1)
         /\ linger_ = KeepAliveTo(Raw, n - 1)
    BY <1>1, <1>3 DEF HeadParsed
  <1>9. n + 2 <= Len(Raw) /\ Raw[n + 1] = CR /\ Raw[n + 2] = LF
    BY <1>5, <1>6, <1>7
  <1>10. /\ Declared(Raw) = DeclaredTo(Raw, n - 1) /\ KeepAlive(Raw) = KeepAliveTo(Raw, n - 1)
         /\ Verdict(Raw) = IF Len(Raw) < n + 2 + Declared(Raw) THEN "incomplete" ELSE "request"
    BY <1>6, <1>8, <1>9, EmptyNext
  <1>11. ASSUME content_length_ = 0
         PROVE  /\ pc' = "do_request" /\ Verdict(Raw') = "request" /\ method_' = Raw'[1]
                /\ content_length_' = Declared(Raw') /\ linger_' = KeepAlive(Raw')
    <2>1. Declared(Raw) = 0
      BY <1>8, <1>10, <1>11
    <2>2. Verdict(Raw) = "request"
      BY <1>6, <1>9, <1>10, <2>1
    <2>3. QED
      BY <1>2, <1>4, <1>8, <1>10, <1>11, <2>2
  <1>12. ASSUME content_length_ # 0 PROVE pc' = "process_read" /\ Parsing'
    <2>1. start_line_' = n + 2 /\ checked_idx_' = n + 2 /\ (n + 2) - 2 = n /\ (n + 2) - 1 = n + 1
          /\ n + 2 >= 2
      BY <1>5, <1>7
    <2>2. HeadParsed(start_line_ - 2)'
      <3>1. /\ LinesTo(Raw', start_line_' - 2) /\ method_' = Raw'[1]
            /\ content_length_' = DeclaredTo(Raw', (start_line_' - 2) - 1)
            /\ linger_' = KeepAliveTo(Raw', (start_line_' - 2) - 1)
        BY <1>2, <1>4, <1>8, <2>1
      <3>2. QED
        BY <3>1 DEF HeadParsed
    <2>3. \A i \in start_line_' + 1 .. Len(read_buf_') : read_buf_'[i] = Raw'[i]
      BY <1>4, <1>5
    <2>4. \A i \in start_line_' + 1 .. checked_idx_' : Raw'[i] \notin {CR, LF}
      BY <2>1
    <2>5. Raw'[start_line_' - 1] = CR /\ Raw'[start_line_'] = LF
      BY <1>4, <1>9, <2>1
    <2>6. QED
      BY <1>1, <1>2, <1>12, <2>1, <2>2, <2>3, <2>4, <2>5 DEF Parsing
  <1>13. QED
    BY <1>11, <1>12

\* No line: what there is may become a request, or never will.
LEMMA NoRequestJudged ==
  ASSUME ParseInv, ParsedInv, ~torn, NoRequest
  PROVE  Parsing' /\ Verdict(Raw') \in {"incomplete", "broken"}
  <1>1. Parsing /\ Len(read_buf_) <= got
    BY DEF NoRequest, ParsedInv
  <1>2. /\ ~InBody /\ ~LineOk /\ line_state_' = "ok" /\ pc' = "in"
        /\ checked_idx_' = (IF Breaks = {} THEN Len(read_buf_) ELSE Break - 1)
        /\ UNCHANGED <<client, read_buf_, start_line_, check_state_, content_length_, linger_, method_>>
    BY DEF NoRequest
  <1>3. /\ Len(read_buf_) \in Nat /\ checked_idx_ \in Nat /\ start_line_ \in Nat
        /\ start_line_ <= checked_idx_ /\ checked_idx_ <= Len(read_buf_)
    BY Indexes DEF ParseInv
  <1>4. Raw \in Seq(Word) /\ Len(Raw) = Len(read_buf_) /\ Raw' = Raw
    <2>1. Raw' = Raw
      BY <1>2 DEF client, Raw
    <2>2. QED
      BY <1>1, <2>1, RawIs DEF ParseInv
  <1>5. \A i \in start_line_ + 1 .. Len(read_buf_) : read_buf_[i] = Raw[i]
    BY <1>1 DEF Parsing
  <1>6. PICK b \in Nat :
          /\ checked_idx_' = b - 1 /\ b \in checked_idx_ + 1 .. Len(read_buf_) + 1
          /\ b <= Len(read_buf_) =>
                /\ read_buf_[b] \in {CR, LF}
                /\ ~(read_buf_[b] = CR /\ b < Len(read_buf_) /\ read_buf_[b + 1] = LF)
          /\ \A i \in checked_idx_ + 1 .. b - 1 : read_buf_[i] \notin {CR, LF}
    <2>1. CASE Breaks = {}
      <3>1. PICK b \in Nat : b = Len(read_buf_) + 1
        BY <1>3
      <3>2. \A i \in checked_idx_ + 1 .. b - 1 : read_buf_[i] \notin {CR, LF}
        BY <1>3, <2>1, <3>1 DEF Breaks
      <3>3. checked_idx_' = b - 1 /\ b \in checked_idx_ + 1 .. Len(read_buf_) + 1
        BY <1>2, <1>3, <2>1, <3>1
      <3>4. QED
        BY <1>3, <3>1, <3>2, <3>3
    <2>2. CASE Breaks # {}
      <3>1. PICK b \in Nat : b = Break
        BY <1>3, <2>2, BreakIs DEF ParseInv
      <3>2. /\ b \in checked_idx_ + 1 .. Len(read_buf_) /\ read_buf_[b] \in {CR, LF}
            /\ \A i \in checked_idx_ + 1 .. b - 1 : read_buf_[i] \notin {CR, LF}
        BY <2>2, <3>1, BreakIs DEF ParseInv
      <3>3. ~(read_buf_[b] = CR /\ b < Len(read_buf_) /\ read_buf_[b + 1] = LF)
        BY <1>2, <2>2, <3>1 DEF LineOk
      <3>4. checked_idx_' = b - 1 /\ b \in checked_idx_ + 1 .. Len(read_buf_) + 1
        BY <1>2, <1>3, <2>2, <3>1, <3>2
      <3>5. QED
        BY <3>2, <3>3, <3>4
    <2>3. QED
      BY <2>1, <2>2
  <1>7. \A i \in start_line_ + 1 .. b - 1 : Raw[i] \notin {CR, LF}
    <2>1. SUFFICES ASSUME NEW i \in start_line_ + 1 .. b - 1 PROVE Raw[i] \notin {CR, LF}
      OBVIOUS
    <2>2. CASE i <= checked_idx_
      <3>1. \A j \in start_line_ + 1 .. checked_idx_ : Raw[j] \notin {CR, LF}
        BY <1>1 DEF Parsing
      <3>2. i \in start_line_ + 1 .. checked_idx_
        BY <1>3, <2>2
      <3>3. QED
        BY <3>1, <3>2
    <2>3. CASE i > checked_idx_
      <3>1. i \in checked_idx_ + 1 .. b - 1 /\ i \in start_line_ + 1 .. Len(read_buf_)
        BY <1>3, <1>6, <2>3
      <3>2. QED
        BY <1>5, <1>6, <3>1
    <2>4. QED
      BY <1>3, <2>2, <2>3
  <1>8. NoLineAt(Raw, b)
    <2>1. b \in 1 .. Len(Raw) + 1
      BY <1>3, <1>4, <1>6
    <2>2. ASSUME b <= Len(Raw)
          PROVE  Raw[b] \in {CR, LF} /\ ~(Raw[b] = CR /\ b < Len(Raw) /\ Raw[b + 1] = LF)
      <3>1. Raw[b] = read_buf_[b] /\ (b < Len(Raw) => Raw[b + 1] = read_buf_[b + 1])
        <4>1. b \in start_line_ + 1 .. Len(read_buf_)
              /\ (b < Len(Raw) => b + 1 \in start_line_ + 1 .. Len(read_buf_))
          BY <1>3, <1>4, <1>6, <2>2
        <4>2. QED
          BY <1>5, <4>1
      <3>2. QED
        BY <1>4, <1>6, <2>2, <3>1
    <2>3. QED
      BY <2>1, <2>2 DEF NoLineAt
  <1>9. check_state_ = "content" => Breaks = {} /\ Len(read_buf_) = start_line_ /\ checked_idx_ = start_line_
    <2>1. SUFFICES ASSUME check_state_ = "content"
                   PROVE  Breaks = {} /\ Len(read_buf_) = start_line_ /\ checked_idx_ = start_line_
      OBVIOUS
    <2>2. line_state_ = "open"
      BY <1>2, <2>1 DEF InBody, ParseInv, ParseTypeOK, RequestTypeOK
    <2>3. Len(read_buf_) = start_line_ /\ checked_idx_ = start_line_
      BY <1>1, <2>1, <2>2 DEF Parsing
    <2>4. Breaks = {}
      BY <1>3, <2>3 DEF Breaks
    <2>5. QED
      BY <2>3, <2>4
  <1>10. Parsing'
    <2>1. check_state_ = "header" => HeadParsed(start_line_)'
      <3>1. check_state_ = "header" => HeadParsed(start_line_)
        BY <1>1 DEF Parsing
      <3>2. QED
        BY <1>2, <1>4, <3>1 DEF HeadParsed
    <2>2. check_state_ = "content" => HeadParsed(start_line_ - 2)'
      <3>1. check_state_ = "content" => HeadParsed(start_line_ - 2)
        BY <1>1 DEF Parsing
      <3>2. QED
        BY <1>2, <1>4, <3>1 DEF HeadParsed
    <2>3. check_state_ = "content" => checked_idx_' = start_line_
      BY <1>2, <1>9
    <2>4. \A i \in start_line_' + 1 .. checked_idx_' : Raw'[i] \notin {CR, LF}
      BY <1>2, <1>4, <1>6, <1>7
    <2>5. \A i \in start_line_' + 1 .. Len(read_buf_') : read_buf_'[i] = Raw'[i]
      BY <1>2, <1>4, <1>5
    <2>6. /\ check_state_ = "request line" => start_line_ = 0 /\ content_length_ = 0 /\ linger_ = FALSE
          /\ check_state_ = "content" => /\ start_line_ >= 2 /\ content_length_ # 0
                                         /\ Raw[start_line_ - 1] = CR /\ Raw[start_line_] = LF
      BY <1>1 DEF Parsing
    <2>7. QED
      BY <1>2, <1>4, <2>1, <2>2, <2>3, <2>4, <2>5, <2>6 DEF Parsing
  <1>11. Verdict(Raw) \in {"broken", "incomplete"}
    <2>1. CASE check_state_ = "request line"
      <3>1. start_line_ = 0
        BY <1>1, <2>1 DEF Parsing
      <3>2. \A i \in 1 .. b - 1 : Raw[i] \notin {CR, LF}
        BY <1>7, <3>1
      <3>3. QED
        BY <1>4, <1>8, <3>2, NoFirstLine
    <2>2. CASE check_state_ = "header"
      <3>1. LinesTo(Raw, start_line_)
        BY <1>1, <2>2 DEF Parsing, HeadParsed
      <3>2. b > start_line_
        BY <1>3, <1>6
      <3>3. QED
        BY <1>4, <1>7, <1>8, <3>1, <3>2, NoNextLine
    <2>3. CASE check_state_ = "content"
      <3>1. PICK n \in Int : n = start_line_ - 2
        BY <1>3
      <3>2. start_line_ >= 2 /\ HeadParsed(n) /\ content_length_ # 0
            /\ Raw[start_line_ - 1] = CR /\ Raw[start_line_] = LF
        BY <1>1, <2>3, <3>1 DEF Parsing
      <3>3. n + 2 = start_line_ /\ n + 1 = start_line_ - 1 /\ n + 2 <= Len(Raw)
        BY <1>3, <1>4, <3>1
      <3>4. LinesTo(Raw, n) /\ content_length_ = DeclaredTo(Raw, n - 1)
        BY <3>2 DEF HeadParsed
      <3>5. /\ Declared(Raw) = DeclaredTo(Raw, n - 1)
            /\ Verdict(Raw) = IF Len(Raw) < n + 2 + Declared(Raw) THEN "incomplete" ELSE "request"
        BY <1>4, <3>2, <3>3, <3>4, EmptyNext
      <3>6. Declared(Raw) \in Int /\ Declared(Raw) # 0
        BY <3>2, <3>4, <3>5 DEF ParseInv, ParseTypeOK, RequestTypeOK
      <3>7. Len(Raw) < n + 2 + Declared(Raw)
        <4>1. line_state_ = "ok" => InBody
          BY <2>3 DEF InBody
        <4>2. line_state_ = "open"
          BY <1>2, <4>1 DEF ParseInv, ParseTypeOK, RequestTypeOK
        <4>3. Len(read_buf_) = start_line_ /\ content_length_ > 0
          BY <1>1, <2>3, <4>2 DEF Parsing
        <4>4. QED
          BY <1>3, <1>4, <3>3, <3>4, <3>5, <3>6, <4>3
      <3>8. QED
        BY <3>5, <3>7
    <2>4. QED
      BY <2>1, <2>2, <2>3 DEF ParseInv, ParseTypeOK, RequestTypeOK
  <1>12. QED
    BY <1>4, <1>10, <1>11

\* Where a string ends that begins at c.
LEMMA StringEnd ==
  ASSUME NEW s \in Seq(Word), NEW c \in Nat, NEW e \in Nat, 1 <= c, c <= e, e <= Len(s) + 1,
         \A i \in c .. e - 1 : s[i] # NUL, e <= Len(s) => s[e] = NUL
  PROVE  Min({i \in DOMAIN s : i >= c /\ s[i] = NUL} \cup {Len(s) + 1}) = e
  <1>1. Len(s) \in Nat /\ DOMAIN s = 1 .. Len(s)
    BY LenProperties
  <1>2. PICK S : S = {i \in DOMAIN s : i >= c /\ s[i] = NUL} \cup {Len(s) + 1}
    OBVIOUS
  <1>3. S \in SUBSET Nat /\ e \in S
    BY <1>1, <1>2
  <1>4. ASSUME NEW y \in S PROVE e <= y
    <2>1. CASE y = Len(s) + 1
      BY <1>1, <2>1
    <2>2. CASE y # Len(s) + 1
      <3>1. y \in Nat /\ y >= c /\ s[y] = NUL
        BY <1>1, <1>2, <2>2
      <3>2. y \notin c .. e - 1
        BY <3>1
      <3>3. QED
        BY <3>1, <3>2
    <2>3. QED
      BY <2>1, <2>2
  <1>5. QED
    BY <1>2, <1>3, <1>4, MinIs

\* The whole body is there at the first look, or (unless a part of it is) none.
LEMMA ContentJudged ==
  ASSUME ParseInv, ParsedInv, ~torn, Content
  PROVE  \/ torn'
         \/ pc' = "process_read" /\ Parsing'
         \/ /\ pc' = "do_request" /\ check_state_' = "content" /\ Verdict(Raw') = "request"
            /\ method_' = Raw'[1] /\ content_length_' = Declared(Raw')
            /\ linger_' = KeepAlive(Raw') /\ ContentText' = Body(Raw')
  <1>1. Parsing /\ Len(read_buf_) <= got /\ check_state_ = "content" /\ pc = "process_read"
    BY DEF Content, ParsedInv
  <1>2. /\ Len(read_buf_) \in Nat /\ checked_idx_ \in Nat /\ start_line_ \in Nat
        /\ read_buf_ \in Seq(Word) /\ content_length_ \in Int
    BY Indexes DEF ParseInv, ParseTypeOK, RequestTypeOK
  <1>3. PICK s \in Nat : s = start_line_ /\ checked_idx_ = s /\ s <= Len(read_buf_) /\ s >= 2
    BY <1>1, Indexes DEF Parsing, ParseInv
  <1>4. InBody
    <2>1. SUFFICES ASSUME line_state_ = "open", LineOk PROVE FALSE
      BY <1>1 DEF Content, InBody, ParseInv, ParseTypeOK, RequestTypeOK
    <2>2. Len(read_buf_) = s
      BY <1>1, <1>3, <2>1 DEF Parsing
    <2>3. Breaks = {}
      BY <1>3, <2>2 DEF Breaks
    <2>4. QED
      BY <2>1, <2>3 DEF LineOk
  <1>5. /\ start_line_' = s /\ checked_idx_' = s
        /\ UNCHANGED <<client, check_state_, content_length_, linger_, method_>>
        /\ read_buf_' \in {read_buf_, PutNul(read_buf_, s + content_length_ + 1)}
    BY <1>3, <1>4 DEF Content
  <1>6. Raw' = Raw /\ Len(read_buf_') = Len(read_buf_)
    <2>1. Len(read_buf_') = Len(read_buf_)
      BY <1>2, <1>5, PutNulIs
    <2>2. QED
      BY <1>5, <2>1 DEF client, Raw
  <1>7. /\ Raw \in Seq(Word) /\ Len(Raw) = Len(read_buf_)
        /\ \A i \in 1 .. Len(read_buf_) : Raw[i] # NUL
    BY <1>1, RawIs DEF ParseInv
  <1>8. PICK n \in Int : n = s - 2
    BY <1>3
  <1>9. /\ HeadParsed(n) /\ Raw[s - 1] = CR /\ Raw[s] = LF /\ content_length_ # 0
        /\ \A i \in s + 1 .. Len(read_buf_) : read_buf_[i] = Raw[i]
    BY <1>1, <1>3, <1>8 DEF Parsing
  <1>10. n + 2 = s /\ n + 1 = s - 1 /\ n + 2 <= Len(Raw)
    BY <1>3, <1>7, <1>8
  <1>11. /\ LinesTo(Raw, n) /\ method_ = Raw[1] /\ content_length_ = DeclaredTo(Raw, n - 1)
         /\ linger_ = KeepAliveTo(Raw, n - 1)
    BY <1>9 DEF HeadParsed
  <1>12. /\ HeadEnd(Raw) = n - 1
         /\ Declared(Raw) = DeclaredTo(Raw, n - 1) /\ KeepAlive(Raw) = KeepAliveTo(Raw, n - 1)
         /\ Verdict(Raw) = IF Len(Raw) < n + 2 + Declared(Raw) THEN "incomplete" ELSE "request"
    BY <1>7, <1>9, <1>10, <1>11, EmptyNext
  <1>13. ASSUME Len(read_buf_) >= content_length_ + s
         PROVE  /\ pc' = "do_request" /\ check_state_' = "content" /\ Verdict(Raw') = "request"
                /\ method_' = Raw'[1] /\ content_length_' = Declared(Raw')
                /\ linger_' = KeepAlive(Raw') /\ ContentText' = Body(Raw')
    <2>1. PICK c \in Int, m \in Nat : c = content_length_ /\ m = s + 1
      BY <1>2
    <2>2. PICK k : k = IF c < 0 THEN Len(read_buf_) ELSE s + c
      OBVIOUS
    <2>3. PICK buf : buf = read_buf_'
      OBVIOUS
    <2>4. k \in Nat /\ m <= k + 1 /\ k <= Len(read_buf_)
      BY <1>2, <1>3, <1>13, <2>1, <2>2
    <2>5. pc' = "do_request" /\ content_' = m /\ buf = PutNul(read_buf_, s + c + 1)
      BY <1>3, <1>4, <1>13, <2>1, <2>3 DEF Content
    <2>6. Verdict(Raw) = "request"
      BY <1>2, <1>7, <1>10, <1>11, <1>12, <1>13
    <2>7. /\ buf \in Seq(Word) /\ Len(buf) = Len(read_buf_)
          /\ \A i \in 1 .. Len(read_buf_) : buf[i] = IF i = s + c + 1 THEN NUL ELSE read_buf_[i]
      BY <1>2, <2>5, PutNulIs
    <2>8. \A i \in m .. k : /\ i \in 1 .. Len(read_buf_)
                            /\ buf[i] = Raw[i] /\ buf[i] # NUL /\ Raw[i] \in Word
      <3>1. ASSUME NEW i \in m .. k
            PROVE  i \in s + 1 .. Len(read_buf_) /\ i \in 1 .. Len(read_buf_) /\ i # s + c + 1
        BY <1>2, <1>9, <2>1, <2>2, <2>4, <3>1
      <3>2. \A i \in 1 .. Len(read_buf_) : Raw[i] \in Word
        BY <1>2, <1>7, ElementOfSeq
      <3>3. QED
        BY <1>7, <1>9, <2>7, <3>1, <3>2
    <2>9. k + 1 <= Len(buf) => buf[k + 1] = NUL
      <3>1. SUFFICES ASSUME k + 1 <= Len(buf) PROVE buf[k + 1] = NUL
        OBVIOUS
      <3>2. k + 1 = s + c + 1 /\ k + 1 \in 1 .. Len(read_buf_)
        BY <1>2, <2>1, <2>2, <2>4, <2>7, <3>1
      <3>3. QED
        BY <2>7, <3>2
    <2>10. PICK x, y : x = SubSeq(buf, m, k) /\ y = SubSeq(Raw, m, k)
      OBVIOUS
    <2>11. /\ x \in Seq(Word) /\ Len(x) = (IF m <= k THEN k - m + 1 ELSE 0)
           /\ \A i \in 1 .. k - m + 1 : x[i] = buf[m + i - 1]
      <3>1. \A i \in m .. k : buf[i] \in Word
        BY <2>8
      <3>2. QED
        BY <2>4, <2>10, <3>1, SubSeqProperties
    <2>12. /\ y \in Seq(Word) /\ Len(y) = (IF m <= k THEN k - m + 1 ELSE 0)
           /\ \A i \in 1 .. k - m + 1 : y[i] = Raw[m + i - 1]
      <3>1. \A i \in m .. k : Raw[i] \in Word
        BY <2>8
      <3>2. QED
        BY <2>4, <2>10, <3>1, SubSeqProperties
    <2>13. ASSUME NEW i \in 1 .. Len(x) PROVE x[i] = y[i]
      <3>1. i \in 1 .. k - m + 1 /\ m + i - 1 \in m .. k
        BY <2>4, <2>11
      <3>2. QED
        BY <2>8, <2>11, <2>12, <3>1
    <2>14. x = y
      BY <2>11, <2>12, <2>13, SeqEqual
    <2>15. ContentText' = x
      <3>1. PICK e \in Nat : e = k + 1
        BY <2>4
      <3>2. 1 <= m /\ m <= e /\ e <= Len(buf) + 1 /\ e - 1 = k
        BY <1>2, <2>1, <2>4, <2>7, <3>1
      <3>3. (\A i \in m .. e - 1 : buf[i] # NUL) /\ (e <= Len(buf) => buf[e] = NUL)
        BY <2>8, <2>9, <3>1, <3>2
      <3>4. Min({i \in DOMAIN buf : i >= m /\ buf[i] = NUL} \cup {Len(buf) + 1}) = e
        BY <2>7, <3>2, <3>3, StringEnd
      <3>5. QED
        BY <2>3, <2>5, <2>10, <3>2, <3>4 DEF ContentText
    <2>16. Body(Raw) = y
      <3>1. HeadEnd(Raw) + 4 = m /\ Declared(Raw) = c
        BY <1>2, <1>8, <1>11, <1>12, <2>1
      <3>2. k = IF c < 0 THEN Len(Raw) ELSE HeadEnd(Raw) + 3 + c
        BY <1>2, <1>7, <1>8, <1>12, <2>2
      <3>3. QED
        BY <2>10, <3>1, <3>2 DEF Body
    <2>17. QED
      BY <1>1, <1>5, <1>6, <1>11, <1>12, <2>5, <2>6, <2>14, <2>15, <2>16
  <1>14. ASSUME ~(Len(read_buf_) >= content_length_ + s), ~torn'
         PROVE  pc' = "process_read" /\ Parsing'
    <2>1. pc' = "process_read" /\ line_state_' = "open" /\ ~(Len(read_buf_) > s) /\ read_buf_' = read_buf_
      BY <1>1, <1>3, <1>4, <1>14 DEF Content
    <2>2. Len(read_buf_) = s
      BY <1>2, <1>3, <2>1
    <2>a. content_length_ > 0
      BY <1>2, <1>14, <2>2
    <2>3. HeadParsed(start_line_ - 2)'
      <3>1. /\ LinesTo(Raw', start_line_' - 2) /\ method_' = Raw'[1]
            /\ content_length_' = DeclaredTo(Raw', (start_line_' - 2) - 1)
            /\ linger_' = KeepAliveTo(Raw', (start_line_' - 2) - 1)
        BY <1>5, <1>6, <1>8, <1>11
      <3>2. QED
        BY <3>1 DEF HeadParsed
    <2>4. \A i \in start_line_' + 1 .. Len(read_buf_') : read_buf_'[i] = Raw'[i]
      BY <1>5, <1>6, <1>9, <2>1
    <2>5. \A i \in start_line_' + 1 .. checked_idx_' : Raw'[i] \notin {CR, LF}
      BY <1>5
    <2>6. QED
      BY <1>1, <1>3, <1>5, <1>6, <1>9, <2>1, <2>2, <2>a, <2>3, <2>4, <2>5 DEF Parsing
  <1>15. QED
    BY <1>13, <1>14

\* More has come: what was known stays true.
LEMMA ReadOnceParses ==
  ASSUME ParseInv, ParsedInv, NEW num, ReadOnce(num)
  PROVE  Len(read_buf_') <= got' /\ (~torn => Parsing')
  <1>1. Len(read_buf_) <= got /\ pc = "in" /\ (~torn => Parsing)
    BY DEF ReadOnce, ParsedInv
  <1>2. /\ Len(read_buf_) \in Nat /\ checked_idx_ \in Nat /\ start_line_ \in Nat
        /\ start_line_ <= checked_idx_ /\ checked_idx_ <= Len(read_buf_)
        /\ read_buf_ \in Seq(Word)
    BY Indexes DEF ParseInv
  <1>3. stream \in Seq(Word) /\ Len(stream) \in Nat /\ got \in Nat
    BY HttpParseAssumption, LenProperties DEF ParseInv, ParseTypeOK, ClientTypeOK
  <1>4. PICK k \in Nat :
          /\ k <= READ_BUFFER_SIZE - Len(read_buf_) /\ got + k <= Len(stream)
          /\ read_buf_' = read_buf_ \o SubSeq(stream, got + 1, got + k) /\ got' = got + k
    BY ReadOnceIs
  <1>5. UNCHANGED <<stream, checked_idx_, start_line_, check_state_, content_length_,
                    linger_, method_, line_state_>>
    BY DEF ReadOnce
  <1>6. PICK s : s = SubSeq(stream, got + 1, got + k)
    OBVIOUS
  <1>7. s \in Seq(Word) /\ Len(s) = k /\ \A i \in 1 .. k : s[i] = stream[got + i]
    <2>1. \A i \in got + 1 .. got + k : stream[i] \in Word
      BY <1>3, <1>4, ElementOfSeq
    <2>2. /\ s \in Seq(Word)
          /\ Len(s) = (IF got + 1 <= got + k THEN (got + k) - (got + 1) + 1 ELSE 0)
          /\ \A i \in 1 .. (got + k) - (got + 1) + 1 : s[i] = stream[(got + 1) + i - 1]
      BY <1>3, <1>4, <1>6, <2>1, SubSeqProperties
    <2>3. \A i \in 1 .. k : i \in 1 .. (got + k) - (got + 1) + 1 /\ (got + 1) + i - 1 = got + i
      BY <1>3, <1>4
    <2>4. QED
      BY <1>3, <1>4, <2>2, <2>3
  <1>8. /\ Len(read_buf_') = Len(read_buf_) + k
        /\ \A i \in 1 .. Len(read_buf_) : read_buf_'[i] = read_buf_[i]
        /\ \A i \in Len(read_buf_) + 1 .. Len(read_buf_) + k : read_buf_'[i] = s[i - Len(read_buf_)]
    <2>1. PICK old, new : old = read_buf_ /\ new = read_buf_'
      OBVIOUS
    <2>2. new = old \o s /\ old \in Seq(Word)
      BY <1>2, <1>4, <1>6, <2>1
    <2>3. Len(new) = Len(old) + Len(s)
      BY <1>7, <2>2, ConcatProperties
    <2>4. \A i \in 1 .. Len(old) : new[i] = old[i]
      BY <1>7, <2>2, ConcatProperties
    <2>5. \A i \in Len(old) + 1 .. Len(old) + Len(s) : new[i] = s[i - Len(old)]
      BY <1>7, <2>2, ConcatProperties
    <2>6. QED
      BY <1>7, <2>1, <2>3, <2>4, <2>5
  <1>9. Len(read_buf_') <= got' /\ got' - Len(read_buf_') = got - Len(read_buf_)
    BY <1>1, <1>2, <1>3, <1>4, <1>8
  <1>10. ASSUME ~torn PROVE Parsing'
    <2>1. Parsing /\ line_state_ # "open"
      BY <1>1, <1>10 DEF Parsing
    <2>2. /\ Raw \in Seq(Word) /\ Len(Raw) = Len(read_buf_)
          /\ \A i \in 1 .. Len(read_buf_) : Raw[i] = stream[(got - Len(read_buf_)) + i]
      BY <1>1, RawIs DEF ParseInv
    <2>3. PICK d, q, len : d = got' - Len(read_buf_') /\ q = Raw' /\ len = Len(read_buf_')
      OBVIOUS
    <2>4. /\ q \in Seq(Word) /\ Len(q) = len
          /\ \A i \in 1 .. len : q[i] = stream[d + i]
      <3>1. PICK g, m, str : g = got' /\ m = d + 1 /\ str = stream
        OBVIOUS
      <3>2. str \in Streams
        BY <3>1 DEF ParseInv, ParseTypeOK, ClientTypeOK
      <3>3. /\ g \in Nat /\ g <= Len(str) /\ m \in Nat /\ 1 <= m /\ m <= g + 1
            /\ g + 1 - m = len
        BY <1>1, <1>2, <1>3, <1>4, <1>8, <1>9, <2>3, <3>1
      <3>4. q = SubSeq(str, m, g)
        BY <1>5, <2>3, <3>1 DEF Raw
      <3>5. q \in Seq(Word) /\ Len(q) = g + 1 - m
        BY <3>2, <3>3, <3>4, RawOf
      <3>6. \A i \in 1 .. g + 1 - m : q[i] = str[m + i - 1]
        BY <3>2, <3>3, <3>4, RawOf
      <3>7. ASSUME NEW i \in 1 .. len PROVE q[i] = stream[d + i]
        <4>1. d \in Int
          BY <1>2, <1>3, <1>9, <2>3
        <4>2. m + i - 1 = d + i
          BY <3>1, <4>1
        <4>3. QED
          BY <3>1, <3>3, <3>6, <4>2
      <3>8. QED
        BY <3>3, <3>5, <3>7
    <2>5. \A i \in 1 .. Len(Raw) : q[i] = Raw[i]
      <3>1. \A i \in 1 .. Len(Raw) : i \in 1 .. Len(read_buf_) /\ i \in 1 .. len
        BY <1>2, <1>4, <1>8, <2>2, <2>3
      <3>2. d = got - Len(read_buf_)
        BY <1>9, <2>3
      <3>3. QED
        BY <2>2, <2>4, <3>1, <3>2
    <2>6. Len(Raw) <= Len(q) /\ Len(Raw) = Len(read_buf_)
      BY <1>2, <1>4, <1>8, <2>2, <2>3, <2>4
    <2>7. \A i \in start_line_ + 1 .. len : read_buf_'[i] = q[i]
      <3>1. SUFFICES ASSUME NEW i \in start_line_ + 1 .. len PROVE read_buf_'[i] = q[i]
        OBVIOUS
      <3>2. CASE i <= Len(read_buf_)
        <4>1. \A j \in start_line_ + 1 .. Len(read_buf_) : read_buf_[j] = Raw[j]
          BY <2>1 DEF Parsing
        <4>2. i \in start_line_ + 1 .. Len(read_buf_) /\ i \in 1 .. Len(read_buf_)
          BY <1>2, <3>1, <3>2
        <4>3. QED
          BY <1>8, <2>2, <2>5, <4>1, <4>2
      <3>3. CASE i > Len(read_buf_)
        <4>1. PICK j \in Nat : j = i - Len(read_buf_)
          BY <1>2, <3>1, <3>3
        <4>2. j \in 1 .. k /\ i \in Len(read_buf_) + 1 .. Len(read_buf_) + k /\ i \in 1 .. len
              /\ d + i = got + j
          BY <1>2, <1>3, <1>4, <1>8, <1>9, <2>3, <3>1, <3>3, <4>1
        <4>3. read_buf_'[i] = s[j]
          BY <1>8, <4>1, <4>2
        <4>4. QED
          BY <1>7, <2>4, <4>2, <4>3
      <3>4. QED
        BY <1>2, <3>1, <3>2, <3>3
    <2>8. \A i \in start_line_ + 1 .. checked_idx_ : q[i] \notin {CR, LF}
      <3>1. \A i \in start_line_ + 1 .. checked_idx_ : Raw[i] \notin {CR, LF}
        BY <2>1 DEF Parsing
      <3>2. \A i \in start_line_ + 1 .. checked_idx_ : i \in 1 .. Len(Raw)
        BY <1>2, <2>6
      <3>3. QED
        BY <2>5, <3>1, <3>2
    <2>9. ASSUME NEW n \in Int, n <= Len(Raw), HeadParsed(n)
          PROVE  /\ LinesTo(q, n) /\ method_ = q[1]
                 /\ content_length_ = DeclaredTo(q, n - 1) /\ linger_ = KeepAliveTo(q, n - 1)
      <3>1. /\ LinesTo(Raw, n) /\ method_ = Raw[1]
            /\ content_length_ = DeclaredTo(Raw, n - 1) /\ linger_ = KeepAliveTo(Raw, n - 1)
        BY <2>9 DEF HeadParsed
      <3>2. PICK r : r = Raw
        OBVIOUS
      <3>3. /\ r \in Seq(Word) /\ LinesTo(r, n) /\ Len(r) <= Len(q)
            /\ \A i \in 1 .. Len(r) : q[i] = r[i]
        BY <2>2, <2>5, <2>6, <3>1, <3>2
      <3>4. /\ LinesTo(q, n) /\ DeclaredTo(q, n - 1) = DeclaredTo(r, n - 1)
            /\ KeepAliveTo(q, n - 1) <=> KeepAliveTo(r, n - 1)
        BY <2>4, <3>3, LinesStay
      <3>5. q[1] = r[1]
        <4>1. 1 \in 1 .. Len(r)
          BY <3>3, LenProperties DEF LinesTo
        <4>2. QED
          BY <3>3, <4>1
      <3>6. KeepAliveTo(q, n - 1) = KeepAliveTo(r, n - 1)
        <4>1. KeepAliveTo(q, n - 1) \in BOOLEAN /\ KeepAliveTo(r, n - 1) \in BOOLEAN
          BY DEF KeepAliveTo
        <4>2. QED
          BY <3>4, <4>1
      <3>7. QED
        BY <3>1, <3>2, <3>4, <3>5, <3>6
    <2>10. check_state_ = "header" => HeadParsed(start_line_)'
      <3>1. SUFFICES ASSUME check_state_ = "header" PROVE HeadParsed(start_line_)'
        OBVIOUS
      <3>2. HeadParsed(start_line_) /\ start_line_ \in Int /\ start_line_ <= Len(Raw)
        BY <1>2, <2>1, <2>6, <3>1 DEF Parsing
      <3>3. /\ LinesTo(Raw', start_line_') /\ method_' = Raw'[1]
            /\ content_length_' = DeclaredTo(Raw', start_line_' - 1)
            /\ linger_' = KeepAliveTo(Raw', start_line_' - 1)
        BY <1>5, <2>3, <2>9, <3>2
      <3>4. QED
        BY <3>3 DEF HeadParsed
    <2>11. check_state_ = "content" => HeadParsed(start_line_ - 2)'
      <3>1. SUFFICES ASSUME check_state_ = "content" PROVE HeadParsed(start_line_ - 2)'
        OBVIOUS
      <3>2. PICK n \in Int : n = start_line_ - 2 /\ n <= Len(Raw)
        BY <1>2, <2>6
      <3>3. HeadParsed(n)
        BY <2>1, <3>1, <3>2 DEF Parsing
      <3>4. /\ LinesTo(Raw', start_line_' - 2) /\ method_' = Raw'[1]
            /\ content_length_' = DeclaredTo(Raw', (start_line_' - 2) - 1)
            /\ linger_' = KeepAliveTo(Raw', (start_line_' - 2) - 1)
        BY <1>5, <2>3, <2>9, <3>2, <3>3
      <3>5. QED
        BY <3>4 DEF HeadParsed
    <2>12. check_state_ = "content" => /\ start_line_ >= 2 /\ content_length_ # 0
                                       /\ checked_idx_ = start_line_
                                       /\ q[start_line_ - 1] = CR /\ q[start_line_] = LF
      <3>1. SUFFICES ASSUME check_state_ = "content"
                     PROVE  /\ start_line_ >= 2 /\ content_length_ # 0
                            /\ checked_idx_ = start_line_
                            /\ q[start_line_ - 1] = CR /\ q[start_line_] = LF
        OBVIOUS
      <3>2. /\ start_line_ >= 2 /\ content_length_ # 0 /\ checked_idx_ = start_line_
            /\ Raw[start_line_ - 1] = CR /\ Raw[start_line_] = LF
        BY <2>1, <3>1 DEF Parsing
      <3>3. start_line_ - 1 \in 1 .. Len(Raw) /\ start_line_ \in 1 .. Len(Raw)
        BY <1>2, <2>6, <3>2
      <3>4. QED
        BY <2>5, <3>2, <3>3
    <2>13. check_state_ = "request line" => start_line_ = 0 /\ content_length_ = 0 /\ linger_ = FALSE
      BY <2>1 DEF Parsing
    <2>14. QED
      BY <1>5, <2>1, <2>3, <2>7, <2>8, <2>10, <2>11, <2>12, <2>13 DEF Parsing
  <1>11. QED
    BY <1>9, <1>10

-----------------------------------------------------------------------------
(* The parser: all steps.                                                  *)

LEMMA ReadParsed ==
  ASSUME ParseInv, ParsedInv, ProcessRead
  PROVE  ParsedInv'
  <1>1. Len(read_buf_') <= got'
    <2>1. got' = got
      BY DEF ProcessRead, NoRequest, RequestLine, BadRequestLine, Header, EmptyLine, Content, client
    <2>2. Len(read_buf_') = Len(read_buf_)
      <3>1. CASE UNCHANGED read_buf_
        BY <3>1
      <3>2. CASE LineOk /\ EndLine
        BY <3>2, EndLineType
      <3>3. CASE Content
        BY <3>3, ContentType
      <3>4. QED
        BY <3>1, <3>2, <3>3 DEF ProcessRead, NoRequest, RequestLine, BadRequestLine, Header, EmptyLine, Line
    <2>3. QED
      BY <2>1, <2>2 DEF ParsedInv
  <1>2. torn => torn'
    BY Zenon DEF ProcessRead, NoRequest, RequestLine, BadRequestLine, Header, EmptyLine, Content
  <1>3. SUFFICES ASSUME ~torn, ~torn'
                 PROVE  /\ pc' \in {"in", "process_read"} => Parsing'
                        /\ pc' = "do_request" => check_state_' # "request line"
                        /\ ParsedAsWhole'
    <2>1. torn' => ParsedAsWhole'
      BY DEF ParsedAsWhole
    <2>2. QED
      BY <1>1, <1>2, <2>1 DEF ParsedInv
  <1>4. CASE NoRequest
    <2>1. pc' = "in"
      BY <1>4 DEF NoRequest
    <2>2. Parsing' /\ Verdict(Raw') \in {"incomplete", "broken"}
      BY <1>3, <1>4, NoRequestJudged
    <2>3. QED
      BY <2>1, <2>2 DEF ParsedAsWhole
  <1>5. CASE RequestLine
    <2>1. pc' = "process_read"
      BY <1>5 DEF RequestLine, Line
    <2>2. Parsing'
      BY <1>3, <1>5, RequestLineParses
    <2>3. QED
      BY <2>1, <2>2 DEF ParsedAsWhole
  <1>6. CASE BadRequestLine
    <2>1. pc' = "process_write"
      BY <1>6 DEF BadRequestLine
    <2>2. Verdict(Raw') = "bad"
      BY <1>3, <1>6, BadRequestLineJudged
    <2>3. QED
      BY <2>1, <2>2 DEF ParsedAsWhole
  <1>7. CASE Header
    <2>1. pc' = "process_read"
      BY <1>7 DEF Header, Line
    <2>2. Parsing'
      BY <1>3, <1>7, HeaderParses
    <2>3. QED
      BY <2>1, <2>2 DEF ParsedAsWhole
  <1>8. CASE EmptyLine
    <2>1. CASE content_length_ # 0
      <3>1. pc' = "process_read" /\ Parsing'
        BY <1>3, <1>8, <2>1, EmptyLineParses
      <3>2. QED
        BY <3>1 DEF ParsedAsWhole
    <2>2. CASE content_length_ = 0
      <3>1. /\ pc' = "do_request" /\ Verdict(Raw') = "request"
            /\ method_' = Raw'[1] /\ content_length_' = Declared(Raw')
            /\ linger_' = KeepAlive(Raw')
        BY <1>3, <1>8, <2>2, EmptyLineParses
      <3>2. check_state_' = "header" /\ content_length_' = 0
        BY <1>8, <2>2 DEF EmptyLine, Line
      <3>3. QED
        BY <3>1, <3>2 DEF ParsedAsWhole
    <2>3. QED
      BY <2>1, <2>2
  <1>9. CASE Content
    <2>1. \/ pc' = "process_read" /\ Parsing'
          \/ /\ pc' = "do_request" /\ check_state_' = "content" /\ Verdict(Raw') = "request"
             /\ method_' = Raw'[1] /\ content_length_' = Declared(Raw')
             /\ linger_' = KeepAlive(Raw') /\ ContentText' = Body(Raw')
      BY <1>3, <1>9, ContentJudged
    <2>2. QED
      BY <2>1 DEF ParsedAsWhole
  <1>10. QED
    BY <1>4, <1>5, <1>6, <1>7, <1>8, <1>9 DEF ProcessRead

\* An empty buffer holds no request yet.
LEMMA NothingYet ==
  ASSUME NEW str \in Streams, NEW g \in Nat, g <= Len(str)
  PROVE  Verdict(SubSeq(str, g + 1, g)) \in {"broken", "incomplete"}
  <1>1. PICK r, m : r = SubSeq(str, m, g) /\ m = g + 1
    OBVIOUS
  <1>2. r \in Seq(Word) /\ Len(r) = g + 1 - m
    <2>1. m \in Nat /\ 1 <= m /\ m <= g + 1
      BY <1>1
    <2>2. QED
      BY <1>1, <2>1, RawOf
  <1>3. PICK b \in Nat : b = 1
    OBVIOUS
  <1>4. Len(r) = 0
    BY <1>1, <1>2
  <1>5. NoLineAt(r, b) /\ \A i \in 1 .. b - 1 : r[i] \notin {CR, LF}
    BY <1>3, <1>4 DEF NoLineAt
  <1>6. Verdict(r) \in {"broken", "incomplete"}
    BY <1>2, <1>3, <1>5, NoFirstLine
  <1>7. QED
    BY <1>1, <1>6

\* HttpConn::init().
LEMMA ResetParsed ==
  ASSUME ParseTypeOK, ResetParser, pc' = "in", ClientTypeOK'
  PROVE  ParsedInv'
  <1>1. checked_idx_' = 0 /\ start_line_' = 0 /\ content_length_' = 0
    BY DEF ResetParser
  <1>2. Len(read_buf_') = 0
    <2>1. read_buf_' = <<>>
      BY DEF ResetParser
    <2>2. QED
      BY <2>1, EmptySeq
  <1>3. PICK str, g : str = stream' /\ g = got'
    OBVIOUS
  <1>4. str \in Streams /\ g \in Nat /\ g <= Len(str)
    <2>1. str \in Streams /\ str \in Seq(Word) /\ g \in 0 .. Len(str)
      BY <1>3, HttpParseAssumption DEF ClientTypeOK
    <2>2. Len(str) \in Nat
      BY <2>1, LenProperties
    <2>3. QED
      BY <2>1, <2>2
  <1>5. Raw' = SubSeq(str, g + 1, g)
    <2>1. g - 0 + 1 = g + 1
      BY <1>4
    <2>2. QED
      BY <1>2, <1>3, <2>1 DEF Raw
  <1>6. Verdict(Raw') \in {"broken", "incomplete"}
    BY <1>4, <1>5, NothingYet
  <1>7. Parsing'
    <2>1. \A i \in start_line_' + 1 .. Len(read_buf_') : read_buf_'[i] = Raw'[i]
      BY <1>1, <1>2
    <2>2. \A i \in start_line_' + 1 .. checked_idx_' : Raw'[i] \notin {CR, LF}
      BY <1>1
    <2>3. line_state_' = "ok" /\ check_state_' = "request line" /\ linger_' = FALSE
      BY DEF ResetParser
    <2>4. QED
      BY <1>1, <2>1, <2>2, <2>3 DEF Parsing
  <1>8. Len(read_buf_') <= got'
    BY <1>2, <1>3, <1>4
  <1>9. ParsedAsWhole'
    BY <1>6 DEF ParsedAsWhole
  <1>10. QED
    BY <1>7, <1>8, <1>9 DEF ParsedInv

\* Nothing is parsed, and the connection does not wait for input.
LEMMA ElsewhereParsed ==
  ASSUME ParsedInv, UNCHANGED <<client, parser>>,
         pc' \in {"out", "write", "closed"} \/ (pc = "do_request" /\ pc' = "process_write")
  PROVE  ParsedInv'
  <1>1. UNCHANGED <<got, read_buf_, check_state_, torn>>
    BY DEF client, parser
  <1>2. pc' \notin {"in", "process_read", "do_request"}
    OBVIOUS
  <1>3. pc' = "process_write" /\ ~torn => check_state_ # "request line"
    BY DEF ParsedInv
  <1>4. ParsedAsWhole'
    BY <1>1, <1>2, <1>3 DEF ParsedAsWhole
  <1>5. Len(read_buf_') <= got'
    BY <1>1 DEF ParsedInv
  <1>6. QED
    BY <1>2, <1>4, <1>5 DEF ParsedInv

LEMMA ParsedInit == Init => ParsedInv
  <1> SUFFICES ASSUME Init PROVE ParsedInv
    OBVIOUS
  <1>1. /\ checked_idx_ = 0 /\ start_line_ = 0 /\ content_length_ = 0 /\ got = 0
        /\ pc = "in" /\ stream \in Streams
    BY DEF Init, ParseInit
  <1>2. Len(read_buf_) = 0
    <2>1. read_buf_ = <<>>
      BY DEF Init, ParseInit
    <2>2. QED
      BY <2>1, EmptySeq
  <1>3. PICK g \in Nat : g = got /\ g <= Len(stream)
    <2>1. stream \in Seq(Word)
      BY <1>1, HttpParseAssumption
    <2>2. Len(stream) \in Nat
      BY <2>1, LenProperties
    <2>3. QED
      BY <1>1, <2>2
  <1>4. Raw = SubSeq(stream, g + 1, g)
    <2>1. g - 0 + 1 = g + 1
      OBVIOUS
    <2>2. QED
      BY <1>2, <1>3, <2>1 DEF Raw
  <1>5. Verdict(Raw) \in {"broken", "incomplete"}
    BY <1>1, <1>3, <1>4, NothingYet
  <1>6. Parsing
    <2>1. \A i \in start_line_ + 1 .. Len(read_buf_) : read_buf_[i] = Raw[i]
      BY <1>1, <1>2
    <2>2. \A i \in start_line_ + 1 .. checked_idx_ : Raw[i] \notin {CR, LF}
      BY <1>1
    <2>3. line_state_ = "ok" /\ check_state_ = "request line" /\ linger_ = FALSE
      BY DEF Init, ParseInit
    <2>4. QED
      BY <1>1, <2>1, <2>2, <2>3 DEF Parsing
  <1>7. ParsedAsWhole
    BY <1>1, <1>5 DEF ParsedAsWhole
  <1>8. QED
    BY <1>1, <1>2, <1>6, <1>7 DEF ParsedInv

LEMMA ParsedInvStep == ConnInv /\ ParsedInv /\ [Next]_vars => ParsedInv'
  <1> SUFFICES ASSUME ConnInv, ParsedInv, [Next]_vars PROVE ParsedInv'
    OBVIOUS
  <1>1. ParseInv /\ ParseTypeOK
    BY DEF ConnInv, TypeOK, ParseInv
  <1>2. ClientTypeOK'
    BY ConnInvStep DEF ConnInv, TypeOK, ParseTypeOK
  <1>3. CASE ProcessRead
    BY <1>1, <1>3, ReadParsed
  <1>4. CASE Read
    <2>1. CASE BufferFull
      <3>1. pc' = "closed" /\ UNCHANGED <<client, parser>>
        BY <2>1 DEF BufferFull
      <3>2. QED
        BY <3>1, ElsewhereParsed
    <2>2. ASSUME NEW n, ReadOnce(n) PROVE ParsedInv'
      <3>1. Len(read_buf_') <= got' /\ (~torn => Parsing')
        BY <1>1, <2>2, ReadOnceParses
      <3>2. pc' = "process_read" /\ torn' = torn
        BY <2>2 DEF ReadOnce
      <3>3. ParsedAsWhole'
        BY <3>2 DEF ParsedAsWhole
      <3>4. QED
        BY <3>1, <3>2, <3>3 DEF ParsedInv
    <2>3. QED
      BY <1>4, <2>1, <2>2 DEF Read
  <1>5. CASE NoFile \/ File \/ ProcessWrite \/ ProcessWriteFails
    <2>1. /\ UNCHANGED <<client, parser>>
          /\ pc' \in {"out", "write", "closed"} \/ (pc = "do_request" /\ pc' = "process_write")
      BY <1>5 DEF NoFile, File, ProcessWrite, ProcessWriteFails
    <2>2. QED
      BY <2>1, ElsewhereParsed
  <1>6. CASE CallWrite \/ WriteNothing \/ WriteBlocks \/ WriteFails
    <2>1. UNCHANGED <<client, parser>> /\ pc' \in {"out", "write", "closed"}
      BY <1>6 DEF CallWrite, WriteNothing, WriteBlocks, WriteFails
    <2>2. QED
      BY <2>1, ElsewhereParsed
  <1>7. ASSUME NEW n, WriteSome(n) PROVE ParsedInv'
    <2>1. UNCHANGED <<client, parser>> /\ pc' = "write"
      BY <1>7 DEF WriteSome, Writev
    <2>2. QED
      BY <2>1, ElsewhereParsed
  <1>8. ASSUME NEW n, WriteLast(n) PROVE ParsedInv'
    <2>1. CASE linger_
      <3>1. ResetParser /\ pc' = "in"
        BY <1>8, <2>1 DEF WriteLast
      <3>2. QED
        BY <1>1, <1>2, <3>1, ResetParsed
    <2>2. CASE ~linger_
      <3>1. UNCHANGED <<client, parser>> /\ pc' = "closed"
        BY <1>8, <2>2 DEF WriteLast
      <3>2. QED
        BY <3>1, ElsewhereParsed
    <2>3. QED
      BY <2>1, <2>2
  <1>9. CASE Accept
    <2>1. ResetParser /\ pc' = "in"
      BY <1>9 DEF Accept
    <2>2. QED
      BY <1>1, <1>2, <2>1, ResetParsed
  <1>10. CASE CbFunc
    <2>1. UNCHANGED <<client, parser>> /\ pc' = "closed"
      BY <1>10 DEF CbFunc
    <2>2. QED
      BY <2>1, ElsewhereParsed
  <1>11. CASE UNCHANGED vars
    <2>1. UNCHANGED <<client, parser, pc>>
      BY <1>11 DEF vars, parseVars
    <2>2. Raw' = Raw /\ Parsing' = Parsing /\ ParsedAsWhole' = ParsedAsWhole
      BY <2>1 DEF client, parser, Raw, Parsing, HeadParsed, ParsedAsWhole, ContentText
    <2>3. QED
      BY <2>1, <2>2 DEF ParsedInv, client, parser
  <1>12. QED
    BY <1>3, <1>4, <1>5, <1>6, <1>7, <1>8, <1>9, <1>10, <1>11 DEF Next, Process, Write, WriteProceeds

\* Whatever a client sends and however it is cut into pieces: process_read says
\* of a request what all its bytes say at once (until a body has come in two
\* pieces).
THEOREM ParsedWhole == Spec => []ParsedAsWhole
  <1>1. ParsedInv => ParsedAsWhole
    BY DEF ParsedInv
  <1>2. QED
    BY <1>1, ConnInit, ConnInvStep, ParsedInit, ParsedInvStep, PTL DEF Spec

\* What the run http_body shows of bodies that come in two pieces happens with
\* nothing else: until process_read has seen a part of a body, a connection that
\* waits for input has no complete request in its buffer.
THEOREM OnlyTornBodyWaits == Spec => [](~torn => NoRequestMeansIncomplete)
  <1>1. ParsedAsWhole => (~torn => NoRequestMeansIncomplete)
    BY DEF ParsedAsWhole, NoRequestMeansIncomplete
  <1>2. QED
    BY <1>1, ParsedWhole, PTL

\* A turn of process_read's loop that does not end it takes a line, or goes from
\* LINE_OK to LINE_OPEN behind the last one.
LoopAdvances ==
    pc = "process_read" /\ pc' = "process_read" =>
        /\ Len(read_buf_') = Len(read_buf_)
        /\ \/ checked_idx_ < checked_idx_' /\ checked_idx_' <= Len(read_buf_)
           \/ checked_idx_' = checked_idx_ /\ line_state_ = "ok" /\ line_state_' = "open"

\* The loop of process_read ends for whatever is in the buffer: each turn but
\* the last brings checked_idx_ closer to read_idx_, or ends the attempt to find
\* the body, which only a further line allows to begin again.
THEOREM LoopEnds == Spec => [][LoopAdvances]_vars
  <1>1. ASSUME ConnInv, Next PROVE LoopAdvances
    <2>1. ParseInv
      BY <1>1 DEF ConnInv, TypeOK, ParseInv
    <2>2. SUFFICES ASSUME pc = "process_read", pc' = "process_read"
                   PROVE  /\ Len(read_buf_') = Len(read_buf_)
                          /\ \/ checked_idx_ < checked_idx_' /\ checked_idx_' <= Len(read_buf_)
                             \/ checked_idx_' = checked_idx_ /\ line_state_ = "ok" /\ line_state_' = "open"
      BY DEF LoopAdvances
    <2>3. ProcessRead
      <3>1. ~Read /\ ~Accept /\ ~CbFunc /\ ~NoFile /\ ~File /\ ~ProcessWrite /\ ~ProcessWriteFails
            /\ ~CallWrite /\ ~WriteNothing
        BY <2>2 DEF Read, ReadOnce, BufferFull, Accept, CbFunc, NoFile, File, ProcessWrite,
                    ProcessWriteFails, CallWrite, WriteNothing
      <3>2. ~Write
        BY <2>2 DEF Write, WriteProceeds, WriteBlocks, WriteFails, WriteSome, WriteLast, Writev
      <3>3. QED
        BY <1>1, <3>1, <3>2 DEF Next, Process
    <2>4. ASSUME LineOk, checked_idx_' = Break + 1
          PROVE  checked_idx_ < checked_idx_' /\ checked_idx_' <= Len(read_buf_)
      <3>1. /\ Break \in checked_idx_ + 1 .. Len(read_buf_) - 1
            /\ checked_idx_ \in Nat /\ Len(read_buf_) \in Nat
        BY <2>1, <2>4, LineIs, Indexes DEF ParseInv
      <3>2. QED
        BY <2>4, <3>1
    <2>5. CASE RequestLine \/ BadRequestLine \/ Header \/ EmptyLine
      <3>1. LineOk /\ EndLine
        BY <2>5 DEF RequestLine, BadRequestLine, Header, EmptyLine, Line
      <3>2. Len(read_buf_') = Len(read_buf_)
        BY <2>1, <3>1, EndLineType
      <3>3. QED
        BY <2>4, <3>1, <3>2 DEF EndLine
    <2>6. CASE NoRequest
      BY <2>2, <2>6 DEF NoRequest
    <2>7. CASE Content
      <3>1. Len(read_buf_') = Len(read_buf_)
        BY <2>1, <2>7, ContentType
      <3>2. CASE InBody
        BY <2>2, <2>7, <3>1, <3>2 DEF Content, InBody
      <3>3. CASE ~InBody
        BY <2>4, <2>7, <3>1, <3>3 DEF Content
      <3>4. QED
        BY <3>2, <3>3
    <2>8. QED
      BY <2>3, <2>5, <2>6, <2>7 DEF ProcessRead
  <1>2. ConnInv /\ [Next]_vars => [LoopAdvances]_vars
    BY <1>1
  <1>3. QED
    BY <1>2, ConnInit, ConnInvStep, PTL DEF Spec

===============================================================================
