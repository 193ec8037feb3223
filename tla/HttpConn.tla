--------------------------------- MODULE HttpConn ---------------------------------
(***************************************************************************)
(* A slot of users_ with one connection after the other: requests are read *)
(* in pieces and parsed (HttpParse), answers are written in pieces         *)
(* (HttpWrite), and the connection may be closed by its timer or by an     *)
(* event while it waits for either.  EPOLLONESHOT gives the slot to one    *)
(* thread at a time (Server shows how far), so the steps of a connection   *)
(* follow each other, whichever threads take them.                         *)
(***************************************************************************)
EXTENDS HttpWrite

CONSTANT MaxConns   \* bound: connections, one after the other

ASSUME HttpConnAssumption == MaxConns \in Nat \ {0}

VARIABLES conns,      \* how many connections the slot has had
          abandoned   \* history: how many were closed from outside while a
                      \* file was mapped for them

vars == <<parseVars, writeVars, conns, abandoned>>

ConnTypeOK ==
    /\ pc \in {"in", "process_read", "do_request", "process_write", "out", "write", "closed"}
    /\ conns \in 1 .. MaxConns /\ abandoned \in 0 .. MaxConns

TypeOK == ParseTypeOK /\ WriteTypeOK /\ ConnTypeOK

\* The first connection of the slot.
Init ==
    /\ trig_mode_ \in BOOLEAN /\ stream \in Streams /\ got = 0
    /\ pc = "in" /\ code = "NO_REQUEST"
    /\ ParseInit /\ WriteInit
    /\ conns = 1 /\ abandoned = 0

\* HttpConn::init for the next connection on the descriptor.
Accept ==
    /\ pc = "closed" /\ conns < MaxConns
    /\ conns' = conns + 1 /\ pc' = "in"
    /\ stream' \in Streams /\ got' = 0
    /\ ResetParser /\ ResetCounters
    /\ UNCHANGED <<trig_mode_, code, mapping, iovecs, answer, received, cuts, abandoned>>

\* cb_func, for the timer, an error event or a failing recv: the descriptor
\* is closed and nothing else.
CbFunc ==
    /\ pc \in {"in", "out"} /\ pc' = "closed"
    /\ abandoned' = IF file_address_ \in Addresses /\ pc = "out" THEN abandoned + 1 ELSE abandoned
    /\ UNCHANGED <<client, parser, code, writeVars, conns>>

Read == (\E n \in 1 .. Len(stream) : ReadOnce(n)) \/ BufferFull

Write == WriteBlocks \/ WriteFails \/ WriteProceeds

\* What a thread does that works on the slot.
Process == (ProcessRead /\ UNCHANGED writeVars)
           \/ NoFile \/ File \/ ProcessWrite \/ ProcessWriteFails

Next == \/ (Read /\ UNCHANGED <<writeVars, conns, abandoned>>)
        \/ ((Process \/ CallWrite \/ WriteNothing \/ Write) /\ UNCHANGED <<conns, abandoned>>)
        \/ Accept \/ CbFunc

Spec == Init /\ [][Next]_vars

\* The threads run on; epoll reports a socket that has become writable, and
\* writev then proceeds in the end, that is, the client reads.
FairSpec ==
    /\ Spec
    /\ WF_vars(Process /\ UNCHANGED <<conns, abandoned>>)
    /\ WF_vars((CallWrite \/ Write) /\ UNCHANGED <<conns, abandoned>>)
    /\ SF_vars(WriteProceeds /\ UNCHANGED <<conns, abandoned>>)

-----------------------------------------------------------------------------
(* Properties.                                                             *)

\* However a request was cut into pieces, process_read says of it what can
\* be said of all its bytes at once: that it is complete, with this method,
\* body and Connection header, that its first line is wrong, or that more
\* must come.  (Until a body has come in two pieces.)
ParsedAsWhole ==
    ~torn =>
        /\ pc = "in" => Verdict(Raw) \in {"incomplete", "broken"}
        /\ pc = "do_request" =>
              /\ Verdict(Raw) = "request"
              /\ method_ = Raw[1]
              /\ content_length_ = Declared(Raw)
              /\ linger_ = KeepAlive(Raw)
              /\ content_length_ # 0 => ContentText = Body(Raw)
        /\ pc = "process_write" /\ check_state_ = "request line" =>
              Verdict(Raw) = "bad"

\* The comment in process says of NO_REQUEST that the request is incomplete
\* and more of it has to be received: so a connection that waits for input
\* has no complete request in its buffer.
NoRequestMeansIncomplete == pc = "in" => Verdict(Raw) # "request"

\* The client gets the bytes of each answer in order, without gap, repetition
\* or foreign bytes, and the connection goes on when it has them all.  (Until
\* writev stops within the headers for the second time.)
State == IF pc = "closed" THEN "closed" ELSE IF pc \in {"out", "write"} THEN "sending" ELSE "reading"
Client == INSTANCE Delivery WITH state <- State
DeliversInOrder == Client!Init /\ [][cuts' > 1 \/ Client!Next]_(Client!vars)

Mappings == {a \in Addresses : mapped[a] # 0}

\* A file is mapped from do_request until its answer is sent or fails, and
\* unmapped with the size it was mapped with; what is mapped beyond that was
\* left by connections that were closed from outside in between, one each.
MappingsAccounted ==
    /\ Cardinality(Mappings) <= abandoned + (IF pc \in {"process_write", "out", "write"} THEN 1 ELSE 0)
    /\ abandoned = 0 /\ Mappings # {} => Mappings = {file_address_} /\ mapped[file_address_] = file_size

\* No thread stays with a slot for ever: a request that is being parsed, or
\* whose answer is being sent to a client that reads, comes to an end.
\* (Until writev stops within the headers for the second time.)
HandlersEnd == (pc \notin {"in", "closed"}) ~> (pc \in {"in", "closed"} \/ cuts > 1)
===============================================================================
