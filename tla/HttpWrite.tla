-------------------------------- MODULE HttpWrite --------------------------------
(***************************************************************************)
(* http/http_conn.cc: the answer.  do_request looks for the file and maps  *)
(* it, process_write prepares two iovecs (the headers in write_buf_, the   *)
(* mapped file), and write sends them with writev, which may take any part *)
(* of what it is given.  Each call of writev with what write makes of its  *)
(* result is an action.  Which file a request asks for is left open, and   *)
(* of the headers only how long they are is kept.                          *)
(***************************************************************************)
EXTENDS HttpParse, SequencesExt

CONSTANTS HeaderSize,   \* the status line and the headers of a file
          PageSize,     \* a whole answer that is made in write_buf_
          FileSizes,    \* st_size of the files
          Addresses,    \* where mmap may put a file
          MAP_FAILED    \* what it returns if it fails

ASSUME HttpWriteAssumption ==
    /\ HeaderSize \in Nat \ {0} /\ PageSize \in Nat \ {0}
    /\ FileSizes \subseteq Nat
    /\ Addresses \subseteq Nat \ {0} /\ MAP_FAILED \notin Addresses \cup {0}

VARIABLES
    file_address_, file_size,         \* the latter is file_stat_.st_size
    mapped,                           \* the kernel: how much is mapped where
    iv_, iv_count_,
    write_idx_, bytes_sent_, bytes_unsent_,
    answer,                           \* history: the bytes to be sent
    received,                         \* what the client got of them
    cuts                              \* history: how often writev stopped
                                      \* within write_buf_

counters  == <<write_idx_, bytes_sent_, bytes_unsent_>>
iovecs    == <<iv_, iv_count_>>
mapping   == <<file_address_, file_size, mapped>>
writeVars == <<mapping, iovecs, counters, answer, received, cuts>>

\* A byte of write_buf_ or of the file.
Byte == {"write_buf_", "file"} \X Int

MappingTypeOK ==
    /\ file_address_ \in Addresses \cup {0, MAP_FAILED} /\ file_size \in FileSizes \cup {0}
    /\ mapped \in [Addresses -> Nat]

SendTypeOK ==
    /\ iv_ \in [{0, 1} -> [base : Int, len : Nat]] /\ iv_count_ \in {0, 1, 2}
    /\ write_idx_ \in {0, HeaderSize, PageSize}
    /\ bytes_sent_ \in Nat /\ bytes_unsent_ \in Nat
    /\ answer \in Seq(Byte) /\ received \in Seq(Byte) /\ cuts \in Nat

WriteTypeOK == MappingTypeOK /\ SendTypeOK

\* A slot in which no connection has been yet.  (users_ is too large for the
\* heap, its pages are new and hold zeros.)
WriteInit ==
    /\ file_address_ = 0 /\ file_size = 0 /\ mapped = [a \in Addresses |-> 0]
    /\ iv_ = [i \in {0, 1} |-> [base |-> 0, len |-> 0]] /\ iv_count_ = 0
    /\ write_idx_ = 0 /\ bytes_sent_ = 0 /\ bytes_unsent_ = 0
    /\ answer = <<>> /\ received = <<>> /\ cuts = 0

\* HttpConn::init(), as far as it concerns the answer: the file stays mapped.
ResetCounters == write_idx_' = 0 /\ bytes_sent_' = 0 /\ bytes_unsent_' = 0

-----------------------------------------------------------------------------
(* do_request.                                                             *)

\* stat fails, or finds a file that may not be read, or a directory.
NoFile ==
    /\ pc = "do_request" /\ pc' = "process_write"
    /\ \/ code' = "NO_RESOURCE" /\ UNCHANGED file_size
       \/ code' \in {"FORBIDDEN_REQUEST", "BAD_REQUEST"} /\ file_size' \in FileSizes
    /\ UNCHANGED <<client, parser, file_address_, mapped, iovecs, counters,
                   answer, received, cuts>>

\* The file is mapped, wherever there is room; or it is not, because it is
\* empty, or because open or mmap fails, which do_request does not look at.
File ==
    /\ pc = "do_request" /\ pc' = "process_write" /\ code' = "FILE_REQUEST"
    /\ file_size' \in FileSizes
    /\ \/ file_address_' = MAP_FAILED /\ UNCHANGED mapped
       \/ /\ file_size' # 0 /\ \E a \in Addresses : mapped[a] = 0
          /\ file_address_' = CHOOSE a \in Addresses : mapped[a] = 0
          /\ mapped' = [mapped EXCEPT ![file_address_'] = file_size']
    /\ UNCHANGED <<client, parser, iovecs, counters, answer, received, cuts>>

-----------------------------------------------------------------------------
(* process_write.                                                          *)

\* The iovecs offer to writev the first len bytes from base on.
Offer(vec, buffer) == [i \in 1 .. vec.len |-> <<buffer, vec.base + i - 1>>]
Offered == Offer(iv_[0], "write_buf_") \o (IF iv_count_ = 2 THEN Offer(iv_[1], "file") ELSE <<>>)

\* add_status_line, add_headers, add_content, and the iovecs.  (iv_[1] keeps
\* its value for an answer without a file.)
ProcessWrite ==
    /\ pc = "process_write" /\ code # "NO_RESOURCE"
    /\ IF code = "FILE_REQUEST" /\ file_size # 0
       THEN /\ write_idx_' = HeaderSize
            /\ iv_count_' = 2
            /\ iv_' = [i \in {0, 1} |-> [base |-> 0, len |-> IF i = 0 THEN HeaderSize ELSE file_size]]
            /\ bytes_unsent_' = HeaderSize + file_size
       ELSE /\ write_idx_' = PageSize
            /\ iv_count_' = 1
            /\ iv_' = [iv_ EXCEPT ![0] = [base |-> 0, len |-> PageSize]]
            /\ bytes_unsent_' = PageSize
    /\ answer' = Offered' /\ received' = <<>> /\ cuts' = 0
    /\ pc' = "out"
    /\ UNCHANGED <<client, parser, code, mapping, bytes_sent_>>

\* process_write has no answer to NO_RESOURCE, and process closes.
ProcessWriteFails ==
    /\ pc = "process_write" /\ code = "NO_RESOURCE"
    /\ pc' = "closed"
    /\ UNCHANGED <<client, parser, code, writeVars>>

-----------------------------------------------------------------------------
(* write.                                                                  *)

\* unmap, with the size that file_stat_ has by now.  What was never mapped
\* there is not counted.
Unmap ==
    /\ file_address_' = 0
    /\ mapped' = [a \in Addresses |->
                     IF a = file_address_ THEN Max({0, mapped[a] - file_size}) ELSE mapped[a]]
    /\ UNCHANGED file_size

\* Mutant of Iovecs: the file is sent from its beginning.
IovecsToFile(sent, unsent) ==
    IF sent >= iv_[0].len
    THEN [i \in {0, 1} |-> IF i = 0 THEN [iv_[0] EXCEPT !.len = 0] ELSE [base |-> 0, len |-> unsent]]
    ELSE [iv_ EXCEPT ![0] = [base |-> sent, len |-> iv_[0].len - sent]]

\* The iovecs when sent bytes are sent and unsent are left.  All that was
\* sent is compared with, and subtracted from, what was left of the first.
Iovecs(sent, unsent) ==
    IF sent >= iv_[0].len
    THEN [i \in {0, 1} |-> IF i = 0 THEN [iv_[0] EXCEPT !.len = 0]
                           ELSE [base |-> sent - write_idx_, len |-> unsent]]
    ELSE [iv_ EXCEPT ![0] = [base |-> sent, len |-> iv_[0].len - sent]]

\* writev takes n bytes, and none from where no file is.
Writev(n) ==
    /\ pc = "write" /\ n \in 1 .. Len(Offered)
    /\ file_address_ = MAP_FAILED => n <= iv_[0].len
    /\ received' = received \o SubSeq(Offered, 1, n)
    /\ iv_' = Iovecs(bytes_sent_ + n, bytes_unsent_ - n)
    /\ cuts' = IF n < iv_[0].len THEN cuts + 1 ELSE cuts

\* The socket has become writable: write is called.
CallWrite ==
    /\ pc = "out" /\ pc' = "write"
    /\ UNCHANGED <<client, parser, code, writeVars>>

\* Something is left; writev is called again.
WriteSome(n) ==
    /\ Writev(n) /\ n < bytes_unsent_
    /\ bytes_sent_' = bytes_sent_ + n /\ bytes_unsent_' = bytes_unsent_ - n
    /\ UNCHANGED <<client, parser, pc, code, mapping, iv_count_, write_idx_, answer>>

\* Nothing was left to be offered, though not all bytes are sent: writev
\* returns 0, and is called again, for ever.
WriteNothing ==
    /\ pc = "write" /\ Offered = <<>>
    /\ iv_' = Iovecs(bytes_sent_, bytes_unsent_)
    /\ UNCHANGED <<client, parser, pc, code, mapping, iv_count_, counters, answer, received, cuts>>

\* All is sent: the next request, or the end.
WriteLast(n) ==
    /\ Writev(n) /\ n = bytes_unsent_
    /\ Unmap
    /\ IF linger_ THEN ResetParser /\ ResetCounters /\ pc' = "in"
       ELSE /\ bytes_sent_' = bytes_sent_ + n /\ bytes_unsent_' = 0 /\ UNCHANGED write_idx_
            /\ pc' = "closed" /\ UNCHANGED parser
    /\ UNCHANGED <<client, code, iv_count_, answer>>

\* EAGAIN.
WriteBlocks ==
    /\ pc = "write" /\ Offered # <<>> /\ pc' = "out"
    /\ UNCHANGED <<client, parser, code, writeVars>>

\* Mutant of WriteFails: the file stays mapped.
WriteFailsMapped ==
    /\ pc = "write" /\ Offered # <<>> /\ pc' = "closed"
    /\ UNCHANGED <<client, parser, code, writeVars>>

\* The connection is broken, or the file is not where it should be (EFAULT).
WriteFails ==
    /\ pc = "write" /\ Offered # <<>> /\ pc' = "closed"
    /\ Unmap
    /\ UNCHANGED <<client, parser, code, iovecs, counters, answer, received, cuts>>

\* What becomes of a socket that is writable: writev takes something, or has
\* nothing to take but a file that is not there.
WriteProceeds == \/ \E n \in 1 .. Len(Offered) : WriteSome(n) \/ WriteLast(n)
                 \/ file_address_ = MAP_FAILED /\ iv_[0].len = 0 /\ WriteFails
===============================================================================
