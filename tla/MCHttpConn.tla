-------------------------------- MODULE MCHttpConn --------------------------------
(***************************************************************************)
(* HttpConn for TLC: what clients send.                                    *)
(***************************************************************************)
EXTENDS HttpConn

MapFailed == -1

End == <<CR, LF>>

\* Complete requests, with and without a body; one with a negative length; one
\* behind the other; wrong ones; and one that is longer than the buffer.
ClientStreams == {
    <<"GET">> \o End \o End,
    <<"GET">> \o End \o <<"keep-alive">> \o End \o End \o <<"GET">> \o End \o End,
    <<"POST">> \o End \o <<"length 2">> \o End \o End \o <<"a", "b">>,
    <<"POST">> \o End \o <<"length 2">> \o End \o End \o End,
    <<"POST">> \o End \o <<"length 2">> \o End \o <<"length 1">> \o End \o <<"keep-alive">>
        \o End \o End \o <<"a">>,
    <<"POST">> \o End \o <<"length -1">> \o End \o End \o <<"a">>,
    <<"GET">> \o End \o <<"length 0">> \o End \o <<"host">> \o End \o End,
    <<"host">> \o End \o End,
    <<"GET", "GET">> \o End,
    <<"GET", CR, "host">> \o End,
    <<"GET">> \o End \o <<LF>> \o End,
    <<CR, LF, CR, LF>> }
===============================================================================
