----------------------------- MODULE MCHttpConn -----------------------------
(* Instances of HttpConn for TLC. *)
EXTENDS HttpConn

MCContentLength == [len1 |-> 1, len2 |-> 2]

Request(line, headers, body) == [line |-> line, headers |-> headers, body |-> body]

\* The last one but two just fills a buffer of 13, the last one overflows it.
MCMessages ==
    {Request("get", <<"alive">>, <<>>),
     Request("post", <<"len2">>, <<"b", "c">>),
     Request("junk", <<>>, <<>>),
     Request("lf", <<>>, <<>>),
     Request("post", <<"alive", "len2">>, <<"b", "c">>),
     Request("get", <<"other", "alive", "other">>, <<>>)}

============================================================================
