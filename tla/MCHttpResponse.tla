----------------------------- MODULE MCHttpResponse -----------------------------
(* Instances of HttpResponse for TLC.                                            *)
EXTENDS HttpResponse, TLC

Field(k, v) == [key |-> k, value |-> v]
Chunk(s, d) == [size |-> s, data |-> d]
Data(n) == [i \in 1..n |-> IF i % 2 = 0 THEN "0" ELSE "x"]
MCNumber == ("3" :> 3) @@ ("4" :> 4)

Chunked == Field("Transfer-Encoding", <<"chunked">>)
Gzip == Field("Content-Encoding", <<"gzip">>)
Server == Field("Server", <<"nginx", COLON, SP, "unix">>)

\* Chunk data that looks like size lines and line ends; a size of two digits; a plain body; a
\* compressed one that fills its buffer exactly; one that ends with the connection; an error
MCResponses == {
    [code |-> "200", fields |-> <<Server, Chunked>>, chunked |-> TRUE,
     pieces |-> <<Chunk(<<"3">>, <<"0", CR, LF>>), Chunk(<<"1", "1">>, Data(17)),
                  Chunk(<<"A", SP>>, Data(10))>>],
    [code |-> "200", fields |-> <<Chunked, Gzip>>, chunked |-> TRUE,
     pieces |-> <<Chunk(<<"2">>, <<"x", "0">>), Chunk(<<"2">>, <<"y", "z">>)>>],
    [code |-> "200", fields |-> <<Gzip, Chunked>>, chunked |-> TRUE,
     pieces |-> <<Chunk(<<"2">>, <<"x", "bad">>)>>],
    [code |-> "200", fields |-> <<Field("Content-Length", <<"4">>)>>, chunked |-> FALSE,
     pieces |-> <<Chunk(<<>>, <<CR, LF, "x", "0">>)>>],
    [code |-> "200", fields |-> <<Field("Content-Length", <<"3">>), Gzip>>, chunked |-> FALSE,
     pieces |-> <<Chunk(<<>>, <<"x", "y", "z">>)>>],
    [code |-> "200", fields |-> <<Server, Field("Vary", <<SP, "none">>)>>, chunked |-> FALSE,
     pieces |-> <<Chunk(<<>>, Data(3))>>],
    [code |-> "404", fields |-> <<Chunked>>, chunked |-> TRUE, pieces |-> <<>>]}
===============================================================================
