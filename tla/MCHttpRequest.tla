--------------------------- MODULE MCHttpRequest ----------------------------
(***************************************************************************)
(* Requests that a client of smartstreaming writes, and some that are not  *)
(* meant for it.                                                           *)
(***************************************************************************)
EXTENDS HttpRequest

Get(dirs, name, params, headers, wants) ==
    [method |-> "GET", dirs |-> dirs, name |-> name, params |-> params,
     headers |-> <<<<"Host: ", "h">>>> \o headers, body |-> <<>>,
     host |-> <<"h">>, wants |-> wants]

\* A POST with a body of its own, and the length that it declares.
Post(length, body) ==
    [Get(<<"a">>, <<"n">>, <<>>, <<<<"Content-Length:", length>>>>, "file")
       EXCEPT !.method = "POST", !.body = body]

Live == <<<<"mode", "=", "live">>>>

MCAsks ==
    {Get(<<"a">>, <<"n", ".", "flv">>, Live, <<>>, "stream"),
     Get(<<"a">>, <<"n">>, <<<<"x", "=">>, <<"mode", "=", "hls">>>>, <<>>, "segment"),
     \* a header before Host
     [Get(<<"a", "b">>, <<"n", ".", "m", ".", "ts">>, <<>>, <<>>, "file")
        EXCEPT !.headers = <<<<"X-Codec: ", "c">>, <<"Host: ", "h">>>>],
     Get(<<"a">>, <<"n">>, <<<<"mode", "=", "hls">>, <<"mode", "=", "%6Cive">>>>, <<>>, "stream"),
     Get(<<"a">>, <<"n">>, <<<<"mode", "=", "live", "=">>>>, <<>>, "file"),
     Get(<<>>, <<"n", ".", "flv">>, Live, <<>>, "stream"),
     Get(<<>>, <<"crossdomain.xml">>, <<>>, <<>>, "file"),
     Get(<<"a">>, <<"n">>, <<>>, <<<<"Referer: ", "r", "?", "s">>>>, "file"),
     Get(<<"a">>, <<"n">>, Live, <<<<"long", "long", "long", "long", "long">>>>, "stream"),
     Get(<<"a">>, <<"n">>, <<>>, <<<<"X: ", "<policy-file-request/>">>>>, "file"),
     \* bodies as long as they are declared, longer, and shorter
     Post("0", <<>>), Post("2", <<"x", "y">>),
     Post("1", <<"x", "y">>), Post("2", <<"x">>),
     Get(<<"a">>, <<"n">>, Live, <<<<"Content-Length:", "9">>>>, "stream"),
     \* no length, lengths below 0, and one where no length is declared
     Post("many", <<"x">>), Post("-1", <<"x">>), Post("-99", <<"x">>),
     Get(<<"a">>, <<"n">>, <<>>, <<<<"Referer: ", "Content-Length:", "2">>>>, "file"),
     \* a second request behind the first
     [Get(<<"a">>, <<"n">>, <<>>, <<>>, "file")
        EXCEPT !.body = <<"GET", " ", "/", "HTTP", "crlf", "crlf">>]}
=============================================================================
