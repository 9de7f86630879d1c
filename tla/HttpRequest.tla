---------------------------- MODULE HttpRequest -----------------------------
(***************************************************************************)
(* How a connection handler reads the request of a client and understands  *)
(* it (protocol/http/http_parser, http_stack and http_server, and the      *)
(* routing in media_source_handler).                                       *)
(*                                                                         *)
(* A text is a sequence of tokens, each for the characters that the code   *)
(* looks for or passes on as one; the sizes count tokens.  The client      *)
(* sends one request, which arrives in pieces cut anywhere, and may close  *)
(* its side at any time.  A read takes what has arrived, as far as the     *)
(* buffer goes.                                                            *)
(***************************************************************************)
EXTENDS Integers, SequencesExt

CONSTANTS
    Asks,       \* what clients may ask for: a record of its words, and of what
                \* they mean: the host, and whether a stream, segment or file
    BuffSize    \* sizeof(buff) in HttpParser::parse_request

\* What a parameter mode=value means to a client: the last one counts.
SetsMode(param) ==
    /\ Len(param) > 1
    /\ SubSeq(param, 1, 2) = <<"mode", "=">>
    /\ "=" \notin Range(SubSeq(param, 3, Len(param)))

Meant(params) ==
    LET modes == {i \in DOMAIN params : SetsMode(params[i])}
        value == SubSeq(params[Max(modes)], 3, Len(params[Max(modes)]))
    IN  IF modes = {} THEN "file"
        ELSE CASE value = <<"hls">> -> "segment"
               [] value \in {<<"live">>, <<"%6Cive">>} -> "stream"
               [] OTHER -> "file"

\* Clients keep to the grammar of HTTP: no word of the head holds a line end,
\* and none of a URL a space; a path is made of the words between its slashes
\* and ends at the question mark, a query of those between its ampersands; no
\* header is empty, and no other header comes before Host with its name in it.
UrlWords == STRING \ {" ", "crlf", "Host: "}

AsksAssumption ==
    \A a \in Asks :
        /\ a.method \in STRING \ {"crlf"}
        /\ a.dirs \in Seq(UrlWords \ {"/", "?"})
        /\ a.name \in Seq(UrlWords \ {"/", "?"})
        /\ a.params \in Seq(Seq(UrlWords \ {"&"}))
        /\ a.headers \in Seq(Seq(STRING \ {"crlf"}) \ {<<>>})
        /\ a.body \in Seq(STRING)
        /\ \E k \in DOMAIN a.headers :
              /\ a.headers[k] = <<"Host: ">> \o a.host
              /\ \A j \in 1 .. k - 1 : "Host: " \notin Range(a.headers[j])
        /\ a.host \in Seq(STRING)
        /\ a.wants = Meant(a.params)

ASSUME RequestAssumption == BuffSize \in Nat \ {0} /\ AsksAssumption

VARIABLES
    ask,        \* what this client asks for
    text,       \* and what it writes for it
    arrived,    \* how much of its text has arrived
    taken,      \* how much of that has been read
    closed,     \* the client has closed its side
    size,       \* size: what the current parse_request has left of buff
    buff,       \* buff up to the NUL
    phase,      \* HttpConnHandler::cycle: "parse", "serve", "drain" or "over"
    req         \* the request that serve_http has been called with

vars == <<ask, text, arrived, taken, closed, size, buff, phase, req>>

----------------------------------------------------------------------------
\* std::string::find and substr, on positions from 1: npos is 0, and a count
\* below 0 has wrapped around, that is, reaches to the end.
npos == 0

find(data, pattern, from) ==
    LET at == {i \in from .. Len(data) - Len(pattern) + 1 :
                 SubSeq(data, i, i + Len(pattern) - 1) = pattern}
    IN  IF at = {} THEN npos ELSE Min(at)

find_last_of(data, token) == SelectLastInSeq(data, LAMBDA t : t = token)

substr(data, from, count) ==
    SubSeq(data, from,
           IF count < 0 \/ from + count - 1 > Len(data) THEN Len(data)
           ELSE from + count - 1)

Has(data, token) == find(data, <<token>>, 1) # npos

\* The decimal numbers that the clients write; what is no number is 0.
atoi(data) == CASE data = <<"1">> -> 1 [] data = <<"2">> -> 2
                [] data = <<"9">> -> 9 [] data = <<"-1">> -> -1
                [] data = <<"-99">> -> -99 [] OTHER -> 0

BlankLine == <<"crlf", "crlf">>

----------------------------------------------------------------------------
\* CHttp::checkHttpInputSimple
HeadIsComplete(data) == find(data, BlankLine, 1) # npos

\* A mutant: >= for >.
BodyIsComplete_NotLast(data) ==
    LET start == find(data, <<"Content-Length:">>, 1) + 1
        eol == find(data, <<"crlf">>, start)
        end == find(data, BlankLine, 1) + 1 + atoi(substr(data, start, eol - start))
    IN  eol # npos /\ HeadIsComplete(data) /\ end \in 1 .. Len(data) - 1

\* CHttp::checkHttpInputWithLength.  The sum is unsigned: one below 0 is larger
\* than any text, one above is taken even when the length is below 0.
BodyIsComplete(data) ==
    LET start == find(data, <<"Content-Length:">>, 1) + 1
        eol == find(data, <<"crlf">>, start)
        end == find(data, BlankLine, 1) + 1 + atoi(substr(data, start, eol - start))
    IN  eol # npos /\ HeadIsComplete(data) /\ end \in 1 .. Len(data)

\* A mutant: any piece will do.
checkRequest_Any(data) == data # <<>>

\* CHttp::checkRequest
checkRequest(data) ==
    IF Has(data, "Content-Length:") THEN BodyIsComplete(data)
    ELSE HeadIsComplete(data)

----------------------------------------------------------------------------
\* split_string: the parts between the separators, none for an empty text.
split_string(data, token) ==
    LET cuts == {0, Len(data) + 1} \cup {i \in DOMAIN data : data[i] = token}
        after(i) == Min({j \in cuts : j > i})
    IN  IF data = <<>> THEN {}
        ELSE {[at |-> i, text |-> SubSeq(data, i + 1, after(i) - 1)] :
                i \in cuts \ {Len(data) + 1}}

url_decode(data) ==
    [i \in DOMAIN data |-> CASE data[i] = "%6Cive" -> "live"
                             [] data[i] = "+" -> " "
                             [] OTHER -> data[i]]

\* params_map["mode"]: the last of the parameters of the form mode=value.
ModeParam(params) ==
    LET pairs == {p \in split_string(params, "&") :
                    /\ Cardinality(split_string(p.text, "=")) = 2
                    /\ Head(p.text) = "mode"
                    /\ p.text[2] = "="}
    IN  IF pairs = {} THEN <<>>
        ELSE LET last == CHOOSE p \in pairs : \A q \in pairs : q.at <= p.at
             IN  url_decode(SubSeq(last.text, 3, Len(last.text)))

\* MediaSource::handle_play: what the request is taken for.
Route(params) ==
    CASE ModeParam(params) = <<"hls">> -> "segment"
      [] ModeParam(params) = <<"live">> -> "stream"
      [] OTHER -> "file"

\* The value of a header, or nothing.
Header(data, header) ==
    LET start == find(data, <<header>>, 1) + 1
        eol == find(data, <<"crlf">>, start)
    IN  IF start = 1 \/ eol = npos THEN <<>>
        ELSE substr(data, start, eol - start)

\* What a Request holds when nothing of the text was understood: is_transcode
\* is copied from a CHttp that has never set it.
Blank == [vhost : {<<>>}, path : {<<>>}, name : {<<>>}, ext : {<<>>},
          is_transcode : BOOLEAN, route : {"file"}]

\* A mutant: path_ ends at " HTTP", with the parameters.
PathEnd_Http(data) == find(data, <<" ", "HTTP">>, 1)

\* Where path_ ends: at the first question mark of the text, wherever it is.
PathEnd(data) ==
    IF Has(data, "?") THEN find(data, <<"?">>, 1)
    ELSE find(data, <<" ", "HTTP">>, 1)

\* CHttp::parseGetRequest.  The folder of a name without one is cut with a
\* length that wraps around, and is the name.
Parsed(data) ==
    LET start == find(data, <<"/">>, 1)
        path == substr(data, start, PathEnd(data) - start)
        after == find(data, <<"?">>, 1) + 1
        params == IF Has(data, "?")
                  THEN substr(data, after,
                              find(data, <<" ", "HTTP">>, 1) - after)
                  ELSE <<>>
        slash == find_last_of(path, "/")
        name == SubSeq(path, slash + 1, Len(path))
        dot == find_last_of(name, ".")
    IN  [vhost |-> Header(data, "Host: "),
         path |-> IF slash = 0 THEN <<>> ELSE substr(path, 2, slash - 2),
         name |-> name,
         ext |-> SubSeq(name, dot + 1, Len(name)),
         is_transcode |-> Has(data, "X-Codec: "),
         route |-> Route(params)]

\* CHttp::parse_request, whose result nobody looks at: a text that is not a
\* GET request is played as a request for nothing.
Understood(data) ==
    IF /\ Has(data, " ")
       /\ substr(data, 1, find(data, <<" ">>, 1) - 1) = <<"GET">>
       /\ ~Has(data, "crossdomain.xml")
       /\ ~Has(data, "<policy-file-request/>")
       /\ Has(data, "/")
       /\ find(data, <<" ", "HTTP">>, 1) # npos
    THEN {Parsed(data)}
    ELSE Blank

----------------------------------------------------------------------------
\* What a client writes for what it asks.
Path(a) == FlattenSeq([i \in DOMAIN a.dirs |-> <<"/", a.dirs[i]>>])
             \o <<"/">> \o a.name

Query(a) ==
    LET tails == FlattenSeq([i \in DOMAIN a.params |-> <<"&">> \o a.params[i]])
    IN  SubSeq(tails, 2, Len(tails))

Text(a) ==
    <<a.method, " ">> \o Path(a)
      \o (IF Query(a) = <<>> THEN <<>> ELSE <<"?">> \o Query(a))
      \o <<" ", "HTTP", "/", "1.1", "crlf">>
      \o FlattenSeq([i \in DOMAIN a.headers |-> a.headers[i] \o <<"crlf">>])
      \o <<"crlf">> \o a.body

NoRequest == [route |-> "none"]

Init ==
    /\ ask \in Asks
    /\ text = Text(ask)
    /\ arrived = 0
    /\ taken = 0
    /\ closed = FALSE
    /\ size = BuffSize
    /\ buff = <<>>
    /\ phase = "parse"
    /\ req = NoRequest

\* More of the text arrives.
Arrive ==
    /\ ~closed
    /\ arrived' \in arrived + 1 .. Len(text)
    /\ UNCHANGED <<ask, text, taken, closed, size, buff, phase, req>>

\* The client closes its side, perhaps before it has sent everything.
Close ==
    /\ ~closed
    /\ closed' = TRUE
    /\ UNCHANGED <<ask, text, arrived, taken, size, buff, phase, req>>

Reading == phase \in {"parse", "drain"}

----------------------------------------------------------------------------
\* parse_request returns with what buff holds, data.  HttpConnHandler::cycle serves
\* it; serve_http, which reads on to notice the end, drops it and reads again.
ParseReturns(data) ==
    /\ size' = BuffSize
    /\ buff' = <<>>
    /\ UNCHANGED <<ask, text, arrived, closed>>
    /\ \/ phase = "parse" /\ phase' = "serve" /\ req' \in Understood(data)
       \/ phase = "drain" /\ UNCHANGED <<phase, req>>

\* parse_request fails, and with it the handler's cycle.
ParseFails ==
    /\ phase' = "over"
    /\ UNCHANGED <<ask, text, arrived, taken, closed, size, buff, req>>

\* A mutant: the read may fill the buffer, with no room for the NUL.
Piece_Full == Min({arrived - taken, size})

\* reader->read(buff, size - 1), when something is there to be read.
Piece == Min({arrived - taken, size - 1})

\* A read returns a piece, which overwrites the one before.
Read ==
    /\ Reading
    /\ Piece > 0
    /\ taken' = taken + Piece
    /\ LET piece == SubSeq(text, taken + 1, taken + Piece)
       IN  IF ~checkRequest(piece)
           THEN /\ buff' = piece
                /\ size' = size - Piece
                /\ UNCHANGED <<ask, text, arrived, closed, phase, req>>
           ELSE ParseReturns(piece)

\* A read returns 0: the client has closed, or nothing is left of the buffer.
ReadsNothing == size = 1 \/ (closed /\ taken = arrived)

\* What was read before the end is parsed, whatever it is.
ReadEnds ==
    /\ Reading
    /\ ReadsNothing
    /\ IF size = BuffSize
       THEN ParseFails
       ELSE ParseReturns(buff) /\ UNCHANGED taken

\* A mutant: the timeout is for a client that has sent nothing.
TimesOut_Unread ==
    /\ phase = "parse"
    /\ Piece = 0 /\ ~ReadsNothing
    /\ size = BuffSize
    /\ ParseFails

\* A read of the first parse_request waits for 3 s only; what was read before
\* is not answered.
TimesOut ==
    /\ phase = "parse"
    /\ Piece = 0 /\ ~ReadsNothing
    /\ ParseFails

\* handle_request returns.  A request that was refused has stopped the
\* connection; otherwise the handler reads on.
Served ==
    /\ phase = "serve"
    /\ phase' \in {"drain", "over"}
    /\ UNCHANGED <<ask, text, arrived, taken, closed, size, buff, req>>

\* An output that ends closes the connection, which interrupts the read.
Interrupted ==
    /\ phase = "drain"
    /\ ParseFails

Next == Arrive \/ Close \/ Read \/ ReadEnds \/ TimesOut \/ Served \/ Interrupted

Spec == Init /\ [][Next]_vars

\* A coroutine whose read can return is run, and a wait with a timeout ends.
\* Nothing says that a handler returns: it may wait for a file for ever (see
\* Connection).
Fairness == WF_vars(Read) /\ WF_vars(ReadEnds) /\ WF_vars(TimesOut)

FairSpec == Spec /\ Fairness

----------------------------------------------------------------------------
\* The buffer of parse_request keeps room for the NUL, and the texts and the
\* counters stay within what was sent.
TypeOK ==
    /\ ask \in Asks
    /\ arrived \in 0 .. Len(text)
    /\ taken \in 0 .. arrived
    /\ closed \in BOOLEAN
    /\ size \in 1 .. BuffSize
    /\ Len(buff) <= BuffSize - size
    /\ phase \in {"parse", "serve", "drain", "over"}
    /\ req = NoRequest \/ req.route \in {"stream", "segment", "file"}

\* The request line up to the blank line.
HeadLength == Len(text) - Len(ask.body)

\* A GET request in the words that parseGetRequest is made for: its file is in
\* a folder, and there is no question mark but the one before the parameters.
Plain ==
    /\ ask.method = "GET" /\ ask.dirs # <<>>
    /\ ~Has(text, "crossdomain.xml")
    /\ ~Has(text, "<policy-file-request/>")
    /\ ~Has(substr(text, find(text, <<"HTTP">>, 1), -1), "?")

Answered == phase = "parse" /\ phase' = "serve"

\* The channel, the file and the mode that are asked for are those that are
\* served, when the head of a plain request arrives in one read: the chain of
\* find and substr in parse_request and handle_play loses nothing of it.
WholeRequestIsUnderstood ==
    [][Answered /\ taken = 0 /\ taken' >= HeadLength /\ Plain =>
         /\ req'.vhost = ask.host
         /\ "/" \notin Range(req'.name) /\ "/" \notin Range(req'.ext)
         /\ Path(ask) = <<"/">> \o req'.path \o <<"/">> \o req'.name
         /\ req'.route = ask.wants]_vars

\* A client that has not sent the blank line yet, and has not closed, is not
\* answered unless it has spent the buffer: checkRequest takes no piece for
\* the end of a head that it is not.
NoEarlyAnswer ==
    [][Answered => closed \/ size = 1 \/ taken' >= HeadLength]_vars

\* The length of the body that a client declares in a header, and whether it
\* has the name of this header nowhere else.
Declares(header) == Head(header) = "Content-Length:"

DeclaredLength(a) ==
    LET declared == SelectSeq(a.headers, Declares)
    IN  IF declared = <<>> THEN 0 ELSE atoi(Tail(declared[1]))

NoStrayLength(a) ==
    Cardinality({i \in DOMAIN Text(a) : Text(a)[i] = "Content-Length:"})
      = Len(SelectSeq(a.headers, Declares))

\* A request that has arrived whole before the first read, and fits the
\* buffer, is served, when it sends at least the body that it declares: one
\* that declares none, or no number, or sends more, as with a second request
\* behind the first, is served as well (checkHttpInputWithLength).  One that
\* declares more than it sends is not.
WholeRequestIsServed ==
    (/\ phase = "parse" /\ size = BuffSize
     /\ arrived = Len(text) /\ arrived < BuffSize
     /\ DeclaredLength(ask) \in 0 .. Len(ask.body) /\ NoStrayLength(ask))
    ~> req # NoRequest

\* The first parse_request comes to an end, whatever length the client
\* declares, less or more than it sends or below 0, wherever its text is cut,
\* and whether or not it closes: no client keeps a handler there for ever.
ParseEnds == phase = "parse" ~> phase # "parse"
=============================================================================
