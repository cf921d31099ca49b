---------------------------- MODULE HttpRequests ----------------------------
(***************************************************************************)
(* One connection of an HTTP server of the gateway: ApiServer              *)
(* (src/api/ApiServer.cpp), which enqueues commands, or WebDashboard       *)
(* (src/platform/WebDashboard.cpp).  Both take a request line and header   *)
(* lines out of the input buffer as they find them, use whatever else the  *)
(* buffer holds as the body, send one response and shut the connection     *)
(* down.  Neither remembers anything between two reads, neither looks at   *)
(* Content-Length: what a request becomes depends on where reads end.      *)
(*                                                                         *)
(* The stream is a sequence of words, quoted strings, CRs and LFs.  A      *)
(* chunk that ends inside a word acts like one that ends before it: the    *)
(* line has no CRLF yet, or the string no closing quote.                   *)
(***************************************************************************)
EXTENDS Integers, Sequences, SequencesExt, FiniteSetsExt

CONSTANTS
  Text,          \* what words and quoted strings may say
  MaxLong,       \* the largest number std::stoll returns
  Conversations  \* what a client may send: sequences of requests

\* The two routes that take every path with their prefix.
DevicePath  == "/api/v1/device/"
CommandPath == "/api/v1/commands/"

\* A path that goes on behind such a prefix is not a text of its own: what
\* follows the prefix is the id of the token, character by character.
ASSUME TextAssumption ==
  /\ {"", "{}", "HTTP/1.1"} \subseteq Text
  /\ \A t \in Text, p \in {DevicePath, CommandPath} : IsPrefix(p, t) => t = p
  /\ MaxLong \in Nat

\* A token: a word, a quoted string, a path with an id, or half a CRLF.  The
\* characters of an id are the digits 0 to 9, the signs and others.
Word(w) == [kind |-> "word", text |-> w, id |-> << >>]
Str(s)  == [kind |-> "str",  text |-> s, id |-> << >>]
IdPath(w, chars) == [kind |-> "word", text |-> w, id |-> chars]
Digit == 0 .. 9
Minus == 10
Plus == 11
CR == [kind |-> "cr", text |-> "", id |-> << >>]
LF == [kind |-> "lf", text |-> "", id |-> << >>]

\* A request as the client means it; body is a sequence of quoted strings.
Encode(r) ==
  <<Word(r.method), r.path, Word("HTTP/1.1"), CR, LF>>
    \o r.headers \o <<CR, LF>> \o r.body

VARIABLES
  server,    \* "api" or "dashboard"
  requests,  \* what the client sends on this connection
  received,  \* how many tokens of it have been read
  split,     \* history: a read ended inside the first request
  covered,   \* history: where the read ended that completed it, 0 before
  input,     \* readable part of inputBuffer_
  state,     \* TcpConnection::state_, "terminated" when the process has ended
  output,    \* what was sent, "fin" last
  enqueued   \* commands handed to GatewayServer::enqueueCommand

vars == <<server, requests, received, split, covered, input, state, output, enqueued>>

Stream == FlattenSeq([i \in DOMAIN requests |-> Encode(requests[i])])

Init ==
  /\ server \in {"api", "dashboard"}
  /\ requests \in Conversations
  /\ received = 0 /\ split = FALSE /\ covered = 0
  /\ input = << >>
  /\ state = "connected"
  /\ output = << >>
  /\ enqueued = << >>

-----------------------------------------------------------------------------
(* Reading a request *)

\* Where the lines of b end: the places of its CRLFs.
CRLFs(b) == {i \in 1 .. Len(b) - 1 : b[i] = CR /\ b[i + 1] = LF}

\* The empty line that ends the headers: it follows another line's end.
BlankLines(b) == {i \in CRLFs(b) : i - 2 \in CRLFs(b)}

From(b, i) == SubSeq(b, i, Len(b))

\* Lines are retrieved one by one; without an empty line the handler returns
\* and what it has retrieved is gone.
Unfinished(b) == IF CRLFs(b) = {} THEN b ELSE From(b, Max(CRLFs(b)) + 2)

\* The words of the request line.
RequestLine(b) == SubSeq(b, 1, Min(CRLFs(b)) - 1)
Method(b) == IF Len(RequestLine(b)) >= 1 THEN RequestLine(b)[1] ELSE Word("")
Path(b)   == IF Len(RequestLine(b)) >= 2 THEN RequestLine(b)[2] ELSE Word("")

\* Variant: the body starts at the empty line that ends the buffer's lines.
BodyAfterLastLine(b) == From(b, Max(CRLFs(b)) + 2)

\* All that follows the empty line.
Body(b) == From(b, Min(BlankLines(b)) + 2)

-----------------------------------------------------------------------------
(* What clients send *)

Token == [kind : {"word", "str", "cr", "lf"}, text : Text, id : Seq(Nat)]
Keys == {"device_id", "command", "params"}

PostLine == <<Word("POST"), Word("/api/v1/commands")>>
IsPost(r) == <<Word(r.method), r.path>> = PostLine

\* Whole lines, none of them empty; no line looks like the request line of a
\* POST, and no header value is a quoted key.
HeaderLines(h) ==
  /\ h # << >> => 1 \notin CRLFs(h) /\ Len(h) - 1 \in CRLFs(h)
  /\ BlankLines(h) = {}
  /\ \A i \in 1 .. Len(h) - 1 : <<h[i], h[i + 1]>> # PostLine
  /\ \A i \in 1 .. Len(h) : h[i].kind = "str" => h[i].text \notin Keys

\* The strings of a JSON object: keys and values, a value last.
JsonStrings(body) ==
  /\ \A i \in 1 .. Len(body) : body[i].kind = "str"
  /\ body # << >> => body[Len(body)].text \notin Keys

Requests ==
  {r \in [method : Text, path : Token, headers : Seq(Token), body : Seq(Token)] :
     /\ r.path.kind = "word" /\ HeaderLines(r.headers) /\ JsonStrings(r.body)
     /\ r.path.id # << >> => r.path.text \in {DevicePath, CommandPath}}

ASSUME ConversationAssumption == Conversations \subseteq Seq(Requests) \ {<< >>}

-----------------------------------------------------------------------------
(* ApiServer *)

Reply(status, about, id) == [status |-> status, about |-> about, id |-> id]

\* The quoted strings that have another one behind them and read key.
KeyPlaces(body, key) ==
  LET strs == {i \in DOMAIN body : body[i].kind = "str"}
  IN  {i \in strs : body[i].text = key /\ \E j \in strs : j > i}

\* The quoted string behind place i.
NextStr(body, i) == body[Min({j \in DOMAIN body : j > i /\ body[j].kind = "str"})].text

\* Variant: the last occurrence of the key counts.
ExtractLastJsonStr(body, key) ==
  LET at == KeyPlaces(body, key)
  IN  IF at = {} THEN "" ELSE NextStr(body, Max(at))

\* The quoted string after the first quoted key, wherever that stands.
ExtractJsonStr(body, key) ==
  LET at == KeyPlaces(body, key)
  IN  IF at = {} THEN "" ELSE NextStr(body, Min(at))

\* handlePostCommand: the command it takes out of a body; params default to {}.
Posted(body) ==
  LET params == ExtractJsonStr(body, "params")
  IN  [device  |-> ExtractJsonStr(body, "device_id"),
       command |-> ExtractJsonStr(body, "command"),
       params  |-> IF params = "" THEN "{}" ELSE params]

Missing(c) == c.device = "" \/ c.command = ""

HandlePostCommand(body) ==
  LET c == Posted(body)
  IN  IF Missing(c) THEN [reply |-> Reply(400, "missing", << >>), commands |-> << >>]
      ELSE [reply |-> Reply(200, c.device, << >>), commands |-> <<c>>]

\* The GET routes with a fixed path.  The device count and the cluster
\* statistics come from the gateway.
ApiPages == {"/api/v1/devices", "/api/v1/stats", "/api/v1/cluster",
             "/api/v1/nodes", "/api/v1/health"}

\* What std::stoll reads of s: a sign if there is one, then digits, up to the
\* first other character.
Unsigned(s) == IF s # << >> /\ s[1] \in {Minus, Plus} THEN Tail(s) ELSE s
Digits(s) ==
  LET u == Unsigned(s)
  IN  SubSeq(u, 1, Min({i \in 0 .. Len(u) : i = Len(u) \/ u[i + 1] \notin Digit}))
AppendDigit(value, digit) == 10 * value + digit
Magnitude(s) == FoldLeft(AppendDigit, 0, Digits(s))
Negative(s) == s # << >> /\ s[1] = Minus

\* It throws when there is no digit, or when the number does not fit.
StollThrows(s) ==
  \/ Digits(s) = << >>
  \/ Magnitude(s) > IF Negative(s) THEN MaxLong + 1 ELSE MaxLong
Stoll(s) == IF Negative(s) THEN 0 - Magnitude(s) ELSE Magnitude(s)

\* handleGetDeviceDetail, handleGetCommandStatus: the gateway sets neither
\* callback, the status is "unknown".  The id is cut at position 18 of a path
\* whose prefix has 17 characters: its first character is lost.
HandleGet(path) ==
  CASE path.text \in ApiPages    -> Reply(200, path.text, << >>)
    [] path.text = DevicePath    -> Reply(200, path.text, path.id)
    [] path.text = CommandPath   -> Reply(200, path.text, <<Stoll(Tail(path.id))>>)
    [] OTHER                     -> Reply(404, "not found", << >>)

\* substr throws when nothing follows the prefix, std::stoll when what is left
\* is no number; nobody catches it, and the process ends.
Throws(method, path) ==
  /\ method = Word("GET") /\ path.text = CommandPath
  /\ path.id = << >> \/ StollThrows(Tail(path.id))

\* The routes of ApiServer::handleHttpRequest.
ApiRoute(method, path, body) ==
  CASE method = Word("POST") /\ path = Word("/api/v1/commands") ->
         HandlePostCommand(body)
    [] method = Word("GET") -> [reply |-> HandleGet(path), commands |-> << >>]
    [] OTHER -> [reply |-> Reply(404, "not found", << >>), commands |-> << >>]

-----------------------------------------------------------------------------
(* WebDashboard: the method does not matter and there is no body. *)

DashboardPages == {"/", "/dashboard", "/index.html", "/api/dashboard/devices",
                   "/api/dashboard/cluster", "/api/dashboard/alerts"}
DashboardRoute(path) ==
  IF path.text \in DashboardPages THEN Reply(200, path.text, << >>)
                                  ELSE Reply(404, "not found", << >>)

-----------------------------------------------------------------------------
Part(part, reply) == [part |-> part, of |-> reply]

\* Variant: shutdown comes before the body, which is then not sent.
SendBodyLate(reply) ==
  IF state = "connected"
    THEN /\ output' = output \o <<Part("head", reply), Part("fin", reply)>>
         /\ state' = "disconnecting"
    ELSE UNCHANGED <<output, state>>

\* sendHttpResponse: header, body, shutdown.  On a connection that is already
\* being shut down, all three do nothing.
SendHttpResponse(reply) ==
  IF state = "connected"
    THEN /\ output' = output \o [i \in 1 .. 3 |-> Part(<<"head", "body", "fin">>[i], reply)]
         /\ state' = "disconnecting"
    ELSE UNCHANGED <<output, state>>

\* ApiServer::onMessage, handleHttpRequest; b is the buffer after the read.
ApiHandlesRequest(b) ==
  LET out == ApiRoute(Method(b), Path(b), Body(b))
  IN  /\ server = "api" /\ BlankLines(b) # {}
      /\ input' = << >>
      /\ IF Throws(Method(b), Path(b))
           THEN state' = "terminated" /\ UNCHANGED <<output, enqueued>>
           ELSE SendHttpResponse(out.reply) /\ enqueued' = enqueued \o out.commands

\* WebDashboard::onMessage, handleHttpRequest.
DashboardHandlesRequest(b) ==
  /\ server = "dashboard" /\ BlankLines(b) # {}
  /\ input' = << >>
  /\ SendHttpResponse(DashboardRoute(Path(b)))
  /\ UNCHANGED enqueued

\* Either handler returns early.
NoWholeHeader(b) ==
  /\ BlankLines(b) = {}
  /\ input' = Unfinished(b)
  /\ UNCHANGED <<state, output, enqueued>>

\* The first request on this connection: where its request line and where it
\* itself ends in the stream.
FirstLineEnd == Min(CRLFs(Stream)) + 1
FirstEnd == Len(Encode(requests[1]))

\* TcpConnection::handleRead gets the next tokens up to end.  A connection that
\* is being shut down is still read.
HandleRead(end) ==
  LET b == input \o SubSeq(Stream, received + 1, end)
  IN  /\ state # "terminated"
      /\ received' = end
      /\ split' = (split \/ end \in FirstLineEnd .. FirstEnd - 1)
      /\ covered' = IF covered = 0 /\ end >= FirstEnd THEN end ELSE covered
      /\ \/ ApiHandlesRequest(b)
         \/ DashboardHandlesRequest(b)
         \/ NoWholeHeader(b)
      /\ UNCHANGED <<server, requests>>

Next == \E end \in received + 1 .. Len(Stream) : HandleRead(end)

Spec == Init /\ [][Next]_vars

-----------------------------------------------------------------------------
(* Properties *)

\* The answer to a request that is alone on its connection.
AnswerTo(r) ==
  IF server = "api" THEN ApiRoute(Word(r.method), r.path, r.body).reply
                    ELSE DashboardRoute(r.path)

\* What the first request needs to be answered as if it were alone: nothing
\* came with it, or it is no POST that leaves a key out.
SelfContained ==
  \/ covered = FirstEnd
  \/ IsPost(requests[1]) => \A key \in Keys : ExtractJsonStr(requests[1].body, key) # ""

AnsweredAlone(r) ==
  IF server = "api" /\ Throws(Word(r.method), r.path)
    THEN state = "terminated" /\ output = << >>
    ELSE /\ Len(output) = 3
         /\ \A i \in 1 .. 3 : output[i].of = AnswerTo(r)
         /\ server = "api" /\ IsPost(r) /\ ~Missing(Posted(r.body)) =>
              enqueued # << >> /\ enqueued[1] = Posted(r.body)

\* A request that no read cuts after its request line is answered as if it had
\* come alone, whatever follows it on the connection, in the same read or
\* later: with the status and content of its own route, and its command is the
\* first to be enqueued.  Only a POST that leaves a key out, read together with
\* what follows it, is exempt: it takes the key from there.
WholeRequestAnswered ==
  covered # 0 /\ ~split /\ SelfContained => AnsweredAlone(requests[1])

\* However requests are split, joined or repeated on a connection, at most one
\* response leaves it: one header, the body that belongs to it, then the FIN.
OneAnswer ==
  \/ output = << >> /\ state # "disconnecting"
  \/ /\ Len(output) = 3
     /\ [i \in 1 .. 3 |-> output[i].part] = <<"head", "body", "fin">>
     /\ output[1].of = output[2].of
     /\ state # "connected"

CompletePosts == \A r \in ToSet(requests) : IsPost(r) => ~Missing(Posted(r.body))

\* Command c is the one that request k posts, its parameters aside: those may
\* be gone or, when the POST has none, be those of a later request.
TakenFrom(c, k) ==
  LET own == Posted(requests[k].body)
      later == {Posted(requests[j].body).params : j \in k + 1 .. Len(requests)}
  IN  /\ IsPost(requests[k])
      /\ \E p \in {own.params, "{}"} \cup IF own.params = "{}" THEN later ELSE {} :
           c = [own EXCEPT !.params = p]

\* f tells from which request each command was taken, no two from one.
TakenInOrder(f) ==
  /\ \A i, j \in DOMAIN enqueued : i < j => f[i] < f[j]
  /\ \A i \in DOMAIN enqueued : TakenFrom(enqueued[i], f[i])

\* Reads that end anywhere never make a command up: each command was posted,
\* device and command in one body, each POST enqueues once at most, and in the
\* order they were sent.  Only parameters may be wrong: gone when a read ends
\* before them, and those of a later request when the POST has none.  This
\* takes POSTs that name their device and command.
EnqueuedWasPosted ==
  CompletePosts => \E f \in [DOMAIN enqueued -> DOMAIN requests] : TakenInOrder(f)

-----------------------------------------------------------------------------
(* What the induction needs *)

Commands == [device : Text, command : Text, params : Text]

TypeOK ==
  /\ server \in {"api", "dashboard"} /\ requests \in Conversations
  /\ received \in Nat /\ covered \in Nat /\ split \in BOOLEAN
  /\ input \in Seq(Token)
  /\ state \in {"connected", "disconnecting", "terminated"}
  /\ enqueued \in Seq(Commands)

\* b is what the stream holds before its token end.
TailOf(b, end) ==
  /\ Len(b) <= end /\ end <= Len(Stream)
  /\ \A i \in 1 .. Len(b) : b[i] = Stream[end - Len(b) + i]

\* The buffer holds the last tokens that were read.
InputIsTail == TailOf(input, received)

\* Until a read has got past the first request line, nothing has happened, and
\* the read that gets to the end of the first request answers it.
FirstReads ==
  ~split => IF covered = 0
              THEN /\ received < FirstLineEnd /\ Len(input) = received
                   /\ state = "connected" /\ output = << >> /\ enqueued = << >>
              ELSE state # "connected"

\* Where request k starts in the stream.
StartOf(k) == Len(FlattenSeq([i \in 1 .. k - 1 |-> Encode(requests[i])]))

\* The commands were taken from requests that start before place z.
TakenBefore(z) ==
  \E f \in [DOMAIN enqueued -> DOMAIN requests] :
    TakenInOrder(f) /\ \A i \in DOMAIN enqueued : StartOf(f[i]) < z

\* A POST whose command was taken is no longer in the buffer.
TakenIsGone == CompletePosts => TakenBefore(received - Len(input))
=============================================================================
