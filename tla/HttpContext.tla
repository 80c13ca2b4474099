------------------------------ MODULE HttpContext ------------------------------
(***************************************************************************)
(* HttpContext, HttpRequest::parse and HttpResponse::MakeResponse          *)
(* (src/http): what the server answers to the bytes of one connection.     *)
(* HttpServer::message_cb hands the context whatever one read of the       *)
(* socket brought, and sends what it wrote.                                *)
(*                                                                         *)
(* Bytes come as pieces that a read may separate: the two parts of a       *)
(* request line ("r1" ends before the second blank), of a header ("h1"     *)
(* ends before the colon) and of a body ("b1", "b2"), and the bytes "cr"   *)
(* and "lf".  A piece carries the number of its request and its place in   *)
(* it.  Header values other than the content type of a form, and with them *)
(* the keep-alive line of the answer, are left out: nothing else depends   *)
(* on them.                                                                *)
(***************************************************************************)
EXTENDS Integers, Sequences, SequencesExt

CONSTANTS Requests,    \* the requests [method, path] the client may send
          FileStat,    \* [paths -> {"ok", "private", "dir"}]: what stat() finds; else nothing
          MaxRequests  \* bound: requests on one connection

VARIABLES readBuff_, \* pieces received and not retrieved
          wire,      \* pieces sent and not read
          requests,  \* history: the requests sent, in order
          answer,    \* the last response
          verified,  \* the calls of UserVerify: request, and whether with its whole body
          whole      \* history: every read so far brought exactly one request

httpVars == <<readBuff_, wire, requests, answer, verified, whole>>

Paths == DOMAIN FileStat

ASSUME HttpAssumption ==
  /\ \A req \in Requests : req.method \in {"GET", "POST"} /\ req.path \in STRING
  /\ "" \in Paths /\ FileStat[""] = "dir" \* srcDir itself
  /\ \A page \in {"/welcome.html", "/error.html"} : page \in Paths /\ FileStat[page] = "ok"
  /\ MaxRequests \in Nat

(* The pieces of req, the request number r: request line, one header, blank line, and the body of
   a form, which ends without a line end. *)
Pieces(req, r) ==
  LET kinds == <<"r1", "r2", "cr", "lf", "h1", "h2", "cr", "lf", "cr", "lf", "b1", "b2">>
  IN [i \in 1..(IF req.method = "POST" THEN 12 ELSE 10) |-> [k |-> kinds[i], r |-> r, n |-> i]]

DEFAULT_HTML == {"/index", "/register", "/login", "/welcome", "/video", "/picture"}
DEFAULT_HTML_TAG == {"/register.html", "/login.html"}

ParsePath_(path) ==
  IF path = "/" THEN "/index.html"
  ELSE IF path \in DEFAULT_HTML THEN path \o ".html"
  ELSE path

-------------------------------------------------------------------------------
(* HttpRequest::parse.  The request under construction is the record
   [state, post, path, form, buf, call, ok, done]: post is method_ = "POST", form
   that the content type is known, buf what is left in the buffer, call the call
   of UserVerify, ok what parse returns once its loop is done.               *)

Kinds(line) == [i \in DOMAIN line |-> line[i].k]

(* search(...): where the first CRLF begins, or the end of the buffer. *)
LineEnd(buf) ==
  LET at == {i \in 1..(Len(buf) - 1) : buf[i].k = "cr" /\ buf[i + 1].k = "lf"}
  IN Min(at \cup {Len(buf) + 1})

(* Fault: the pattern allows only letters in the method. *)
RequestLineAt_Letters(line) ==
  {i \in {1} : Len(line) > 1 /\ line[1].k = "r1" /\ line[2].k = "r2"}

(* The pattern of the request line: method, path and HTTP/version between two
   blanks.  A body has no blanks, so one that was left in the buffer becomes part
   of the method; a stray CR becomes part of the version. *)
RequestLineAt(line) ==
  {i \in 1..(Len(line) - 1) :
     /\ line[i].k = "r1" /\ line[i + 1].k = "r2"
     /\ \A j \in DOMAIN line \ {i, i + 1} : line[j].k \in {"b1", "b2", "cr", "lf"}}

(* The pattern of a header: a name, a colon (in "h2") and a value, which holds no
   CR or LF. *)
IsHeader(line) ==
  \E i \in DOMAIN line : line[i].k = "h2"
    /\ \A j \in DOMAIN line : (j > i => line[j].k \notin {"cr", "lf"})

(* ParseRequestLine_ and ParsePath_ on a line that matches at i. *)
ParseRequestLine_(q, line) ==
  LET i == Min(RequestLineAt(line))
      req == requests[line[i].r]
  IN [q EXCEPT !.state = "HEADERS", !.path = ParsePath_(req.path),
               !.post = (i = 1 /\ req.method = "POST")]

(* At most two bytes are left: a line end, the line in hand included. *)
AtMostTwoBytes(buf) == Len(buf) <= 2 /\ \A i \in DOMAIN buf : buf[i].k \in {"cr", "lf"}

(* ParseHeader_, and FINISH when nothing but the line end is left. *)
ParseHeader_(q, line) ==
  [q EXCEPT !.form = @ \/ Kinds(line) = <<"h1", "h2">>,
            !.state = IF AtMostTwoBytes(q.buf) THEN "FINISH"
                      ELSE IF IsHeader(line) THEN @ ELSE "BODY"]

(* ParseBody_ and ParsePost_: a form for the login or the register
   page goes to UserVerify. *)
ParseBody_(q, line) ==
  LET verify == q.post /\ q.form /\ q.path \in DEFAULT_HTML_TAG IN
  [q EXCEPT !.state = "FINISH",
            !.call = IF verify THEN <<[r |-> line[1].r, all |-> Kinds(line) = <<"b1", "b2">>]>>
                     ELSE @]

ParseLine(q, line) ==
  CASE q.state = "REQUEST_LINE" -> ParseRequestLine_(q, line)
    [] q.state = "HEADERS" -> ParseHeader_(q, line)
    [] q.state = "BODY" -> ParseBody_(q, line)

(* buff.retrieve_unitil(lineEnd + 2). *)
Retrieve(q, end) == [q EXCEPT !.buf = SubSeq(@, end + 2, Len(@))]

(* One round of the loop of parse.  A request line that does not match ends it and
   stays in the buffer; so does a last line without CRLF, after it has been parsed. *)
Round(q) ==
  LET end == LineEnd(q.buf)
      line == SubSeq(q.buf, 1, end - 1)
  IN IF q.done THEN q
     ELSE IF q.buf = <<>> \/ q.state = "FINISH" THEN [q EXCEPT !.done = TRUE, !.ok = TRUE]
     ELSE IF q.state = "REQUEST_LINE" /\ RequestLineAt(line) = {} THEN [q EXCEPT !.done = TRUE]
     ELSE IF end > Len(q.buf) THEN [ParseLine(q, line) EXCEPT !.done = TRUE, !.ok = TRUE]
     ELSE Retrieve(ParseLine(q, line), end)

(* request_.Init(), then parse: a round that does not end the loop retrieves a line,
   so there are at most Len(buf) + 1. *)
parse(buf) ==
  LET init == [state |-> "REQUEST_LINE", post |-> FALSE, path |-> "", form |-> FALSE,
               buf |-> buf, call |-> <<>>, ok |-> FALSE, done |-> FALSE]
      after[i \in 0..(Len(buf) + 1)] == IF i = 0 THEN init ELSE Round(after[i - 1])
  IN after[Len(buf) + 1]

-------------------------------------------------------------------------------
(* HttpResponse::MakeResponse: the code and the file that is sent.  The page of an
   error takes the place of the file; 400 stands only if srcDir were a file. *)
MakeResponse(path, code) ==
  LET stat == IF path \in Paths THEN FileStat[path] ELSE "none"
      c == IF stat \in {"none", "dir"} THEN 404 ELSE IF stat = "private" THEN 403 ELSE code
  IN [code |-> c,
      path |-> CASE c = 404 -> "/404.html" [] c = 403 -> "/403.html"
                 [] c = 400 -> "/400.html" [] OTHER -> path]

(* UserVerify (module UserVerify) decides between two pages. *)
PagesAfter(q) == IF q.call # <<>> THEN {"/welcome.html", "/error.html"} ELSE {q.path}

(* Fault: a request that is not finished is left in the buffer from its start. *)
Left_FromStart(q, buf) == IF q.buf = <<>> THEN <<>> ELSE buf

(* What parse leaves: the lines it has retrieved are gone for the next read. *)
Left(q, buf) == q.buf

(* HttpContext::read and process with the bytes of one read, then write. *)
Read(n) ==
  LET buf == readBuff_ \o SubSeq(wire, 1, n)
      q == parse(buf)
  IN
  /\ readBuff_' = Left(q, buf)
  /\ wire' = SubSeq(wire, n + 1, Len(wire))
  /\ \E page \in PagesAfter(q) :
       answer' = IF q.ok THEN MakeResponse(page, 200) ELSE MakeResponse("", 400)
  /\ verified' = verified \o q.call
  /\ whole' = (whole /\ SubSeq(wire, 1, n) = Pieces(requests[wire[1].r], wire[1].r))
  /\ UNCHANGED requests

(* The client sends its next request, with or without waiting for an answer. *)
Send(req) ==
  /\ Len(requests) < MaxRequests
  /\ requests' = Append(requests, req)
  /\ wire' = wire \o Pieces(req, Len(requests'))
  /\ UNCHANGED <<readBuff_, answer, verified, whole>>

NoAnswer == [code |-> 0, path |-> ""]

HttpInit ==
  /\ readBuff_ = <<>> /\ wire = <<>> /\ requests = <<>>
  /\ answer = NoAnswer /\ verified = <<>> /\ whole = TRUE

HttpNext ==
  \/ \E req \in Requests : Send(req)
  \/ \E n \in 1..Len(wire) : Read(n)

HttpSpec == HttpInit /\ [][HttpNext]_httpVars

-------------------------------------------------------------------------------
HttpTypeOK ==
  /\ requests \in Seq(Requests) /\ Len(requests) <= MaxRequests
  /\ answer.code \in {0, 200, 400, 403, 404}
  /\ Len(verified) <= Len(requests) /\ whole \in BOOLEAN

(* The number of the last request read, while reads bring whole requests. *)
LastRead == IF wire = <<>> THEN Len(requests) ELSE wire[1].r - 1

Forms(upto) == {r \in 1..upto : requests[r].method = "POST"}

(* While every read brings one request, every GET is answered with its own page
   or the right error, also after a form whose body the parser left in the buffer
   (httprequest.cc:69); the first form is verified with its whole body; and nothing
   else stays in the buffer. *)
WholeRequestsAnswered ==
  (whole /\ answer # NoAnswer) =>
    LET r == LastRead
        path == ParsePath_(requests[r].path)
    IN /\ requests[r].method = "GET" => answer = MakeResponse(path, 200)
       /\ Forms(r) = {r} /\ path \in DEFAULT_HTML_TAG =>
            /\ answer.path \in {"/welcome.html", "/error.html"}
            /\ Last(verified) = [r |-> r, all |-> TRUE]
       /\ Kinds(readBuff_) \in {<<>>, <<"b1", "b2">>}

(* However the bytes are cut into reads, and with requests in the pipeline, a form
   is verified at most once and nothing but a form is (httprequest.cc:145): a
   registration is not repeated although parsing starts over with every read. *)
VerifiedAtMostOnce ==
  /\ \A i \in DOMAIN verified : requests[verified[i].r].method = "POST"
  /\ \A i, j \in DOMAIN verified : verified[i].r = verified[j].r => i = j
===============================================================================
