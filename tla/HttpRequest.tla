----------------------------- MODULE HttpRequest -----------------------------
(***************************************************************************)
(* A request to the location with "ups_mgr", from the content handler to   *)
(* its end: ngx_http_dyn_upstream_handler, the body that nginx reads and   *)
(* ngx_dyups_body_handler takes, the method that json_rpc finds, the       *)
(* reply, and the references that keep the request (count of               *)
(* ngx_http_request_t).                                                    *)
(*                                                                         *)
(* nginx calls the body handler on the stack of the content handler when   *)
(* the body came with the header, and from an event otherwise.  What a     *)
(* method does to the upstreams is module UpsRpc.                          *)
(***************************************************************************)
EXTENDS MethodTable

CONSTANTS
    MaxParts,  \* bound: the length of a body, in parts
    Null,      \* the NULL pointer
    NGX_OK, NGX_ERROR, NGX_DONE  \* the results that are not an HTTP status

Status == {200, 204, 400, 405, 408, 500}

ASSUME HttpAssumption ==
    /\ MaxParts \in Nat \ {0}
    /\ Null \notin Nat \cup {NGX_OK, NGX_ERROR, NGX_DONE}
    /\ {NGX_OK, NGX_ERROR, NGX_DONE} \cap Status = {}
    /\ NGX_OK # NGX_ERROR /\ NGX_OK # NGX_DONE /\ NGX_ERROR # NGX_DONE

VARIABLES
    req,     \* the request: verb, framing, length and contents of the body
    stage,   \* what runs, or is waited for
    ret,     \* what the content handler returns to nginx, Null before it
             \* does and after nginx has taken it
    refs,    \* count: the references to the request; 0 when it is freed
    owner,   \* who goes on with the request: "handler", "writer", "closer"
             \* (a posted ngx_http_terminate_handler) or "nobody"
    text,    \* how many parts of the body are parsed, or Null
    reply,   \* the status, code and message of the buffer that is sent
    answers, \* the statuses sent for this request
    ran,     \* the methods called for this request that had the memory they
             \* begin with, and went through "params"
    touched  \* the request was used after it was freed

life == << ret, refs, owner >>
work == << text, reply, ran >>
vars == << req, stage, life, work, answers, touched >>

Reply(status, code) ==
    [status |-> status, code |-> code, msg |-> ups_errmsg(code)]

\* A method that was called writes its own code and message.
Result(code, msg) == [status |-> 200, code |-> code, msg |-> msg]

NoReply == [status |-> 0, code |-> 0, msg |-> "none"]

\* ends is the part in which a JSON object that begins the body is complete,
\* or 0; method is the string it gives as "method", or NoMethod if there is
\* none or "params" is no array.
Requests ==
    { r \in [verb : {"POST", "GET", "HEAD", "other"},
             framing : {"length", "chunked"}, parts : 0 .. MaxParts,
             ends : 0 .. MaxParts, method : Range(Strings) \cup {NoMethod}] :
        /\ r.ends <= r.parts
        /\ r.ends = 0 => r.method = NoMethod }

NoRequest == [verb |-> "POST", framing |-> "length", parts |-> 0, ends |-> 0,
              method |-> NoMethod]

Freed == refs = 0

\* What every statement that follows a pointer into the request does.
Use == touched' = (touched \/ Freed)

-----------------------------------------------------------------------------
(***************************************************************************)
(* nginx: ngx_http_finalize_request and what it leads to.                  *)
(***************************************************************************)

\* One reference is given back; the last one frees the request.
Release == refs' = refs - 1 /\ owner' = "nobody"

\* The rest of a reply waits for the client and keeps the reference.
Pend == owner' = "writer" /\ UNCHANGED refs

\* The connection is to be closed from a posted event.
Terminate == owner' = "closer" /\ UNCHANGED refs

\* Another status is answered with a page of nginx's own, unless a header
\* has been sent.
Finalize(rc) ==
    \/ rc \in {NGX_OK, NGX_DONE} /\ Release /\ UNCHANGED answers
    \/ rc \in {NGX_ERROR, 408} /\ Terminate /\ UNCHANGED answers
    \/ rc \in Status \ {408} /\ answers # << >> /\ Terminate
          /\ UNCHANGED answers
    \/ /\ rc \in Status \ {408} /\ answers = << >>
       /\ answers' = << rc >>
       /\ Release \/ Pend \/ Terminate

\* ngx_http_core_content_phase finalizes what the content handler returned.
\* NGX_DONE only gives its reference back; with a reply that waits, or a
\* connection that is to be closed, NGX_OK changes nothing.
Return ==
    /\ stage = "over" /\ ret # Null /\ ~Freed
    /\ ret' = Null
    /\ \/ ret = NGX_DONE /\ refs' = refs - 1 /\ UNCHANGED << owner, answers >>
       \/ /\ ret = NGX_OK /\ owner # "nobody"
          /\ UNCHANGED << refs, owner, answers >>
       \/ /\ ret # NGX_DONE /\ (ret = NGX_OK => owner = "nobody")
          /\ Finalize(ret)
    /\ UNCHANGED << req, stage, work, touched >>

\* The client takes the rest of the reply, or send_timeout ends the wait.
Written ==
    /\ stage = "over" /\ ret = Null /\ owner = "writer" /\ ~Freed
    /\ Release \/ Terminate
    /\ UNCHANGED << req, stage, ret, work, answers, touched >>

\* ngx_http_terminate_handler sets count to 1 and closes.
Close ==
    /\ stage = "over" /\ ret = Null /\ owner = "closer" /\ ~Freed
    /\ refs' = 0 /\ owner' = "nobody"
    /\ UNCHANGED << req, stage, ret, work, answers, touched >>

\* The three of them on a request that is freed: what they do is undefined.
AfterFree ==
    /\ stage = "over" /\ Freed
    /\ ret # Null \/ owner # "nobody"
    /\ Use
    /\ ret' = Null /\ owner' = "nobody"
    /\ UNCHANGED << req, stage, refs, work, answers >>

-----------------------------------------------------------------------------
(***************************************************************************)
(* The content handler: ngx_http_dyn_upstream_handler, ngx_dyups_do_post.  *)
(***************************************************************************)
Arrive(verb) ==
    /\ stage = "idle"
    /\ req' \in { r \in Requests : r.verb = verb }
    /\ UNCHANGED << text, ran, answers, touched >>

\* send_string: the text of a code in a buffer, no memory for a buffer, or
\* none for the text, which is then copied from NULL.
SendString(status, code) ==
    reply' = Reply(status, code) /\ stage' \in {"output", "nobuf", "null"}

\* Mutant: the status of the read is returned.
MutPostReturns == NGX_OK

PostReturns == NGX_DONE

\* ngx_http_read_client_request_body takes a reference for the body handler.
\* It fails and gives it back; or has the body and calls the body handler;
\* or waits, and the content handler has returned before the body comes.
HandlePost ==
    /\ Arrive("POST")
    /\ \/ /\ ret' \in {400, 500} /\ refs' = 1 /\ owner' = "nobody"
          /\ stage' = "over"
       \/ /\ ret' = PostReturns /\ refs' = 2 /\ owner' = "handler"
          /\ stage' = "body"
       \/ /\ ret' = Null /\ refs' = 1 /\ owner' = "handler"
          /\ stage' = "reading"
    /\ UNCHANGED reply

HandleGet ==
    /\ Arrive("GET")
    /\ SendString(200, E_SUCCESS)
    /\ refs' = 1 /\ owner' = "handler" /\ UNCHANGED ret

HandleOther ==
    /\ Arrive("other")
    /\ SendString(405, E_NO_ALLOW)
    /\ refs' = 1 /\ owner' = "handler" /\ UNCHANGED ret

\* No buffer is ever made for HEAD.
HandleHead ==
    /\ Arrive("HEAD")
    /\ stage' = "nobuf"
    /\ refs' = 1 /\ owner' = "handler" /\ UNCHANGED << ret, reply >>

-----------------------------------------------------------------------------
(***************************************************************************)
(* The body: ngx_dyups_body_handler.                                       *)
(***************************************************************************)
BodyArrives ==
    /\ stage = "reading"
    /\ stage' = "body"
    /\ UNCHANGED << req, life, work, answers, touched >>

\* The client closes, sends something else, or client_body_timeout expires.
BodyFails ==
    /\ stage = "reading"
    /\ stage' = "over"
    /\ \E rc \in {400, 408, 500} : Finalize(rc)
    /\ UNCHANGED << req, ret, work, touched >>

\* The sizes of the buffers that nginx has read a body of n parts into:
\* what came with the header, and the rest; or one per chunk, of which those
\* behind the second are counted together.
Buffers(n) ==
    IF n = 0 THEN { << >> }
    ELSE { << n >> } \cup { << i, n - i >> : i \in 1 .. n - 1 } \cup
         { b \in { << i, j, n - i - j >> : i, j \in 1 .. n } :
              req.framing = "chunked" /\ b[3] > 0 }

\* Mutant: only the first buffer is taken.
MutRead(b) == IF b = << >> THEN Null ELSE b[1]

\* Mutant: the first buffer is joined with itself.
MutReadTwice(b) ==
    CASE Len(b) = 0 -> Null
      [] Len(b) = 1 -> b[1]
      [] Len(b) > 1 -> b[1] + b[1]

\* ngx_dyups_read_body: one buffer as it is, or the first two joined.
Read(b) ==
    CASE Len(b) = 0 -> Null
      [] Len(b) = 1 -> b[1]
      [] Len(b) > 1 -> b[1] + b[2]

\* ngx_dyups_read_body_from_file: nginx has put all of a body in one buffer
\* that is in the file, so that its branch for memory is not taken.
ReadFromFile == req.parts

GetBody ==
    /\ stage = "body"
    /\ \/ \E b \in Buffers(req.parts) : text' = Read(b)
       \/ req.parts > 0 /\ text' = ReadFromFile
    /\ stage' = IF text' = Null THEN "nobody" ELSE "parse"
    /\ UNCHANGED << req, life, reply, ran, answers, touched >>

\* Mutant: the body is waited for once more.
MutGetBodyFails ==
    /\ stage = "body" /\ req.parts > 0
    /\ stage' = "reading"
    /\ UNCHANGED << req, life, work, answers, touched >>

\* There is no memory for a copy, or the file cannot be read.
GetBodyFails ==
    /\ stage = "body" /\ req.parts > 0
    /\ stage' = "nobody"
    /\ UNCHANGED << req, life, work, answers, touched >>

NoContent ==
    /\ stage = "nobody"
    /\ stage' = "over"
    /\ Finalize(204)
    /\ UNCHANGED << req, ret, work, touched >>

\* The text is not terminated.  The parser stops where the object ends,
\* otherwise fails or reads on behind it, until what is there completes the
\* object or does not.
Ends ==
    IF req.ends \in 1 .. text THEN {req.ends, Null} ELSE {Null, text + 1}

\* Mutant: where the object ends is not compared with the body.
MutInBody(end) == end # Null

InBody(end) == end # Null /\ end <= text

Accept ==
    /\ stage = "parse"
    /\ \E end \in Ends : InBody(end)
    /\ stage' = "rpc"
    /\ UNCHANGED << req, life, work, answers, touched >>

Refuse ==
    /\ stage = "parse"
    /\ \E end \in Ends : ~InBody(end)
    /\ SendString(400, E_INVALID_REQUEST)
    /\ UNCHANGED << req, life, text, ran, answers, touched >>

\* json_rpc.
BadRpc ==
    /\ stage = "rpc" /\ req.method = NoMethod
    /\ SendString(200, E_INVALID_REQUEST)
    /\ UNCHANGED << req, life, text, ran, answers, touched >>

UnknownMethod ==
    /\ stage = "rpc" /\ req.method # NoMethod
    /\ tbl_bsearch(Table, req.method) = NoMethod
    /\ SendString(200, E_INVALID_METHOD)
    /\ UNCHANGED << req, life, text, ran, answers, touched >>

RunMethod ==
    /\ stage = "rpc" /\ req.method # NoMethod
    /\ LET found == tbl_bsearch(Table, req.method) IN
          /\ found # NoMethod
          /\ ran' = Append(ran, found)
          /\ reply' = Result(E_SUCCESS, found)
    /\ stage' \in {"output", "nobuf", "null"}
    /\ UNCHANGED << req, life, text, answers, touched >>

\* Mutant: the message is taken from the table, like that of other codes.
MutNoMemory(key) == {ups_errmsg(E_NO_MEM)}

\* A method begins with a pool, lst with an array in it as well.
NoMemory(key) ==
    {"pool alloc error"} \cup {m \in {"array alloc error"} : key = "lst"}

\* The method is called and has no memory: it returns before "params".
MethodFails ==
    /\ stage = "rpc" /\ req.method # NoMethod
    /\ LET found == tbl_bsearch(Table, req.method) IN
          /\ found # NoMethod
          /\ \E msg \in NoMemory(found) : reply' = Result(E_NO_MEM, msg)
    /\ stage' \in {"output", "nobuf", "null"}
    /\ UNCHANGED << req, life, text, ran, answers, touched >>

-----------------------------------------------------------------------------
(***************************************************************************)
(* The reply.                                                              *)
(***************************************************************************)

\* For a POST the content handler returns NGX_DONE.
Returns(rc) == ret' = IF req.verb = "POST" THEN ret ELSE rc

\* Mutant: the body handler goes on after the status 500.
MutNoBuffer ==
    /\ stage = "nobuf"
    /\ stage' = IF req.verb = "POST" THEN "output" ELSE "over"
    /\ Finalize(500) /\ Returns(NGX_DONE)
    /\ UNCHANGED << req, work, touched >>

NoBuffer ==
    /\ stage = "nobuf"
    /\ stage' = "over"
    /\ Finalize(500) /\ Returns(NGX_DONE)
    /\ UNCHANGED << req, work, touched >>

\* dyups_http_output.  A refused document is logged afterwards, with the
\* request's log.
AfterOutput ==
    stage' = IF req.verb = "POST" /\ reply.status = 400 THEN "log" ELSE "over"

\* The request's own body cannot be discarded: nginx finalizes.
OutputRefused ==
    /\ stage = "output" /\ req.verb # "POST"
    /\ ret' \in {400, 500} /\ owner' = "nobody"
    /\ AfterOutput
    /\ UNCHANGED << req, refs, work, answers, touched >>

HeaderFails ==
    /\ stage = "output"
    /\ Use
    /\ \E rc \in {NGX_ERROR, 500} : Finalize(rc) /\ Returns(rc)
    /\ AfterOutput
    /\ UNCHANGED << req, work >>

\* ngx_http_output_filter has sent the reply, has a rest, or fails.
Output ==
    /\ stage = "output" /\ answers = << >>
    /\ Use
    /\ answers' = << reply.status >>
    /\ Release \/ Pend \/ Terminate
    /\ Returns(NGX_OK)
    /\ AfterOutput
    /\ UNCHANGED << req, work >>

\* Mutant: the handler goes on with the document it has refused.
MutLogRefused ==
    /\ stage = "log"
    /\ Use
    /\ stage' = "rpc"
    /\ UNCHANGED << req, life, work, answers >>

LogRefused ==
    /\ stage = "log"
    /\ Use
    /\ stage' = "over"
    /\ UNCHANGED << req, life, work, answers >>

-----------------------------------------------------------------------------
(***************************************************************************)
(* The end.                                                                *)
(***************************************************************************)
Forget ==
    /\ req' = NoRequest /\ stage' = "idle"
    /\ ret' = Null /\ refs' = 0 /\ owner' = "nobody"
    /\ text' = Null /\ reply' = NoReply /\ ran' = << >>
    /\ answers' = << >> /\ touched' = FALSE

EndOfRequest ==
    /\ stage = "over" /\ ret = Null /\ owner = "nobody" /\ Freed
    /\ Forget

\* The worker dies: a text is copied from NULL, or a request is used after
\* it was freed.  The connection is lost and the master starts a worker.
WorkerDies ==
    /\ (stage = "null" \/ touched) /\ stage # "idle"
    /\ Forget

Init ==
    /\ req = NoRequest /\ stage = "idle"
    /\ ret = Null /\ refs = 0 /\ owner = "nobody"
    /\ text = Null /\ reply = NoReply /\ ran = << >>
    /\ answers = << >> /\ touched = FALSE

Handle == HandlePost \/ HandleGet \/ HandleOther \/ HandleHead

Progress ==
    \/ Return \/ Written \/ Close \/ AfterFree
    \/ BodyArrives \/ BodyFails \/ GetBody \/ GetBodyFails \/ NoContent
    \/ Accept \/ Refuse \/ BadRpc \/ UnknownMethod \/ RunMethod
    \/ MethodFails
    \/ NoBuffer \/ OutputRefused \/ HeaderFails \/ Output \/ LogRefused
    \/ EndOfRequest \/ WorkerDies

Next == Handle \/ Progress

Spec == Init /\ [][Next]_vars

\* The handlers are synchronous, and nginx's timers end each wait for the
\* client: client_body_timeout the body's, send_timeout the reply's.
FairSpec == Spec /\ WF_vars(Progress)

-----------------------------------------------------------------------------
(***************************************************************************)
(* Properties.                                                             *)
(***************************************************************************)
Stages == {"idle", "reading", "body", "nobody", "parse", "rpc", "output",
           "nobuf", "null", "log", "over"}

\* The types of the request, of its references and of the reply.
TypeOK ==
    /\ req \in Requests /\ stage \in Stages
    /\ ret \in {Null, NGX_OK, NGX_ERROR, NGX_DONE, 400, 500}
    /\ refs \in 0 .. 2
    /\ owner \in {"handler", "writer", "closer", "nobody"}
    /\ text \in 0 .. MaxParts \cup {Null}
    /\ ran \in Seq(Keys) /\ Len(ran) <= 1
    /\ answers \in Seq(Status) /\ Len(answers) <= 1
    /\ touched \in BOOLEAN

Holders == (IF ret = Null THEN 0 ELSE 1) + (IF owner = "nobody" THEN 0 ELSE 1)

\* A POST is referenced exactly by the content handler, until nginx has
\* taken its result, and by whoever goes on with the request (the body's
\* reader, the body handler, a rest of the reply, a posted close): it is
\* neither freed under one of them nor kept after the last, whether its body
\* came with the header or later, and however it ends.
RefsBalanced == req.verb = "POST" => refs = Holders

\* A POST is not used after it was freed, except that a document that is
\* refused is logged after the reply that may have freed its request.
UsedWhileKept ==
    touched => req.verb # "POST" \/ (reply.status = 400 /\ ran = << >>)

\* A body that came with a Content-Length is parsed whole, wherever nginx
\* put it.
LengthBodyIsWhole ==
    stage = "parse" /\ req.framing = "length" => text = req.parts

\* What runs is a document that was received up to its end: a body of which
\* a part was dropped (a third chunk) is not acted upon, although the parser
\* reads on behind it.
RunsOnlyWhole == ran # << >> => req.ends \in 1 .. text

\* Of the four methods a document runs the one that it names, and only a
\* document that names none of them is told so.
RunsWhatIsNamed ==
    /\ ran # << >> => ran = << req.method >>
    /\ reply.code = E_INVALID_METHOD /\ stage = "output" =>
          req.method \notin Keys

\* A client that got a refusal, or the code of a method that was called but
\* had no memory, has changed nothing; one that got the code 0 for a document
\* has had its method go through it.  (A 500 or a lost connection may follow
\* a change that was made.)
StatusTellsWhatRan ==
    /\ ran # << >> => Range(answers) \subseteq {200, 500}
    /\ req.verb = "POST" /\ 200 \in Range(answers) =>
          (reply.code = E_SUCCESS) = (ran # << >>)

\* A reply says "success" only with code 0, also the one with E_NO_MEM,
\* which msg_list does not have; every other error has its text from there.
MessageMatchesCode ==
    stage = "output" /\ ran = << >> =>
       /\ (reply.msg = "success") = (reply.code = E_SUCCESS)
       /\ reply.code # E_NO_MEM =>
             \E m \in Range(msg_list) : m[1] = reply.code /\ m[2] = reply.msg

\* Every request comes to its end: it is answered or its connection closed.
RequestEnds == stage # "idle" ~> stage = "idle"

=============================================================================
