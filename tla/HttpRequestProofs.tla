-------------------------- MODULE HttpRequestProofs --------------------------
(***************************************************************************)
(* What HttpRequest guarantees for bodies of any length, any methods and   *)
(* any order of what nginx and the client do: a POST is referenced exactly *)
(* by those that still work on it, only whole documents are run, and what  *)
(* runs is the method that the document names.                             *)
(***************************************************************************)
EXTENDS HttpRequest, NumberFacts

\* The stages in which the body of a POST is read, taken and acted upon.
Early == {"reading", "body", "nobody", "parse", "rpc"}

\* The stages in which the handler still has the request.
Handling == Early \cup {"output", "nobuf", "null"}

\* Who holds a request in which stage.
Held ==
    /\ stage \in Stages
    /\ refs \in 0 .. 2
    /\ owner \in {"handler", "writer", "closer", "nobody"}
    /\ stage = "idle" => ret = Null /\ refs = 0 /\ owner = "nobody"
    /\ stage \in Handling => owner = "handler" /\ refs > 0
    /\ stage \in Early => req.verb = "POST"
    /\ stage = "reading" => ret = Null
    /\ req.verb = "POST" =>
          \/ ret \in {Null, NGX_DONE}
          \/ ret \in {400, 500} /\ stage = "over" /\ owner = "nobody"

\* What has been read, run and answered in which stage.
Done ==
    /\ req \in Requests
    /\ stage \in Handling \cup {"idle"} => answers = << >> /\ ~touched
    /\ stage \in Early \cup {"idle"} => ran = << >>
    /\ stage = "parse" => text \in Nat
    /\ stage = "rpc" => req.ends \in 1 .. text
    /\ stage = "log" => reply.status = 400 /\ ran = << >>
    /\ stage = "output" => reply.status \in Status
    /\ ran # << >> => req.verb = "POST" /\ reply.status = 200
                         /\ reply.code = E_SUCCESS /\ ret \in {Null, NGX_DONE}
    /\ req.verb = "POST" /\ stage = "output" /\ ran = << >> =>
          reply.code # E_SUCCESS
    /\ answers = << >> \/ \E rc \in Status : answers = << rc >>

HInv ==
    /\ Held /\ Done
    /\ RefsBalanced /\ UsedWhileKept
    /\ LengthBodyIsWhole /\ RunsOnlyWhole /\ StatusTellsWhatRan

USE HttpAssumption

-----------------------------------------------------------------------------
LEMMA InitHolds == Init => HInv
<1> SUFFICES ASSUME Init PROVE HInv
  OBVIOUS
<1>1. Held /\ RefsBalanced
  BY DEF Init, Held, RefsBalanced, Holders, Stages, Handling, Early
<1>2. req \in Requests
  BY DEF Init, Requests, NoRequest
<1>3. Range(answers) = {}
  BY DEF Init, Range
<1>4. UsedWhileKept /\ LengthBodyIsWhole /\ RunsOnlyWhole /\ StatusTellsWhatRan
  BY <1>3 DEF Init, UsedWhileKept, LengthBodyIsWhole, RunsOnlyWhole,
              StatusTellsWhatRan
<1>5. Done
  BY <1>2 DEF Init, Done, Handling, Early
<1> QED  BY <1>1, <1>4, <1>5 DEF HInv

\* The request and its holders, step by step.
LEMMA HeldStep ==
    ASSUME HInv, [Next]_vars
    PROVE  Held' /\ RefsBalanced'
<1> USE DEF Held, RefsBalanced, Holders, Stages, Handling, Early
<1>0. Held /\ Done /\ RefsBalanced
  BY DEF HInv
<1>1. CASE Handle
  <2>1. CASE HandlePost
    BY <1>0, <2>1 DEF HandlePost, Arrive, PostReturns
  <2>2. CASE HandleGet \/ HandleOther \/ HandleHead
    BY <1>0, <2>2 DEF HandleGet, HandleOther, HandleHead, Arrive, SendString
  <2> QED  BY <1>1, <2>1, <2>2 DEF Handle
<1>2. CASE Progress
  <2>1. CASE Return
    <3>1. /\ refs \in 1 .. 2 /\ ret # Null /\ ret' = Null
          /\ stage' = "over" /\ req' = req
      BY <1>0, <2>1 DEF Return, Freed
    <3>2. CASE ret = NGX_DONE \/ (ret = NGX_OK /\ owner # "nobody")
      BY <1>0, <2>1, <3>1, <3>2 DEF Return
    <3>3. CASE ~(ret = NGX_DONE \/ (ret = NGX_OK /\ owner # "nobody"))
      <4>1. \/ refs' = refs - 1 /\ owner' = "nobody"
            \/ owner' \in {"writer", "closer"} /\ refs' = refs
        BY <2>1, <3>3 DEF Return, Finalize, Release, Pend, Terminate
      <4> QED  BY <1>0, <3>1, <3>3, <4>1
    <3> QED  BY <3>2, <3>3
  <2>2. CASE Written \/ Close \/ AfterFree
    BY <1>0, <2>2 DEF Written, Close, AfterFree, Freed, Release, Terminate
  <2>3. CASE BodyFails \/ NoContent \/ NoBuffer \/ HeaderFails \/ Output
    <3>1. Release \/ Pend \/ Terminate
      BY <2>3 DEF BodyFails, NoContent, NoBuffer, HeaderFails, Output, Finalize
    <3>2. /\ stage \in Handling /\ stage' \in {"over", "log"} /\ req' = req
          /\ req.verb = "POST" => ret' = ret
      BY <1>0, <2>3 DEF BodyFails, NoContent, NoBuffer, HeaderFails, Output,
                        Returns, AfterOutput
    <3> QED  BY <1>0, <3>1, <3>2 DEF Release, Pend, Terminate
  <2>4. CASE \/ BodyArrives \/ GetBody \/ GetBodyFails \/ Accept \/ Refuse
             \/ BadRpc \/ UnknownMethod \/ RunMethod \/ MethodFails
             \/ LogRefused
    <3>1. /\ stage \in Early \cup {"log"} /\ req' = req
          /\ ret' = ret /\ refs' = refs /\ owner' = owner
          /\ IF stage = "log" THEN stage' = "over"
                              ELSE stage' \in Handling \ {"reading"}
      BY <2>4 DEF BodyArrives, GetBody, GetBodyFails, Accept, Refuse, BadRpc,
                  UnknownMethod, RunMethod, MethodFails, LogRefused,
                  SendString, life
    <3> QED  BY <1>0, <3>1
  <2>5. CASE OutputRefused
    BY <1>0, <2>5 DEF OutputRefused, AfterOutput
  <2>6. CASE EndOfRequest \/ WorkerDies
    BY <1>0, <2>6 DEF EndOfRequest, WorkerDies, Forget
  <2> QED  BY <1>2, <2>1, <2>2, <2>3, <2>4, <2>5, <2>6 DEF Progress
<1>3. CASE UNCHANGED vars
  BY <1>0, <1>3 DEF vars, life, work
<1> QED  BY <1>1, <1>2, <1>3 DEF Next

\* What is made of the buffers: something, and with a Content-Length all.
LEMMA BuffersAreRead ==
    ASSUME req.parts \in Nat, NEW b \in Buffers(req.parts)
    PROVE  /\ Read(b) \in 0 .. req.parts \cup {Null}
           /\ req.framing = "length" => Read(b) \in {req.parts, Null}
<1> DEFINE n == req.parts
<1>1. CASE b = << >>
  BY <1>1 DEF Read
<1>2. CASE b = << n >>
  BY <1>2 DEF Read
<1>3. ASSUME NEW i \in 1 .. n - 1, b = << i, n - i >>
      PROVE  Read(b) = n
  BY <1>3 DEF Read
<1>4. ASSUME NEW i \in 1 .. n, NEW j \in 1 .. n, b = << i, j, n - i - j >>
      PROVE  Read(b) = i + j
  BY <1>4 DEF Read
<1> QED  BY <1>1, <1>2, <1>3, <1>4 DEF Buffers

\* What has been read, run and answered, step by step.
LEMMA DoneStep ==
    ASSUME HInv, [Next]_vars
    PROVE  Done'
<1> USE DEF Handling, Early
<1>0. Held /\ Done
  BY DEF HInv
<1>1. CASE Handle
  <2>1. stage = "idle" /\ answers' = answers /\ touched' = touched /\ ran' = ran
    BY <1>1 DEF Handle, HandlePost, HandleGet, HandleOther, HandleHead, Arrive
  <2>2. req' \in Requests
    BY <1>1 DEF Handle, HandlePost, HandleGet, HandleOther, HandleHead, Arrive
  <2>3. CASE HandlePost
    BY <1>0, <2>1, <2>2, <2>3 DEF HandlePost, Done
  <2>4. CASE HandleGet \/ HandleOther \/ HandleHead
    <3>1. req'.verb # "POST" /\ stage' \in {"output", "nobuf", "null"}
      BY <2>4 DEF HandleGet, HandleOther, HandleHead, Arrive, SendString
    <3>2. stage' = "output" => reply'.status \in Status
      BY <2>4 DEF HandleGet, HandleOther, HandleHead, SendString, Reply, Status
    <3> QED  BY <1>0, <2>1, <2>2, <3>1, <3>2 DEF Done
  <2> QED  BY <1>1, <2>3, <2>4 DEF Handle
<1>2. CASE Progress
  <2>1. CASE Return
    BY <1>0, <2>1 DEF Return, Done, work, Finalize, Status, Held
  <2>2. CASE Written \/ Close \/ AfterFree
    BY <1>0, <2>2 DEF Written, Close, AfterFree, work, Done
  <2>3. CASE BodyFails \/ NoContent \/ NoBuffer
    BY <1>0, <2>3 DEF BodyFails, NoContent, NoBuffer, Finalize, work, Done,
                      Returns, Status
  <2>4. CASE HeaderFails
    BY <1>0, <2>4 DEF HeaderFails, Finalize, work, Done, Returns, Status,
                      AfterOutput, E_SUCCESS
  <2>5. CASE Output
    BY <1>0, <2>5 DEF Output, work, Done, Returns, Status, AfterOutput,
                      E_SUCCESS
  <2>6. CASE BodyArrives \/ GetBodyFails
    BY <1>0, <2>6 DEF BodyArrives, GetBodyFails, life, work, Done
  <2>7. CASE GetBody
    <3>1. req.parts \in 0 .. MaxParts
      BY <1>0 DEF Done, Requests
    <3>2. \A b \in Buffers(req.parts) : Read(b) \in Nat \cup {Null}
      BY <3>1, BuffersAreRead
    <3> QED  BY <1>0, <2>7, <3>1, <3>2 DEF GetBody, ReadFromFile, life, Done
  <2>8. CASE Accept
    <3>1. req.ends \in 1 .. text
      BY <1>0, <2>8 DEF Accept, Ends, InBody, Done, Requests
    <3> QED  BY <1>0, <2>8, <3>1 DEF Accept, life, work, Done
  <2>9. CASE Refuse \/ BadRpc \/ UnknownMethod
    BY <1>0, <2>9 DEF Refuse, BadRpc, UnknownMethod, SendString, Reply, Status,
                      E_SUCCESS, E_INVALID_REQUEST, E_INVALID_METHOD, life, Done
  <2>10. CASE RunMethod
    BY <1>0, <2>10 DEF RunMethod, Result, E_SUCCESS, Status, life, Done, Held
  <2>11. CASE MethodFails
    BY <1>0, <2>11 DEF MethodFails, Result, E_SUCCESS, E_NO_MEM, Status, life,
                       Done
  <2>12. CASE LogRefused \/ OutputRefused
    BY <1>0, <2>12 DEF LogRefused, OutputRefused, AfterOutput, Use, life, work,
                       Done
  <2>13. CASE EndOfRequest \/ WorkerDies
    BY <1>0, <2>13 DEF EndOfRequest, WorkerDies, Forget, Done, Requests,
                       NoRequest
  <2> QED  BY <1>2, <2>1, <2>2, <2>3, <2>4, <2>5, <2>6, <2>7, <2>8, <2>9,
              <2>10, <2>11, <2>12, <2>13 DEF Progress
<1>3. CASE UNCHANGED vars
  BY <1>0, <1>3 DEF vars, life, work, Done
<1> QED  BY <1>1, <1>2, <1>3 DEF Next

\* A POST is used only while it is kept, or where a refusal is logged.
LEMMA UsedStep ==
    ASSUME HInv, [Next]_vars
    PROVE  UsedWhileKept'
<1> USE DEF UsedWhileKept, Handling, Early
<1>0. Held /\ Done /\ RefsBalanced /\ UsedWhileKept
  BY DEF HInv
<1>1. CASE stage \in Handling \cup {"idle"}
  <2>1. ~touched /\ (stage # "idle" => refs > 0)
    BY <1>0, <1>1 DEF Held, Done
  <2>2. CASE Handle
    BY <2>1, <2>2 DEF Handle, HandlePost, HandleGet, HandleOther, HandleHead,
                      Arrive
  <2>3. CASE Progress
    <3>1. CASE HeaderFails \/ Output
      <4>1. refs > 0 /\ (touched' = (touched \/ Freed))
        BY <2>1, <3>1 DEF HeaderFails, Output, Use
      <4>2. refs # 0
        BY <1>0, <4>1 DEF Held
      <4> QED  BY <2>1, <4>1, <4>2 DEF Freed
    <3>2. CASE EndOfRequest \/ WorkerDies
      BY <3>2 DEF EndOfRequest, WorkerDies, Forget
    <3>3. CASE ~(HeaderFails \/ Output \/ EndOfRequest \/ WorkerDies)
      <4>1. touched' = touched
        BY <1>1, <2>3, <3>3
           DEF Progress, Return, Written, Close, AfterFree, BodyArrives,
               BodyFails, GetBody, GetBodyFails, NoContent, Accept, Refuse,
               BadRpc, UnknownMethod, RunMethod, MethodFails, NoBuffer,
               OutputRefused, LogRefused
      <4> QED  BY <2>1, <4>1
    <3> QED  BY <3>1, <3>2, <3>3
  <2>4. CASE UNCHANGED vars
    BY <2>1, <2>4 DEF vars
  <2> QED  BY <2>2, <2>3, <2>4 DEF Next
<1>2. CASE stage \notin Handling \cup {"idle"}
  <2>1. ASSUME Next, ~EndOfRequest, ~WorkerDies
        PROVE  Return \/ Written \/ Close \/ AfterFree \/ LogRefused
    BY <1>2, <2>1
       DEF Next, Handle, HandlePost, HandleGet, HandleOther, HandleHead, Arrive,
           Progress, BodyArrives, BodyFails, GetBody, GetBodyFails, NoContent,
           Accept, Refuse, BadRpc, UnknownMethod, RunMethod, MethodFails,
           NoBuffer, OutputRefused, HeaderFails, Output
  <2>2. CASE Return \/ Written \/ Close
    BY <1>0, <2>2 DEF Return, Written, Close, work
  <2>3. CASE AfterFree
    <3>1. req.verb # "POST"
      BY <1>0, <2>3 DEF AfterFree, Freed, RefsBalanced, Holders
    <3> QED  BY <2>3, <3>1 DEF AfterFree
  <2>4. CASE LogRefused
    BY <1>0, <2>4 DEF LogRefused, work, Done
  <2>5. CASE EndOfRequest \/ WorkerDies
    BY <2>5 DEF EndOfRequest, WorkerDies, Forget
  <2>6. CASE UNCHANGED vars
    BY <1>0, <2>6 DEF vars, work
  <2> QED  BY <2>1, <2>2, <2>3, <2>4, <2>5, <2>6
<1> QED  BY <1>1, <1>2

\* What is parsed, and what runs.
LEMMA WholeStep ==
    ASSUME HInv, [Next]_vars
    PROVE  LengthBodyIsWhole' /\ RunsOnlyWhole'
<1> USE DEF LengthBodyIsWhole, RunsOnlyWhole, Handling, Early
<1>0. Done /\ LengthBodyIsWhole /\ RunsOnlyWhole
  BY DEF HInv
<1>1. CASE Handle
  <2>1. stage = "idle" /\ ran' = ran /\ stage' # "parse"
    BY <1>1 DEF Handle, HandlePost, HandleGet, HandleOther, HandleHead, Arrive,
                SendString
  <2> QED  BY <1>0, <2>1 DEF Done
<1>2. CASE GetBody
  <2>1. req.parts \in Nat /\ ran = << >>
    BY <1>0, <1>2 DEF Done, Requests, GetBody
  <2>2. \A b \in Buffers(req.parts) :
           req.framing = "length" => Read(b) \in {req.parts, Null}
    BY <2>1, BuffersAreRead
  <2> QED  BY <2>1, <2>2, <1>2 DEF GetBody, ReadFromFile, life
<1>3. CASE RunMethod
  BY <1>0, <1>3 DEF RunMethod, life, Done
<1>4. CASE Progress /\ ~GetBody /\ ~RunMethod
  <2>1. CASE EndOfRequest \/ WorkerDies
    BY <2>1 DEF EndOfRequest, WorkerDies, Forget
  <2>2. CASE ~(EndOfRequest \/ WorkerDies)
    <3>1. /\ stage' # "parse"
          /\ req' = req /\ text' = text /\ ran' = ran
      BY <1>4, <2>2
         DEF Progress, Return, Written, Close, AfterFree, BodyArrives,
             BodyFails, GetBodyFails, NoContent, Accept, Refuse, BadRpc,
             UnknownMethod, MethodFails, NoBuffer, OutputRefused, HeaderFails,
             Output, LogRefused, SendString, AfterOutput, life, work
    <3> QED  BY <1>0, <3>1
  <2> QED  BY <2>1, <2>2
<1>5. CASE UNCHANGED vars
  BY <1>0, <1>5 DEF vars, work
<1> QED  BY <1>1, <1>2, <1>3, <1>4, <1>5 DEF Next

\* What is answered.
LEMMA StatusStep ==
    ASSUME HInv, [Next]_vars
    PROVE  StatusTellsWhatRan'
<1> USE DEF StatusTellsWhatRan, Handling, Early
<1>0. Held /\ Done /\ StatusTellsWhatRan
  BY DEF HInv
<1>1. Range(<< >>) = {} /\ \A rc \in Status : Range(<< rc >>) = {rc}
  BY DEF Range
<1>2. CASE Handle
  <2>1. stage = "idle" /\ answers' = answers
    BY <1>2 DEF Handle, HandlePost, HandleGet, HandleOther, HandleHead, Arrive
  <2> QED  BY <1>0, <1>1, <2>1 DEF Done
<1>3. CASE Progress
  <2>1. CASE Return
    <3>1. CASE answers' = answers
      BY <1>0, <2>1, <3>1 DEF Return, work
    <3>2. CASE answers' # answers
      <4>1. ret # NGX_DONE /\ ret # Null /\ answers' = << ret >> /\ ret \in Status
        BY <1>0, <2>1, <3>2 DEF Return, Finalize
      <4>2. ran = << >> /\ (req.verb = "POST" => ret \in {400, 500})
        BY <1>0, <4>1 DEF Held, Done
      <4> QED  BY <1>1, <2>1, <4>1, <4>2 DEF Return, work
    <3> QED  BY <3>1, <3>2
  <2>2. CASE BodyFails \/ NoContent \/ NoBuffer \/ HeaderFails
    <3>1. /\ answers = << >> /\ req' = req /\ ran' = ran /\ reply' = reply
          /\ ran # << >> => stage \in {"output", "nobuf"}
      BY <1>0, <2>2 DEF BodyFails, NoContent, NoBuffer, HeaderFails, work, Done
    <3>2. \/ answers' = << >>
          \/ \E rc \in {204, 400, 500} :
                answers' = << rc >> /\ (rc # 500 => ran = << >>)
      <4>1. CASE BodyFails
        <5>1. PICK rc \in {400, 408, 500} : Finalize(rc)
          BY <4>1 DEF BodyFails
        <5>2. ran = << >>
          BY <1>0, <4>1 DEF BodyFails, Done
        <5> QED  BY <3>1, <5>1, <5>2 DEF Finalize, Status
      <4>2. CASE NoContent
        BY <1>0, <3>1, <4>2 DEF NoContent, Finalize, Status, Done
      <4>3. CASE NoBuffer
        BY <1>0, <3>1, <4>3 DEF NoBuffer, Finalize, Status
      <4>4. CASE HeaderFails
        <5>1. PICK rc \in {NGX_ERROR, 500} : Finalize(rc)
          BY <4>4 DEF HeaderFails
        <5>2. rc \in Status => rc = 500
          OBVIOUS
        <5> QED  BY <3>1, <5>1, <5>2 DEF Finalize
      <4> QED  BY <2>2, <4>1, <4>2, <4>3, <4>4
    <3> QED  BY <1>1, <3>1, <3>2 DEF Status
  <2>3. CASE Output
    BY <1>0, <1>1, <2>3 DEF Output, work, Done
  <2>4. CASE \/ BodyArrives \/ GetBody \/ GetBodyFails \/ Accept \/ Refuse
             \/ BadRpc \/ UnknownMethod \/ RunMethod \/ MethodFails
             \/ OutputRefused
    <3>1. answers' = answers /\ stage \in Handling
      BY <2>4 DEF BodyArrives, GetBody, GetBodyFails, Accept, Refuse, BadRpc,
                  UnknownMethod, RunMethod, MethodFails, OutputRefused
    <3> QED  BY <1>0, <1>1, <3>1 DEF Done
  <2>5. CASE Written \/ Close \/ AfterFree \/ LogRefused
    BY <1>0, <2>5 DEF Written, Close, AfterFree, LogRefused, life, work
  <2>6. CASE EndOfRequest \/ WorkerDies
    BY <1>1, <2>6 DEF EndOfRequest, WorkerDies, Forget
  <2> QED  BY <1>3, <2>1, <2>2, <2>3, <2>4, <2>5, <2>6 DEF Progress
<1>4. CASE UNCHANGED vars
  BY <1>0, <1>4 DEF vars, work
<1> QED  BY <1>2, <1>3, <1>4 DEF Next

LEMMA HInvIsInvariant == Spec => []HInv
<1>1. ASSUME HInv, [Next]_vars PROVE HInv'
  BY <1>1, HeldStep, DoneStep, UsedStep, WholeStep, StatusStep DEF HInv
<1> QED  BY InitHolds, <1>1, PTL DEF Spec

-----------------------------------------------------------------------------
\* However the body comes and the request ends, a POST to "ups_mgr" has one
\* reference for each that still works on it (r->main->count in
\* ngx_dyups_do_post and ngx_dyups_body_handler).
THEOREM ReferencesBalance == Spec => []RefsBalanced
<1>1. HInv => RefsBalanced
  BY DEF HInv
<1> QED  BY <1>1, HInvIsInvariant, PTL

\* The module uses a POST only while it is referenced, except for the log of
\* a refusal in ngx_dyups_body_handler.
THEOREM UseIsSafe == Spec => []UsedWhileKept
<1>1. HInv => UsedWhileKept
  BY DEF HInv
<1> QED  BY <1>1, HInvIsInvariant, PTL

\* ngx_dyups_read_body and its twin for files take all of a body that came
\* with a Content-Length, for bodies of any length.
THEOREM BodyIsWhole == Spec => []LengthBodyIsWhole
<1>1. HInv => LengthBodyIsWhole
  BY DEF HInv
<1> QED  BY <1>1, HInvIsInvariant, PTL

\* A body of which ngx_dyups_read_body dropped a part is not acted upon: the
\* test of end_ptr in ngx_dyups_body_handler is enough.
THEOREM OnlyWholeRuns == Spec => []RunsOnlyWhole
<1>1. HInv => RunsOnlyWhole
  BY DEF HInv
<1> QED  BY <1>1, HInvIsInvariant, PTL

\* What the client is told agrees with what was run: a refusal has changed
\* nothing, and the code 0 for a document means that its method ran.
THEOREM StatusIsTrue == Spec => []StatusTellsWhatRan
<1>1. HInv => StatusTellsWhatRan
  BY DEF HInv
<1> QED  BY <1>1, HInvIsInvariant, PTL

-----------------------------------------------------------------------------
(***************************************************************************)
(* The tables.  qsort leaves services in the order of strcmp, whatever     *)
(* other strings there are, and then bsearch finds every method in it and  *)
(* nothing else; the search in msg_list ends at the code's own text.       *)
(***************************************************************************)
LEMMA StrcmpInt ==
    ASSUME NEW a \in Range(Strings), NEW b \in Range(Strings)
    PROVE  /\ strcmp(a, b) \in Int
           /\ strcmp(a, b) = 0 <=> a = b
<1> DEFINE Place(s) == CHOOSE i \in DOMAIN Strings : Strings[i] = s
<1>1. \A s \in Range(Strings) : Place(s) \in DOMAIN Strings /\ Strings[Place(s)] = s
  BY DEF Range
<1>2. DOMAIN Strings \subseteq Int
  BY TableAssumption
<1>3. strcmp(a, b) = Place(a) - Place(b)
  BY DEF strcmp
<1> HIDE DEF Place
<1> QED  BY <1>1, <1>2, <1>3

LEMMA StrcmpTrans ==
    ASSUME NEW a \in Range(Strings), NEW b \in Range(Strings),
           NEW c \in Range(Strings)
    PROVE  strcmp(a, c) = strcmp(a, b) + strcmp(b, c)
<1> DEFINE Place(s) == CHOOSE i \in DOMAIN Strings : Strings[i] = s
<1>1. \A s \in Range(Strings) : Place(s) \in DOMAIN Strings
  BY DEF Range
<1>2. DOMAIN Strings \subseteq Int
  BY TableAssumption
<1>3. \A x, y : strcmp(x, y) = Place(x) - Place(y)
  BY DEF strcmp
<1> HIDE DEF Place
<1> QED  BY <1>1, <1>2, <1>3

\* A table in the order of strcmp.
Sorted(tbl) ==
    /\ tbl \in Seq(Range(Strings))
    /\ \A i, j \in 1 .. Len(tbl) : i < j => strcmp(tbl[i], tbl[j]) <= 0

\* h does what bsearch does with the parts of tbl.
Searches(h, tbl, key) ==
    \A l, u \in 0 .. Len(tbl) :
       h[<< l, u >>] =
          LET mid == (l + u) \div 2
              cmp == strcmp(key, tbl[mid + 1])
          IN  IF l >= u THEN NoMethod
              ELSE IF cmp < 0 THEN h[<< l, mid >>]
              ELSE IF cmp > 0 THEN h[<< mid + 1, u >>]
              ELSE tbl[mid + 1]

\* What there is to find in a part.
Within(tbl, key, l, u) == \E i \in l + 1 .. u : tbl[i] = key

\* One step of the search keeps what there is to find.
LEMMA HalfHasIt ==
    ASSUME NEW tbl, Sorted(tbl), NEW key \in Range(Strings),
           NEW l \in 0 .. Len(tbl), NEW u \in 0 .. Len(tbl), l < u,
           NEW mid, mid = (l + u) \div 2
    PROVE  /\ mid \in l .. u - 1 /\ strcmp(key, tbl[mid + 1]) \in Int
           /\ strcmp(key, tbl[mid + 1]) < 0 =>
                 (Within(tbl, key, l, u) <=> Within(tbl, key, l, mid))
           /\ strcmp(key, tbl[mid + 1]) > 0 =>
                 (Within(tbl, key, l, u) <=> Within(tbl, key, mid + 1, u))
           /\ strcmp(key, tbl[mid + 1]) = 0 =>
                 tbl[mid + 1] = key /\ Within(tbl, key, l, u)
<1>1. Len(tbl) \in Nat /\ tbl \in Seq(Range(Strings))
      /\ \A i \in 1 .. Len(tbl) : tbl[i] \in Range(Strings)
  BY DEF Sorted
<1>2. mid \in l .. u - 1
  BY <1>1
<1>3. mid + 1 \in l + 1 .. u /\ mid + 1 \in 1 .. Len(tbl)
  BY <1>1, <1>2
<1> DEFINE t == tbl[mid + 1]
           cmp == strcmp(key, t)
<1>4. cmp \in Int /\ (cmp = 0 <=> key = t) /\ t \in Range(Strings)
  BY <1>1, <1>3, StrcmpInt
<1>5. ASSUME NEW i \in l + 1 .. u, tbl[i] = key
      PROVE  (cmp < 0 => i < mid + 1) /\ (cmp > 0 => i > mid + 1)
  <2>1. i \in 1 .. Len(tbl)
    BY <1>1
  <2>2. strcmp(key, t) = strcmp(tbl[i], t) /\ strcmp(t, key) = strcmp(t, tbl[i])
    BY <1>5
  <2>3. /\ i < mid + 1 => strcmp(tbl[i], t) <= 0
        /\ mid + 1 < i => strcmp(t, tbl[i]) <= 0
    BY <1>3, <2>1 DEF Sorted
  <2>4. strcmp(key, key) = strcmp(key, t) + strcmp(t, key)
        /\ strcmp(key, key) = 0 /\ strcmp(t, key) \in Int
    <3>1. key \in Range(Strings) /\ t \in Range(Strings)
      BY <1>4
    <3> HIDE DEF t
    <3>2. strcmp(key, key) = 0 /\ strcmp(t, key) \in Int
      BY <3>1, StrcmpInt
    <3>3. strcmp(key, key) = strcmp(key, t) + strcmp(t, key)
      BY <3>1, StrcmpTrans
    <3> QED  BY <3>2, <3>3
  <2>5. i = mid + 1 => cmp = 0
    BY <1>4, <1>5
  <2> QED  BY <1>2, <1>4, <2>2, <2>3, <2>4, <2>5
<1>6. cmp < 0 => (Within(tbl, key, l, u) <=> Within(tbl, key, l, mid))
  BY <1>1, <1>2, <1>5 DEF Within
<1>7. cmp > 0 => (Within(tbl, key, l, u) <=> Within(tbl, key, mid + 1, u))
  BY <1>1, <1>2, <1>5 DEF Within
<1>8. cmp = 0 => t = key /\ Within(tbl, key, l, u)
  BY <1>3, <1>4 DEF Within
<1> QED  BY <1>2, <1>4, <1>6, <1>7, <1>8

\* bsearch finds what there is to find, in every part.
LEMMA SearchesFinds ==
    ASSUME NEW tbl, Sorted(tbl), NEW key \in Range(Strings),
           NEW h, Searches(h, tbl, key)
    PROVE  \A l, u \in 0 .. Len(tbl) :
              h[<< l, u >>] = IF Within(tbl, key, l, u) THEN key ELSE NoMethod
<1> DEFINE Right(l, u) ==
              h[<< l, u >>] = IF Within(tbl, key, l, u) THEN key ELSE NoMethod
           Bad == { n \in Nat : \E l, u \in 0 .. Len(tbl) :
                                   u - l = n /\ ~Right(l, u) }
<1>1. Len(tbl) \in Nat
  BY DEF Sorted
<1>2. ASSUME NEW l \in 0 .. Len(tbl), NEW u \in 0 .. Len(tbl), ~(l < u)
      PROVE  Right(l, u)
  <2>1. l >= u
    BY <1>1, <1>2
  <2>2. ~Within(tbl, key, l, u)
    BY <1>1, <1>2 DEF Within
  <2>3. h[<< l, u >>] = NoMethod
    BY <2>1, <1>2 DEF Searches
  <2> QED  BY <2>2, <2>3
<1>3. Bad = {}
  <2> SUFFICES ASSUME Bad # {} PROVE FALSE
    OBVIOUS
  <2>1. PICK n \in Bad : \A m \in Bad : n <= m
    <3>1. Bad \subseteq Nat
      OBVIOUS
    <3> HIDE DEF Bad
    <3> QED  BY <3>1, LeastNat
  <2>2. PICK l \in 0 .. Len(tbl), u \in 0 .. Len(tbl) :
           u - l = n /\ ~Right(l, u)
    BY <2>1
  <2>3. l < u /\ n \in Nat
    BY <1>2, <2>1, <2>2
  <2> DEFINE mid == (l + u) \div 2
             cmp == strcmp(key, tbl[mid + 1])
  <2>4. h[<< l, u >>] = IF l >= u THEN NoMethod
                  ELSE IF cmp < 0 THEN h[<< l, mid >>]
                  ELSE IF cmp > 0 THEN h[<< mid + 1, u >>]
                  ELSE tbl[mid + 1]
    BY DEF Searches
  <2>5. /\ mid \in l .. u - 1 /\ cmp \in Int
        /\ cmp < 0 => (Within(tbl, key, l, u) <=> Within(tbl, key, l, mid))
        /\ cmp > 0 => (Within(tbl, key, l, u) <=> Within(tbl, key, mid + 1, u))
        /\ cmp = 0 => tbl[mid + 1] = key /\ Within(tbl, key, l, u)
    BY <2>3, HalfHasIt
  <2> HIDE DEF mid, cmp
  <2>6. ~(l >= u)
    BY <1>1, <2>3
  <2>7. ASSUME NEW a \in 0 .. Len(tbl), NEW b \in 0 .. Len(tbl), b - a < n
        PROVE  Right(a, b)
    <3>1. CASE a < b
      <4>1. b - a \in Nat /\ ~(n <= b - a)
        BY <1>1, <2>3, <2>7, <3>1
      <4>2. b - a \notin Bad
        <5> HIDE DEF Bad
        <5> QED  BY <2>1, <4>1
      <4> QED  BY <4>1, <4>2
    <3>2. CASE ~(a < b)
      BY <1>2, <3>2
    <3> QED  BY <3>1, <3>2
  <2>8. /\ mid \in 0 .. Len(tbl) /\ mid + 1 \in 0 .. Len(tbl)
        /\ mid - l < n /\ u - (mid + 1) < n
    BY <1>1, <2>2, <2>3, <2>5
  <2>9. Right(l, mid) /\ Right(mid + 1, u)
    BY <2>7, <2>8
  <2>10. CASE cmp < 0
    <3>1. h[<< l, u >>] = h[<< l, mid >>]
      BY <2>3, <2>4, <2>5, <2>6, <2>10
    <3> QED  BY <2>2, <2>5, <2>9, <2>10, <3>1
  <2>11. CASE cmp > 0
    <3>1. h[<< l, u >>] = h[<< mid + 1, u >>]
      BY <2>3, <2>4, <2>5, <2>6, <2>11
    <3> QED  BY <2>2, <2>5, <2>9, <2>11, <3>1
  <2>12. CASE cmp = 0
    <3>1. h[<< l, u >>] = tbl[mid + 1]
      BY <2>3, <2>4, <2>5, <2>6, <2>12
    <3> QED  BY <2>2, <2>5, <2>12, <3>1
  <2> QED  BY <2>5, <2>10, <2>11, <2>12
<1> QED
  <2> SUFFICES ASSUME NEW l \in 0 .. Len(tbl), NEW u \in 0 .. Len(tbl), l < u
               PROVE  Right(l, u)
    BY <1>2
  <2>1. u - l \in Nat
    BY <1>1
  <2> QED  BY <1>3, <2>1

LEMMA BsearchFinds ==
    ASSUME NEW tbl, Sorted(tbl), NEW key \in Range(Strings)
    PROVE  tbl_bsearch(tbl, key) = IF key \in Range(tbl) THEN key ELSE NoMethod
<1> DEFINE n == Len(tbl)
           Body(f, s) ==
              IF s[1] >= s[2] THEN NoMethod
              ELSE IF strcmp(key, tbl[idx(s) + 1]) < 0 THEN f[<< s[1], idx(s) >>]
              ELSE IF strcmp(key, tbl[idx(s) + 1]) > 0 THEN f[<< idx(s) + 1, s[2] >>]
              ELSE tbl[idx(s) + 1]
           Solves(f) ==
              f = [s \in (0 .. Len(tbl)) \X (0 .. Len(tbl)) |->
                     IF s[1] >= s[2] THEN NoMethod
                     ELSE IF strcmp(key, tbl[idx(s) + 1]) < 0 THEN f[<< s[1], idx(s) >>]
                     ELSE IF strcmp(key, tbl[idx(s) + 1]) > 0 THEN f[<< idx(s) + 1, s[2] >>]
                     ELSE tbl[idx(s) + 1]]
           h == CHOOSE f : Solves(f)
           g == [s \in (0 .. n) \X (0 .. n) |->
                   IF Within(tbl, key, s[1], s[2]) THEN key ELSE NoMethod]
<1>1. bsearch(tbl, key) = h
  BY DEF bsearch
<1>2. n \in Nat /\ DOMAIN tbl = 1 .. n
  BY DEF Sorted
<1>3. ASSUME NEW l \in 0 .. n, NEW u \in 0 .. n
      PROVE  g[<< l, u >>] = Body(g, << l, u >>)
  <2> DEFINE mid == (l + u) \div 2
             cmp == strcmp(key, tbl[mid + 1])
  <2>1. Body(g, << l, u >>) = IF l >= u THEN NoMethod
                        ELSE IF cmp < 0 THEN g[<< l, mid >>]
                        ELSE IF cmp > 0 THEN g[<< mid + 1, u >>]
                        ELSE tbl[mid + 1]
    BY DEF idx
  <2>2. ASSUME NEW a \in 0 .. n, NEW b \in 0 .. n
        PROVE  g[<< a, b >>] = IF Within(tbl, key, a, b) THEN key ELSE NoMethod
    OBVIOUS
  <2>3. CASE l < u
    <3>1. /\ mid \in l .. u - 1 /\ cmp \in Int
          /\ cmp < 0 => (Within(tbl, key, l, u) <=> Within(tbl, key, l, mid))
          /\ cmp > 0 => (Within(tbl, key, l, u) <=> Within(tbl, key, mid + 1, u))
          /\ cmp = 0 => tbl[mid + 1] = key /\ Within(tbl, key, l, u)
      BY <2>3, HalfHasIt
    <3> HIDE DEF mid, cmp, g, Body
    <3>2. mid \in 0 .. n /\ mid + 1 \in 0 .. n /\ ~(l >= u)
      BY <1>2, <2>3, <3>1
    <3>3. CASE cmp < 0
      <4>1. Body(g, << l, u >>) = g[<< l, mid >>]
        BY <2>1, <3>2, <3>3
      <4> QED  BY <2>2, <3>1, <3>2, <3>3, <4>1
    <3>4. CASE cmp > 0
      <4>1. Body(g, << l, u >>) = g[<< mid + 1, u >>]
        BY <2>1, <3>1, <3>2, <3>4
      <4> QED  BY <2>2, <3>1, <3>2, <3>4, <4>1
    <3>5. CASE cmp = 0
      <4>1. Body(g, << l, u >>) = tbl[mid + 1]
        BY <2>1, <3>2, <3>5
      <4> QED  BY <2>2, <3>1, <3>2, <3>5, <4>1
    <3> QED  BY <3>1, <3>3, <3>4, <3>5
  <2>4. CASE ~(l < u)
    <3>1. ~Within(tbl, key, l, u) /\ l >= u
      BY <1>2, <2>4 DEF Within
    <3> HIDE DEF mid, cmp, g, Body
    <3> QED  BY <2>1, <2>2, <3>1
  <2> QED  BY <2>3, <2>4
<1>4. Solves(g)
  <2> DEFINE P == (0 .. n) \X (0 .. n)
  <2>1. g = [s \in P |-> g[s]]
    OBVIOUS
  <2>2. \A s \in P : g[s] = Body(g, s)
    <3> SUFFICES ASSUME NEW s \in P PROVE g[s] = Body(g, s)
      OBVIOUS
    <3>1. PICK l \in 0 .. n, u \in 0 .. n : s = << l, u >>
      OBVIOUS
    <3> HIDE DEF g, Body
    <3> QED  BY <1>3, <3>1
  <2>3. g = [s \in P |-> Body(g, s)]
    <3> HIDE DEF g, Body, P
    <3> QED  BY <2>1, <2>2
  <2> HIDE DEF g
  <2> QED  BY <2>3
<1>5. Solves(h)
  <2> HIDE DEF Solves, g
  <2> QED  BY <1>4
<1>6. Searches(h, tbl, key)
  <2> SUFFICES ASSUME NEW l \in 0 .. n, NEW u \in 0 .. n
               PROVE  h[<< l, u >>] = Body(h, << l, u >>)
    <3> HIDE DEF h
    <3> QED  BY DEF Searches, idx
  <2> HIDE DEF h
  <2> QED  BY <1>5
<1> HIDE DEF h
<1>7. h[<< 0, n >>] = IF Within(tbl, key, 0, n) THEN key ELSE NoMethod
  BY <1>2, <1>6, SearchesFinds
<1>8. Within(tbl, key, 0, n) <=> key \in Range(tbl)
  BY <1>2 DEF Within, Range
<1> QED  BY <1>1, <1>7, <1>8 DEF tbl_bsearch

\* There is an order of the four services, and tbl_sort finds one.
LEMMA FourSorted ==
    ASSUME NEW pl \in [1 .. 4 -> Int]
    PROVE  \E p \in Bijection(1 .. 4, 1 .. 4) :
              \A i, j \in 1 .. 4 : i < j => pl[p[i]] <= pl[p[j]]
<1>1. PICK a \in 1 .. 4 : \A x \in 1 .. 4 : pl[a] <= pl[x]
  OBVIOUS
<1>2. PICK b \in 1 .. 4 \ {a} : \A x \in 1 .. 4 \ {a} : pl[b] <= pl[x]
  OBVIOUS
<1>3. PICK c \in 1 .. 4 \ {a, b} : \A x \in 1 .. 4 \ {a, b} : pl[c] <= pl[x]
  OBVIOUS
<1>4. PICK d \in 1 .. 4 \ {a, b, c} : TRUE
  OBVIOUS
<1> DEFINE p == [i \in 1 .. 4 |-> IF i = 1 THEN a ELSE IF i = 2 THEN b
                                  ELSE IF i = 3 THEN c ELSE d]
<1>5. 1 .. 4 = {1, 2, 3, 4}
  OBVIOUS
<1>6. p \in [1 .. 4 -> 1 .. 4]
  OBVIOUS
<1>7. \A i, j \in 1 .. 4 : p[i] = p[j] => i = j
  BY <1>5
<1>8. \A y \in 1 .. 4 : \E i \in 1 .. 4 : p[i] = y
  BY <1>5
<1>9. p \in Bijection(1 .. 4, 1 .. 4)
  <2> HIDE DEF p
  <2> QED  BY <1>6, <1>7, <1>8 DEF Bijection, Injection, Surjection, IsInjective
<1>10. pl[a] <= pl[b] /\ pl[b] <= pl[c] /\ pl[c] <= pl[d]
  BY <1>1, <1>2, <1>3
<1>11. p[1] = a /\ p[2] = b /\ p[3] = c /\ p[4] = d
  OBVIOUS
<1>12. \A i, j \in 1 .. 4 : i < j => pl[p[i]] <= pl[p[j]]
  <2> HIDE DEF p
  <2> SUFFICES ASSUME NEW i \in 1 .. 4, NEW j \in 1 .. 4, i < j
               PROVE  pl[p[i]] <= pl[p[j]]
    OBVIOUS
  <2>1. pl[a] \in Int /\ pl[b] \in Int /\ pl[c] \in Int /\ pl[d] \in Int
    OBVIOUS
  <2>2. i = 1 \/ i = 2 \/ i = 3
    OBVIOUS
  <2>3. j = 2 \/ j = 3 \/ j = 4
    OBVIOUS
  <2> QED  BY <1>10, <1>11, <2>1, <2>2, <2>3
<1> QED  BY <1>9, <1>12

LEMMA TableIsSorted == Sorted(Table) /\ Range(Table) = Keys
<1>1. services \in [1 .. 4 -> Keys] /\ Len(services) = 4 /\ DOMAIN services = 1 .. 4
  BY DEF services, Keys
<1>2. \A k \in Keys : \E i \in 1 .. 4 : services[i] = k
  BY DEF services, Keys
<1>3. Keys \subseteq Range(Strings)
  BY TableAssumption DEF Range
<1> DEFINE Place(s) == CHOOSE i \in DOMAIN Strings : Strings[i] = s
           pl == [i \in 1 .. 4 |-> Place(services[i])]
           Sorts(p) == \A i, j \in 1 .. 4 :
                          i < j => strcmp(services[p[i]], services[p[j]]) <= 0
           from == CHOOSE p \in Bijection(1 .. 4, 1 .. 4) : Sorts(p)
<1>4. DOMAIN Strings \subseteq Int
  BY TableAssumption
<1>5. pl \in [1 .. 4 -> Int]
  <2>1. \A s \in Range(Strings) : Place(s) \in DOMAIN Strings
    BY DEF Range
  <2> HIDE DEF Place
  <2> QED  BY <1>1, <1>3, <1>4, <2>1
<1>6. \A x, y : strcmp(x, y) = Place(x) - Place(y)
  BY DEF strcmp
<1>7. Bijection(1 .. 4, 1 .. 4) \subseteq [1 .. 4 -> 1 .. 4]
  BY DEF Bijection, Injection
<1>8. \E p \in Bijection(1 .. 4, 1 .. 4) : Sorts(p)
  <2>1. PICK p \in Bijection(1 .. 4, 1 .. 4) :
           \A i, j \in 1 .. 4 : i < j => pl[p[i]] <= pl[p[j]]
    <3> HIDE DEF pl
    <3> QED  BY <1>5, FourSorted
  <2>2. p \in [1 .. 4 -> 1 .. 4]
    BY <1>7
  <2>3. \A i \in 1 .. 4 : pl[p[i]] = Place(services[p[i]]) /\ pl[p[i]] \in Int
    BY <1>5, <2>2
  <2>4. Sorts(p)
    <3> HIDE DEF pl, Place
    <3> QED  BY <1>6, <2>1, <2>3
  <2> QED  BY <2>4
<1>9. from \in Bijection(1 .. 4, 1 .. 4) /\ Sorts(from)
  <2> HIDE DEF Sorts
  <2> QED  BY <1>8
<1>10. Table = [i \in 1 .. 4 |-> services[from[i]]]
  BY <1>1 DEF Table, tbl_sort
<1> HIDE DEF from
<1>11. /\ from \in [1 .. 4 -> 1 .. 4]
       /\ \A y \in 1 .. 4 : \E i \in 1 .. 4 : from[i] = y
  BY <1>9 DEF Bijection, Injection, Surjection
<1>12. /\ Table \in Seq(Range(Strings)) /\ Len(Table) = 4 /\ DOMAIN Table = 1 .. 4
       /\ \A i \in 1 .. 4 : Table[i] = services[from[i]]
  BY <1>1, <1>3, <1>10, <1>11
<1>13. Sorted(Table)
  BY <1>9, <1>12 DEF Sorted
<1>14. Range(Table) = Keys
  BY <1>1, <1>2, <1>11, <1>12 DEF Range
<1> QED  BY <1>13, <1>14

\* What json_rpc finds is the method that is named, if it is one of the four.
LEMMA ServiceIsFound ==
    ASSUME NEW m \in Range(Strings)
    PROVE  tbl_bsearch(Table, m) = IF m \in Keys THEN m ELSE NoMethod
  BY TableIsSorted, BsearchFinds


TextsAre13 ==
    /\ DOMAIN msg_list = 1 .. 13 /\ Len(msg_list) = 13
    /\ \A i \in 1 .. 13 : /\ msg_list[i][1] = 0 <=> i = 13
                          /\ msg_list[i][2] = "success" <=> i = 13

LEMMA Texts == TextsAre13
<1>1. DOMAIN msg_list = 1 .. 13 /\ Len(msg_list) = 13
  BY DEF msg_list
<1>2. /\ msg_list[1][1] = -1 /\ msg_list[2][1] = -2 /\ msg_list[3][1] = -1000
      /\ msg_list[4][1] = -1001 /\ msg_list[5][1] = -1002 /\ msg_list[6][1] = -1003
      /\ msg_list[7][1] = -1004 /\ msg_list[8][1] = -1005 /\ msg_list[9][1] = -1006
      /\ msg_list[10][1] = -1007 /\ msg_list[11][1] = -1008 /\ msg_list[12][1] = -1009
      /\ msg_list[13][1] = 0
  BY DEF msg_list
<1>3. /\ msg_list[1][2] # "success" /\ msg_list[2][2] # "success"
      /\ msg_list[3][2] # "success" /\ msg_list[4][2] # "success"
      /\ msg_list[5][2] # "success" /\ msg_list[6][2] # "success"
      /\ msg_list[7][2] # "success" /\ msg_list[8][2] # "success"
      /\ msg_list[9][2] # "success" /\ msg_list[10][2] # "success"
      /\ msg_list[11][2] # "success" /\ msg_list[12][2] # "success"
      /\ msg_list[13][2] = "success"
  BY DEF msg_list
<1>5. 1 .. 13 = {1, 2, 3, 4, 5, 6, 7, 8, 9, 10, 11, 12, 13}
  OBVIOUS
<1>6. \A i \in 1 .. 13 : msg_list[i][1] = 0 <=> i = 13
  BY <1>2, <1>5
<1>7. \A i \in 1 .. 13 : msg_list[i][2] = "success" <=> i = 13
  BY <1>3, <1>5
<1> QED  BY <1>1, <1>6, <1>7 DEF TextsAre13

\* Every code of msg_list has its own text, and only the code 0 "success".
LEMMA ErrmsgIsOwn ==
    ASSUME NEW k \in 1 .. 13, NEW code, code = msg_list[k][1]
    PROVE  /\ \E m \in Range(msg_list) : m[1] = code /\ m[2] = ups_errmsg(code)
           /\ (ups_errmsg(code) = "success") = (code = E_SUCCESS)
<1>1. TextsAre13
  BY Texts
<1> USE DEF TextsAre13
<1> DEFINE Is(i) == msg_list[i][1] \in {0, code}
           First(i) == Is(i) /\ \A j \in 1 .. 13 : j < i => ~Is(j)
           lp == CHOOSE i \in 1 .. 13 :
                    /\ msg_list[i][1] \in {0, code}
                    /\ \A j \in 1 .. 13 : j < i => msg_list[j][1] \notin {0, code}
           M == { i \in 1 .. 13 : Is(i) }
<1> HIDE DEF msg_list
<1>2. \E i \in 1 .. 13 : First(i)
  <2>1. k \in M /\ M \subseteq Nat
    OBVIOUS
  <2>2. PICK i \in M : \A j \in M : i <= j
    <3> HIDE DEF M
    <3> QED  BY <2>1, LeastNat
  <2>3. i \in 1 .. 13 /\ Is(i)
    BY <2>2
  <2>4. ASSUME NEW j \in 1 .. 13, j < i PROVE ~Is(j)
    BY <2>2, <2>4
  <2> QED  BY <2>3, <2>4
<1>3. lp \in 1 .. 13 /\ First(lp)
  BY <1>2
<1>4. ups_errmsg(code) = msg_list[lp][2]
  BY <1>1 DEF ups_errmsg, FirstOf
<1> HIDE DEF lp
<1>5. msg_list[lp][1] = code
  <2>1. CASE msg_list[lp][1] = 0
    <3>1. lp = 13 /\ ~(k < lp)
      BY <1>1, <1>3, <2>1
    <3> QED  BY <3>1
  <2>2. CASE msg_list[lp][1] # 0
    BY <1>3, <2>2
  <2> QED  BY <2>1, <2>2
<1>6. msg_list[lp] \in Range(msg_list)
  BY <1>1, <1>3 DEF Range
<1>7. (ups_errmsg(code) = "success") = (code = 0)
  BY <1>1, <1>3, <1>4, <1>5
<1> QED  BY <1>4, <1>5, <1>6, <1>7 DEF E_SUCCESS

-----------------------------------------------------------------------------
\* What a document names and what is answered, step by step.
Named == RunsWhatIsNamed /\ MessageMatchesCode

\* The reply that is made for a code of msg_list has the code's own text.
LEMMA ReplyMatches ==
    ASSUME NEW status, NEW code,
           code \in {E_SUCCESS, E_INVALID_REQUEST, E_INVALID_METHOD, E_NO_ALLOW}
    PROVE  LET r == Reply(status, code) IN
              /\ r.code = code
              /\ (r.msg = "success") = (r.code = E_SUCCESS)
              /\ \E m \in Range(msg_list) : m[1] = r.code /\ m[2] = r.msg
<1>1. /\ msg_list[1][1] = -1 /\ msg_list[2][1] = -2
      /\ msg_list[11][1] = -1008 /\ msg_list[13][1] = 0
  BY DEF msg_list
<1>2. \E k \in 1 .. 13 : code = msg_list[k][1]
  <2> HIDE DEF msg_list
  <2> QED  BY <1>1 DEF E_SUCCESS, E_INVALID_REQUEST, E_INVALID_METHOD, E_NO_ALLOW
<1>3. /\ \E m \in Range(msg_list) : m[1] = code /\ m[2] = ups_errmsg(code)
      /\ (ups_errmsg(code) = "success") = (code = E_SUCCESS)
  BY <1>2, ErrmsgIsOwn
<1> QED  BY <1>3 DEF Reply

LEMMA NamedStep ==
    ASSUME HInv, Named, [Next]_vars
    PROVE  Named'
<1> USE DEF Named, RunsWhatIsNamed, MessageMatchesCode
<1>0. Done /\ Named
  BY DEF HInv
<1>1. ASSUME NEW status, NEW code, SendString(status, code), ran' = ran,
             code \in {E_SUCCESS, E_INVALID_REQUEST, E_INVALID_METHOD, E_NO_ALLOW}
      PROVE  MessageMatchesCode' /\ reply'.code = code
  <2>1. reply' = Reply(status, code)
    BY <1>1 DEF SendString
  <2> QED  BY <1>1, <2>1, ReplyMatches
<1>2. CASE Handle
  <2>1. ran' = << >>
    BY <1>0, <1>2 DEF Done, Early, Handle, HandlePost, HandleGet, HandleOther,
                      HandleHead, Arrive
  <2>2. CASE HandlePost \/ HandleHead
    BY <2>1, <2>2 DEF HandlePost, HandleHead
  <2>3. CASE HandleGet \/ HandleOther
    <3>1. \E code \in {E_SUCCESS, E_NO_ALLOW}, status \in Status :
             SendString(status, code)
      BY <2>3 DEF HandleGet, HandleOther, Status
    <3>2. MessageMatchesCode' /\ reply'.code \in {E_SUCCESS, E_NO_ALLOW}
      <4>1. ran' = ran
        BY <2>3 DEF HandleGet, HandleOther, Arrive
      <4> QED  BY <1>1, <3>1, <4>1
    <3> QED  BY <2>1, <3>2 DEF E_SUCCESS, E_NO_ALLOW, E_INVALID_METHOD
  <2> QED  BY <1>2, <2>2, <2>3 DEF Handle
<1>3. CASE Refuse \/ BadRpc
  <2>1. ran' = ran /\ req' = req /\ ran = << >>
    BY <1>0, <1>3 DEF Refuse, BadRpc, Done, Early
  <2>2. \E status \in Status : SendString(status, E_INVALID_REQUEST)
    BY <1>3 DEF Refuse, BadRpc, Status
  <2>3. MessageMatchesCode' /\ reply'.code = E_INVALID_REQUEST
    BY <1>1, <2>1, <2>2
  <2> QED  BY <2>1, <2>3 DEF E_INVALID_REQUEST, E_INVALID_METHOD
<1>4. CASE UnknownMethod
  <2>1. ran' = ran /\ req' = req /\ ran = << >>
    BY <1>0, <1>4 DEF UnknownMethod, Done, Early
  <2>2. MessageMatchesCode'
    BY <1>1, <1>4, <2>1 DEF UnknownMethod
  <2>3. req.method \in Range(Strings)
    BY <1>0, <1>4 DEF UnknownMethod, Done, Requests
  <2>4. req.method \notin Keys
    BY <1>4, <2>3, ServiceIsFound DEF UnknownMethod
  <2> QED  BY <2>1, <2>2, <2>4
<1>5. CASE RunMethod
  <2>1. ran = << >> /\ req' = req /\ req.method \in Range(Strings)
    BY <1>0, <1>5 DEF RunMethod, Done, Early, Requests
  <2>2. tbl_bsearch(Table, req.method) = req.method
    BY <1>5, <2>1, ServiceIsFound DEF RunMethod
  <2>3. ran' = << req.method >> /\ reply'.code = E_SUCCESS
    BY <1>5, <2>1, <2>2 DEF RunMethod, Result
  <2> QED  BY <2>1, <2>3 DEF E_SUCCESS, E_INVALID_METHOD
<1>6. CASE MethodFails
  <2>1. /\ ran' = ran /\ reply'.code = E_NO_MEM
        /\ reply'.msg \in {"pool alloc error", "array alloc error"}
    <3>1. \A key : NoMemory(key) \subseteq
                      {"pool alloc error", "array alloc error"}
      BY DEF NoMemory
    <3>2. PICK msg \in {"pool alloc error", "array alloc error"} :
             ran' = ran /\ reply' = Result(E_NO_MEM, msg)
      BY <1>6, <3>1 DEF MethodFails
    <3> QED  BY <3>2 DEF Result
  <2>2. ran = << >>
    BY <1>0, <1>6 DEF MethodFails, Done, Early
  <2>3. reply'.msg # "success"
    BY <2>1
  <2>4. E_NO_MEM # E_SUCCESS /\ E_NO_MEM # E_INVALID_METHOD
    BY DEF E_NO_MEM, E_SUCCESS, E_INVALID_METHOD
  <2>5. RunsWhatIsNamed'
    BY <2>1, <2>2, <2>4
  <2>6. MessageMatchesCode'
    BY <2>1, <2>2, <2>3, <2>4
  <2> QED  BY <2>5, <2>6
<1>7. CASE EndOfRequest \/ WorkerDies
  BY <1>7 DEF EndOfRequest, WorkerDies, Forget
<1>8. CASE Progress /\ ~(Refuse \/ BadRpc \/ UnknownMethod \/ RunMethod
                         \/ MethodFails \/ EndOfRequest \/ WorkerDies)
  <2>1. req' = req /\ ran' = ran /\ reply' = reply /\ stage' # "output"
    BY <1>8
       DEF Progress, Return, Written, Close, AfterFree, BodyArrives, BodyFails,
           GetBody, GetBodyFails, NoContent, Accept, NoBuffer, OutputRefused,
           HeaderFails, Output, LogRefused, AfterOutput, life, work
  <2> QED  BY <1>0, <2>1
<1>9. CASE UNCHANGED vars
  BY <1>0, <1>9 DEF vars, work
<1> QED
  BY <1>2, <1>3, <1>4, <1>5, <1>7, <1>8, <1>9, <1>6 DEF Next, Progress

LEMMA NamedIsInvariant == Spec => []Named
<1>1. Init => Named
  BY DEF Init, Named, RunsWhatIsNamed, MessageMatchesCode
<1>2. HInv /\ Named /\ [Next]_vars => Named'
  BY NamedStep
<1> QED  BY <1>1, <1>2, HInvIsInvariant, PTL DEF Spec

\* For any strings that a document can give as "method": what runs is the
\* method it names, found by bsearch in the table that tbl_sort made, and
\* only a document that names none of the four is told so (json_rpc).
THEOREM MethodIsTheOneNamed == Spec => []RunsWhatIsNamed
<1>1. Named => RunsWhatIsNamed
  BY DEF Named
<1> QED  BY <1>1, NamedIsInvariant, PTL

\* Every refusal carries the text that msg_list has for its code, and only
\* the code 0 says "success" (ups_errmsg, send_string).
THEOREM MessageIsTrue == Spec => []MessageMatchesCode
<1>1. Named => MessageMatchesCode
  BY DEF Named
<1> QED  BY <1>1, NamedIsInvariant, PTL

-----------------------------------------------------------------------------
\* The types that HInv leaves open, step by step.
Typed ==
    /\ ret \in {Null, NGX_OK, NGX_ERROR, NGX_DONE, 400, 500}
    /\ text \in 0 .. MaxParts \cup {Null}
    /\ ran = << >> \/ \E key \in Keys : ran = << key >>
    /\ touched \in BOOLEAN

LEMMA TypedStep ==
    ASSUME HInv, Named, Typed, [Next]_vars
    PROVE  Typed'
<1> USE DEF Typed
<1>0. Done /\ Typed
  BY DEF HInv
<1>1. CASE Handle
  BY <1>0, <1>1 DEF Handle, HandlePost, HandleGet, HandleOther, HandleHead,
                    Arrive, PostReturns
<1>2. CASE GetBody
  <2>1. req.parts \in 0 .. MaxParts
    BY <1>0 DEF Done, Requests
  <2>2. \A b \in Buffers(req.parts) : Read(b) \in 0 .. req.parts \cup {Null}
    BY <2>1, BuffersAreRead
  <2> QED  BY <1>0, <1>2, <2>1, <2>2 DEF GetBody, ReadFromFile, life
<1>3. CASE RunMethod
  <2>1. ran = << >> /\ req.method \in Range(Strings)
    BY <1>0, <1>3 DEF RunMethod, Done, Early, Requests
  <2>2. tbl_bsearch(Table, req.method) \in Keys
    BY <1>3, <2>1, ServiceIsFound DEF RunMethod
  <2> QED  BY <1>0, <1>3, <2>1, <2>2 DEF RunMethod, life
<1>4. CASE EndOfRequest \/ WorkerDies
  BY <1>4 DEF EndOfRequest, WorkerDies, Forget
<1>5. CASE Progress /\ ~(GetBody \/ RunMethod \/ EndOfRequest \/ WorkerDies)
  <2>1. text' = text /\ ran' = ran
    BY <1>5
       DEF Progress, Return, Written, Close, AfterFree, BodyArrives, BodyFails,
           GetBodyFails, NoContent, Accept, Refuse, BadRpc, UnknownMethod,
           MethodFails, NoBuffer, OutputRefused, HeaderFails, Output,
           LogRefused, work
  <2>2. ret' \in {Null, NGX_OK, NGX_ERROR, NGX_DONE, 400, 500}
    BY <1>0, <1>5
       DEF Progress, Return, Written, Close, AfterFree, BodyArrives, BodyFails,
           GetBodyFails, NoContent, Accept, Refuse, BadRpc, UnknownMethod,
           MethodFails, NoBuffer, OutputRefused, HeaderFails, Output,
           LogRefused, life, Returns
  <2>3. touched' = touched \/ touched' = (touched \/ Freed)
    BY <1>5
       DEF Progress, Return, Written, Close, AfterFree, BodyArrives, BodyFails,
           GetBodyFails, NoContent, Accept, Refuse, BadRpc, UnknownMethod,
           MethodFails, NoBuffer, OutputRefused, HeaderFails, Output,
           LogRefused, Use
  <2>4. touched' \in BOOLEAN
    BY <1>0, <2>3
  <2> QED  BY <1>0, <2>1, <2>2, <2>4
<1>6. CASE UNCHANGED vars
  BY <1>0, <1>6 DEF vars, life, work
<1> QED  BY <1>1, <1>2, <1>3, <1>4, <1>5, <1>6 DEF Next, Progress

\* Whatever nginx and the client do, every variable has its type: the count
\* of ngx_http_request_t is never negative or above 2, at most one method
\* runs for a request and at most one status is sent for it.
THEOREM TypeCorrectness == Spec => []TypeOK
<1>1. Init => Typed
  BY DEF Init, Typed
<1>2. HInv /\ Named /\ Typed /\ [Next]_vars => Typed'
  BY TypedStep
<1>3. HInv /\ Typed => TypeOK
  <2> SUFFICES ASSUME HInv, Typed PROVE TypeOK
    OBVIOUS
  <2>1. Held /\ Done
    BY DEF HInv
  <2>2. ran \in Seq(Keys) /\ Len(ran) <= 1
    <3>1. CASE ran = << >>
      BY <3>1
    <3>2. CASE \E key \in Keys : ran = << key >>
      <4>1. PICK key \in Keys : ran = << key >>
        BY <3>2
      <4> QED  BY <4>1
    <3> QED  BY <3>1, <3>2 DEF Typed
  <2>3. answers \in Seq(Status) /\ Len(answers) <= 1
    <3>1. CASE answers = << >>
      BY <3>1
    <3>2. CASE \E rc \in Status : answers = << rc >>
      <4>1. PICK rc \in Status : answers = << rc >>
        BY <3>2
      <4> QED  BY <4>1
    <3> QED  BY <2>1, <3>1, <3>2 DEF Done
  <2>4. touched \in BOOLEAN
    BY DEF Typed
  <2> QED  BY <2>1, <2>2, <2>3, <2>4 DEF Held, Done, Typed, TypeOK
<1> QED  BY <1>1, <1>2, <1>3, HInvIsInvariant, NamedIsInvariant, PTL DEF Spec

=============================================================================
