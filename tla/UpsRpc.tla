------------------------------- MODULE UpsRpc -------------------------------
(***************************************************************************)
(* A POSTed document from the moment its body is read to its reply:        *)
(* ngx_dyups_body_handler (ngx_dyn_ups.c), json_rpc (json_rpc.c), and the  *)
(* four methods lst_upstream, add_upstream, del_upstream and mdf_upstream, *)
(* which walk the document and call the functions of UpsPeers.             *)
(*                                                                         *)
(* The document is read once, from left to right, so what it holds is      *)
(* chosen when it is looked at: an item of "params" or of "peers" is one   *)
(* that its method refuses, or one that opens an upstream or starts a call.*)
(***************************************************************************)
EXTENDS UpsPeers

CONSTANTS
    Http, Stream,  \* the two kinds, in the order lst_upstream lists them
    Order,         \* the upstreams in the order of the configuration
    MaxItems       \* bound: items of "params" and "peers" in a document

ASSUME RpcAssumption ==
    /\ Http \in Kind /\ Stream \in Kind
    /\ Order \in Seq(Upstream) /\ Range(Order) = Upstream
    /\ MaxItems \in Nat

VARIABLES
    phase,    \* where the worker is: see Phase
    method,   \* the method of the document
    opened,   \* the "http" or "stream" object the walk of "peers" is in
    left,     \* the items the document may still have
    succ,     \* ret_success_cnt
    failed,   \* ret_failed_cnt
    listing,  \* the rows in the array ups of lst_upstream
    reply,    \* the HTTP status, and the code and counts of the reply
    before,   \* the lists when the document arrived
    answers   \* what the calls for the document returned

doc     == <<method, opened, left>>
counts  == <<succ, failed, answers>>
rpcVars == <<vars, phase, doc, counts, listing, reply, before>>

Changes == {"add", "del", "edit"}

E_INVALID_REQUEST == -1
E_INVALID_METHOD  == -2
E_NO_MEM          == -3

NGX_HTTP_OK == 200
NGX_HTTP_NO_CONTENT == 204
NGX_HTTP_BAD_REQUEST == 400
NGX_HTTP_INTERNAL_SERVER_ERROR == 500

Reply(status, code, s, f) ==
    [status |-> status, code |-> code, success |-> s, failed |-> f]

NoReply == Reply(0, 0, 0, 0)

-----------------------------------------------------------------------------
(***************************************************************************)
(* The document arrives.                                                   *)
(***************************************************************************)

\* No body; not a JSON object; no method, or params that is no array; an
\* unknown method; a method whose pool cannot be created; no buffer for any
\* of the last three answers.
Rejections ==
    { Reply(NGX_HTTP_NO_CONTENT, 0, 0, 0),
      Reply(NGX_HTTP_BAD_REQUEST, E_INVALID_REQUEST, 0, 0),
      Reply(NGX_HTTP_OK, E_INVALID_REQUEST, 0, 0),
      Reply(NGX_HTTP_OK, E_INVALID_METHOD, 0, 0),
      Reply(NGX_HTTP_OK, E_NO_MEM, 0, 0),
      Reply(NGX_HTTP_INTERNAL_SERVER_ERROR, 0, 0, 0) }

Reject ==
    /\ phase = "free"
    /\ phase' = "replied"
    /\ reply' \in Rejections
    /\ before' = list
    /\ UNCHANGED <<vars, doc, counts, listing>>

Accept ==
    /\ phase = "free"
    /\ phase' = "params"
    /\ method' \in Changes \cup {"lst"}
    /\ left' = MaxItems
    /\ before' = list
    /\ UNCHANGED <<vars, opened, counts, listing, reply>>

-----------------------------------------------------------------------------
(***************************************************************************)
(* add_upstream, del_upstream and mdf_upstream.                            *)
(***************************************************************************)
Item == left > 0 /\ left' = left - 1

Failed == failed' = failed + 1

\* An item of "params" without "http" and "stream", without an "upsname" or
\* without "peers".
RefuseParam ==
    /\ phase = "params" /\ method \in Changes
    /\ Item /\ Failed
    /\ UNCHANGED <<vars, phase, method, opened, succ, answers, listing, reply,
                   before>>

OpenPeers ==
    /\ phase = "params" /\ method \in Changes
    /\ Item
    /\ opened' \in Kind \X (Upstream \cup {NoUps})
    /\ phase' = "peers"
    /\ UNCHANGED <<vars, method, counts, listing, reply, before>>

\* A peer without the strings its method needs.
RefusePeer ==
    /\ phase = "peers" /\ pc = "idle"
    /\ Item /\ Failed
    /\ UNCHANGED <<vars, phase, method, opened, succ, answers, listing, reply,
                   before>>

\* The call a peer stands for, in the upstream its "params" item names.
CallPeer ==
    /\ phase = "peers"
    /\ Item
    /\ \E c \in Calls :
          /\ c.op = method /\ <<c.to.kind, c.to.ups>> = opened
          /\ Start(c)
    /\ UNCHANGED <<phase, method, opened, counts, listing, reply, before>>

\* The call runs.
RunCall ==
    /\ Step
    /\ UNCHANGED <<phase, doc, counts, listing, reply, before>>

MutSucceeded(r) == r >= 0
Succeeded(r) == r > 0

\* Its return value is counted, and the walk goes on.
CountAnswer ==
    /\ Resume
    /\ IF Succeeded(ret) THEN succ' = succ + ret /\ UNCHANGED failed
                         ELSE UNCHANGED succ /\ Failed
    /\ answers' = answers \cup {ret}
    /\ UNCHANGED <<phase, doc, listing, reply, before>>

\* mdf_upstream logs the failure with "server", which is NULL for a peer that
\* only gives its name; del_upstream looks first.  The worker dies if the log
\* takes warnings.
LogKills ==
    /\ Resume
    /\ method = "edit" /\ ~Succeeded(ret) /\ call.server = NoStr
    /\ phase' = "crashed"
    /\ UNCHANGED <<doc, counts, listing, reply, before>>

MutClosePeers ==
    /\ phase = "peers" /\ pc = "idle"
    /\ UNCHANGED rpcVars
ClosePeers ==
    /\ phase = "peers" /\ pc = "idle"
    /\ phase' = "params"
    /\ UNCHANGED <<vars, doc, counts, listing, reply, before>>

-----------------------------------------------------------------------------
(***************************************************************************)
(* lst_upstream.                                                           *)
(***************************************************************************)

\* The peers of both groups, and as many of them as fit in the array that
\* was made from number.
MutRow(u) ==
    [ups |-> u, number |-> number[<<u, FALSE>>],
     weight |-> total_weight[<<u, FALSE>>],
     peers |-> SubSeq(list[<<u, FALSE>>], 1, number[<<u, FALSE>>])]
Row(u) ==
    LET Add(f) == f[<<u, FALSE>>] + (IF next[u] THEN f[<<u, TRUE>>] ELSE 0)
        walk == list[<<u, FALSE>>] \o
                  (IF next[u] THEN list[<<u, TRUE>>] ELSE << >>)
    IN  [ups |-> u, number |-> Add(number), weight |-> Add(total_weight),
         peers |-> SubSeq(walk, 1, Min({Add(number), Len(walk)}))]

\* An allocation fails after the row was pushed: it has no array of peers.
BrokenRow(u) == [ups |-> u, number |-> 0, weight |-> 0, peers |-> NoVal]

Broken(row) == row.peers = NoVal

Listed(k) == { u \in Upstream : /\ k \in Built \cap Conf /\ KindOf[u] = k
                                /\ ZoneOf[u] # NoZone }

Before(u) == { Order[i] : i \in { i \in DOMAIN Order :
                \E j \in DOMAIN Order : i < j /\ Order[j] = u } }

\* hdmp_upstreams and sdmp_upstreams push the rows of the upstreams us, in
\* their order, and stop when an allocation fails.
Dump(rows, us) ==
    { rows \cup { Row(u) : u \in us } } \cup
    UNION { LET done == rows \cup { Row(v) : v \in us \cap Before(u) }
            IN  { done, done \cup {BrokenRow(u)} } : u \in us }

\* No params, or none in it: every upstream of both kinds.
ListAll ==
    /\ phase = "params" /\ method = "lst"
    /\ left = MaxItems
    /\ \E rows \in Dump({}, Listed(Http)) :
          listing' \in Dump(rows, Listed(Stream))
    /\ phase' = "done"
    /\ UNCHANGED <<vars, doc, counts, reply, before>>

\* One upstream that an item of "params" names.
ListOne ==
    /\ phase = "params" /\ method = "lst"
    /\ Item
    /\ \E k \in Kind, u \in Upstream \cup {NoUps} :
          listing' \in Dump(listing, Listed(k) \cap {u})
    /\ UNCHANGED <<vars, phase, method, opened, counts, reply, before>>

-----------------------------------------------------------------------------
(***************************************************************************)
(* The reply.                                                              *)
(***************************************************************************)
AtEnd ==
    \/ phase = "done"
    \/ phase = "params" /\ (method = "lst" => left < MaxItems)

\* Printing a row without peers reads through NULL, and so does copying a
\* reply that cJSON had no memory to print.
Crash ==
    /\ AtEnd
    /\ phase' = "crashed"
    /\ UNCHANGED <<vars, doc, counts, listing, reply, before>>

Answered ==
    /\ AtEnd
    /\ \A row \in listing : ~Broken(row)
    /\ phase' = "replied"
    /\ reply' \in { Reply(NGX_HTTP_OK, E_SUCCESS, succ, failed),
                    Reply(NGX_HTTP_INTERNAL_SERVER_ERROR, 0, 0, 0) }
    /\ UNCHANGED <<vars, doc, counts, listing, before>>

\* The worker waits for the next request, or the master starts a new worker
\* that finds the zones as they are.
Ready ==
    /\ phase \in {"replied", "crashed"}
    /\ phase' = "free"
    /\ method' = "lst" /\ opened' = << >> /\ left' = 0
    /\ succ' = 0 /\ failed' = 0 /\ answers' = {}
    /\ listing' = {} /\ reply' = NoReply /\ before' = << >>
    /\ UNCHANGED vars

-----------------------------------------------------------------------------
RpcInit ==
    /\ Init
    /\ phase = "free"
    /\ method = "lst" /\ opened = << >> /\ left = 0
    /\ succ = 0 /\ failed = 0 /\ answers = {}
    /\ listing = {} /\ reply = NoReply /\ before = << >>

Serve ==
    \/ RefuseParam \/ OpenPeers \/ RefusePeer \/ CallPeer \/ RunCall
    \/ CountAnswer \/ LogKills \/ ClosePeers \/ ListAll \/ ListOne \/ Crash
    \/ Answered

RpcNext == Reject \/ Accept \/ Serve \/ Ready

\* The handler is one function call: once a document is accepted nothing
\* else runs in the worker, and every document ends.
RpcSpec == RpcInit /\ [][RpcNext]_rpcVars

RpcFairSpec == RpcSpec /\ WF_rpcVars(Serve)

-----------------------------------------------------------------------------
(***************************************************************************)
(* Properties.                                                             *)
(***************************************************************************)
Replied(m) == phase = "replied" /\ reply.code = E_SUCCESS
                /\ reply.status = NGX_HTTP_OK /\ method = m

\* The number of peers in all groups.
Size(lists) == SumFunctionOnSet([g \in Group |-> Len(lists[g])], Group)

\* What a reply says of the document as a whole: "success" is the number of
\* peers that "del" took out of all groups; "add" put in at least as many,
\* and exactly as many if no peer failed; without a success, "edit" and
\* "del" have changed nothing.
SuccessIsReal ==
    /\ Replied("del") => Size(before) - Size(list) = reply.success
    /\ Replied("add") => LET new == Size(list) - Size(before)
                         IN  IF reply.failed = 0 THEN new = reply.success
                             ELSE new >= reply.success
    /\ Replied("edit") => Size(before) = Size(list)
    /\ (Replied("edit") \/ Replied("del")) /\ reply.success = 0 =>
          list = before

\* A reply without failures means that every call did something.
FailuresAreCounted ==
    \A m \in Changes :
       Replied(m) /\ reply.failed = 0 => \A r \in answers : r > 0

\* A listing that is sent shows each upstream as it is, the backup peers
\* after the others, under a number and a weight that are those of the peers
\* shown.
ListingIsCurrent ==
    Replied("lst") =>
       \A row \in listing :
          /\ row.peers = list[<<row.ups, FALSE>>] \o list[<<row.ups, TRUE>>]
          /\ row.number = Len(row.peers)
          /\ row.weight = Total(row.peers)

\* The worker gets back to its event loop, with a reply or a crash.
DocumentEnds == phase = "params" ~> phase \in {"replied", "crashed"}

\* README.md: a request that failed has a code other than 0, and "No
\* upstream found" is one of them.
NoUpstreamIsReported ==
    \A m \in Changes : Replied(m) => E_NO_UPS \notin answers

=============================================================================
