---------------------------- MODULE UpsRpcProofs ----------------------------
(***************************************************************************)
(* Theorems about UpsRpc: a worker that serves documents is a worker of    *)
(* UpsPeers, so what is proved there holds for any document; and a reply   *)
(* tells of every call that failed.                                        *)
(***************************************************************************)
EXTENDS UpsRpc, UpsPeersCalls

\* A step of the worker is a call's beginning, step or end, or none of them.
LEMMA RpcStepIsPeersStep ==
    ASSUME [RpcNext]_rpcVars PROVE [Next]_vars
<1>1. CASE CallPeer
  <2>1. PICK c \in Calls : Start(c)
    BY <1>1 DEF CallPeer
  <2> QED
    BY <2>1 DEF Next, Begin
<1>2. CASE RunCall
  BY <1>2 DEF RunCall, Next
<1>3. CASE CountAnswer \/ LogKills
  BY <1>3 DEF CountAnswer, LogKills, Next
<1>4. CASE \/ Reject \/ Accept \/ RefuseParam \/ OpenPeers \/ RefusePeer
           \/ ClosePeers \/ ListAll \/ ListOne \/ Crash \/ Answered \/ Ready
           \/ UNCHANGED rpcVars
  BY <1>4 DEF Reject, Accept, RefuseParam, OpenPeers, RefusePeer, ClosePeers,
     ListAll, ListOne, Crash, Answered, Ready, rpcVars
<1> QED
  BY <1>1, <1>2, <1>3, <1>4 DEF RpcNext, Serve

\* The methods only change the peer groups by calls of UpsPeers.
THEOREM RpcImplementsPeers == RpcSpec => Spec
<1>1. RpcInit => Init
  BY DEF RpcInit
<1>2. [RpcNext]_rpcVars => [Next]_vars
  BY RpcStepIsPeersStep
<1> QED
  BY <1>1, <1>2, PTL DEF RpcSpec, Spec

\* Whatever the documents, the groups are tables whose summary is right and
\* that keep a peer, and no document makes a pool forget a chunk.
THEOREM RpcKeepsTables ==
    RpcSpec => /\ ImplementsPeerTable /\ []CountersAgree
               /\ GroupsStayServed /\ SlabConserved
BY RpcImplementsPeers, Refinement, CountersCorrectness, StaysServed,
   SlabCorrectness, PTL

-----------------------------------------------------------------------------
(***************************************************************************)
(* The failures of a document.                                             *)
(***************************************************************************)

\* Calls run while "peers" is walked; one that did nothing has been counted,
\* and the reply says so.
Counted ==
    /\ pc # "idle" => phase = "peers"
    /\ answers \subseteq Int /\ failed \in Nat /\ ret \in Int
    /\ (\E r \in answers : ~(r > 0)) => failed > 0
    /\ (phase = "replied" /\ reply.status = NGX_HTTP_OK
          /\ reply.code = E_SUCCESS) => reply.failed = failed

\* Requests that are rejected have another status or code.
LEMMA RejectionsDiffer ==
    ASSUME NEW r \in Rejections
    PROVE  ~(r.status = NGX_HTTP_OK /\ r.code = E_SUCCESS)
BY DEF Rejections, Reply, NGX_HTTP_OK, NGX_HTTP_NO_CONTENT,
   NGX_HTTP_BAD_REQUEST, NGX_HTTP_INTERNAL_SERVER_ERROR, E_SUCCESS,
   E_INVALID_REQUEST, E_INVALID_METHOD, E_NO_MEM

\* A call only runs while "peers" is walked.
LEMMA PhaseStep ==
    ASSUME pc # "idle" => phase = "peers", [RpcNext]_rpcVars
    PROVE  pc' # "idle" => phase' = "peers"
<1>1. CASE CallPeer \/ RunCall \/ CountAnswer
  <2>1. phase' = phase
    BY <1>1 DEF CallPeer, RunCall, CountAnswer
  <2>2. CASE CallPeer
    BY <2>1, <2>2 DEF CallPeer
  <2>3. CASE RunCall
    <3>1. pc # "idle"
      BY <2>3 DEF RunCall, Step, AddPeer, AddFails, AddReturns, DelSkips,
         DelRefuses, DelUnlinks, DelReturns, EditSkips, EditSets, EditReturns
    <3> QED
      BY <2>1, <3>1
  <2>4. CASE CountAnswer
    BY <2>4 DEF CountAnswer, Resume
  <2> QED
    BY <1>1, <2>2, <2>3, <2>4
<1>2. CASE \/ Reject \/ Accept \/ RefuseParam \/ OpenPeers \/ RefusePeer
           \/ ClosePeers \/ ListAll \/ ListOne \/ Crash \/ Answered \/ Ready
           \/ UNCHANGED rpcVars
  BY <1>2 DEF Reject, Accept, RefuseParam, OpenPeers, RefusePeer, ClosePeers,
     ListAll, ListOne, Crash, AtEnd, Answered, Ready, rpcVars, vars
<1>3. CASE LogKills
  BY <1>3 DEF LogKills, Resume
<1> QED
  BY <1>1, <1>2, <1>3 DEF RpcNext, Serve

LEMMA CountedStep ==
    ASSUME Counted, IInv', [RpcNext]_rpcVars PROVE Counted'
<1>1. ret' \in Int /\ (pc' # "idle" => phase' = "peers")
  BY PhaseStep DEF IInv, TypeOK, Counted
<1>2. CASE CountAnswer
  <2>1. /\ answers' = answers \cup {ret} /\ ret \in Int
        /\ phase' = phase /\ phase = "peers"
    BY <1>2 DEF CountAnswer, Resume, Counted
  <2>2. CASE ret > 0
    <3>1. failed' = failed
      BY <1>2, <2>2 DEF CountAnswer, Succeeded
    <3>2. \A r \in answers' : ~(r > 0) => r \in answers
      BY <2>1, <2>2
    <3> QED
      BY <1>1, <2>1, <3>1, <3>2 DEF Counted
  <2>3. CASE ~(ret > 0)
    <3>1. failed' = failed + 1
      BY <1>2, <2>3 DEF CountAnswer, Succeeded, Failed
    <3> QED
      BY <1>1, <2>1, <3>1 DEF Counted
  <2> QED
    BY <2>2, <2>3
<1>3. CASE RefuseParam \/ RefusePeer
  <2>1. failed' = failed + 1 /\ answers' = answers /\ phase' = phase
    BY <1>3 DEF RefuseParam, RefusePeer, Failed
  <2>2. phase # "replied"
    BY <1>3 DEF RefuseParam, RefusePeer
  <2> QED
    BY <1>1, <2>1, <2>2 DEF Counted
<1>4. CASE Reject
  <2>1. UNCHANGED <<answers, failed>> /\ reply' \in Rejections
    BY <1>4 DEF Reject, counts
  <2> QED
    BY <1>1, <2>1, RejectionsDiffer DEF Counted
<1>5. CASE Answered
  <2>1. UNCHANGED <<answers, failed>>
    BY <1>5 DEF Answered, counts
  <2>2. \/ reply' = Reply(NGX_HTTP_OK, E_SUCCESS, succ, failed)
        \/ reply' = Reply(NGX_HTTP_INTERNAL_SERVER_ERROR, 0, 0, 0)
    BY <1>5 DEF Answered
  <2>3. (reply'.status = NGX_HTTP_OK) => reply'.failed = failed'
    BY <2>1, <2>2 DEF Reply, NGX_HTTP_OK, NGX_HTTP_INTERNAL_SERVER_ERROR
  <2> QED
    BY <1>1, <2>1, <2>3 DEF Counted
<1>6. CASE Ready
  BY <1>1, <1>6 DEF Ready, Counted
<1>7. CASE \/ Accept \/ OpenPeers \/ ClosePeers \/ ListAll \/ ListOne \/ Crash
           \/ LogKills
  <2>1. UNCHANGED <<answers, failed>> /\ phase' # "replied"
    BY <1>7 DEF Accept, OpenPeers, ClosePeers, ListAll, ListOne, Crash,
       LogKills, counts
  <2> QED
    BY <1>1, <2>1 DEF Counted
<1>8. CASE CallPeer \/ RunCall \/ UNCHANGED rpcVars
  <2>1. UNCHANGED <<answers, failed, phase, reply>>
    BY <1>8 DEF CallPeer, RunCall, rpcVars, counts
  <2> QED
    BY <1>1, <2>1 DEF Counted
<1> QED
  BY <1>2, <1>3, <1>4, <1>5, <1>6, <1>7, <1>8 DEF RpcNext, Serve

\* A reply of add.c, del.c or mdf.c with "failed": 0 means that every call
\* for the document returned a count above zero.
THEOREM FailuresCorrectness == RpcSpec => []FailuresAreCounted
<1>1. RpcInit => Counted
  BY DEF RpcInit, Init, Counted, E_SUCCESS
<1>2. Counted /\ IInv' /\ [RpcNext]_rpcVars => Counted'
  BY CountedStep
<1>3. Counted => FailuresAreCounted
  BY DEF Counted, FailuresAreCounted, Replied
<1> QED
  BY <1>1, <1>2, <1>3, RpcImplementsPeers, Invariance, PTL DEF RpcSpec

-----------------------------------------------------------------------------
(***************************************************************************)
(* The rows of a listing.                                                  *)
(***************************************************************************)

\* While a listing is built no call runs, so that its rows stay true.
RowsAreTrue ==
    /\ phase = "peers" => method \in Changes
    /\ phase = "free" \/ method # "lst" => listing = {}
    /\ \A row \in listing :
          \E u \in Upstream : row = Row(u) \/ row = BrokenRow(u)
    /\ Replied("lst") => \A row \in listing : ~Broken(row)

\* lst_upstream adds rows of the present state.
LEMMA DumpRows ==
    ASSUME NEW rows, NEW us, NEW res \in Dump(rows, us), us \subseteq Upstream,
           NEW row \in res
    PROVE  row \in rows \/ \E u \in Upstream : row = Row(u) \/ row = BrokenRow(u)
<1>1. CASE res = rows \cup { Row(u) : u \in us }
  BY <1>1
<1>2. CASE res # rows \cup { Row(u) : u \in us }
  <2>1. PICK u \in us :
           LET done == rows \cup { Row(v) : v \in us \cap Before(u) }
           IN  res \in { done, done \cup {BrokenRow(u)} }
    BY <1>2 DEF Dump
  <2>2. row \in rows \cup { Row(v) : v \in us \cap Before(u) }
        \/ row = BrokenRow(u)
    BY <2>1
  <2> QED  BY <2>2
<1> QED  BY <1>1, <1>2

\* The upstreams of a kind, and the one an item names.
LEMMA ListedIn ==
    ASSUME NEW k PROVE Listed(k) \subseteq Upstream
BY DEF Listed

LEMMA RowsSame ==
    ASSUME UNCHANGED vars, NEW u PROVE Row(u)' = Row(u)
<1>1. list' = list /\ number' = number /\ total_weight' = total_weight
      /\ next' = next
  BY DEF vars, peers
<1> QED  BY <1>1 DEF Row

LEMMA RowsStep ==
    ASSUME RowsAreTrue, pc # "idle" => phase = "peers", [RpcNext]_rpcVars
    PROVE  RowsAreTrue'
<1>1. CASE CallPeer \/ RunCall \/ CountAnswer
  <2>1. phase' = phase /\ method' = method /\ listing' = listing
    BY <1>1 DEF CallPeer, RunCall, CountAnswer, doc
  <2>2. phase = "peers"
    <3>1. RunCall => pc # "idle"
      BY DEF RunCall, Step, AddPeer, AddFails, AddReturns, DelSkips,
         DelRefuses, DelUnlinks, DelReturns, EditSkips, EditSets, EditReturns
    <3>2. CountAnswer => pc # "idle"
      BY DEF CountAnswer, Resume
    <3> QED  BY <1>1, <3>1, <3>2 DEF CallPeer
  <2>3. listing = {}
    BY <2>2 DEF RowsAreTrue, Changes
  <2> QED  BY <2>1, <2>2, <2>3 DEF RowsAreTrue, Replied
<1>2. CASE ListAll
  <2>1. PICK rows \in Dump({}, Listed(Http)) : listing' \in Dump(rows, Listed(Stream))
    BY <1>2 DEF ListAll
  <2>2. UNCHANGED vars /\ phase' = "done" /\ method' = method
        /\ method = "lst"
    BY <1>2 DEF ListAll, doc
  <2>3. \A row \in listing' :
           \E u \in Upstream : row = Row(u) \/ row = BrokenRow(u)
    BY <2>1, DumpRows, ListedIn
  <2>4. \A row \in listing' :
           \E u \in Upstream : row = Row(u)' \/ row = BrokenRow(u)'
    BY <2>2, <2>3, RowsSame DEF BrokenRow
  <2> QED  BY <2>2, <2>4 DEF RowsAreTrue, Replied
<1>3. CASE ListOne
  <2>1. PICK k \in Kind, u \in Upstream \cup {NoUps} :
           listing' \in Dump(listing, Listed(k) \cap {u})
    BY <1>3 DEF ListOne
  <2>2. UNCHANGED vars /\ phase' = phase /\ method' = method
        /\ method = "lst" /\ phase = "params"
    BY <1>3 DEF ListOne
  <2>3. Listed(k) \cap {u} \subseteq Upstream
    BY ListedIn
  <2>4. \A row \in listing' :
           \E v \in Upstream : row = Row(v) \/ row = BrokenRow(v)
    <3> SUFFICES ASSUME NEW row \in listing'
                 PROVE  \E v \in Upstream : row = Row(v) \/ row = BrokenRow(v)
      OBVIOUS
    <3>1. row \in listing
          \/ \E v \in Upstream : row = Row(v) \/ row = BrokenRow(v)
      BY <2>1, <2>3, DumpRows
    <3> QED  BY <3>1 DEF RowsAreTrue
  <2>5. \A row \in listing' :
           \E v \in Upstream : row = Row(v)' \/ row = BrokenRow(v)'
    BY <2>2, <2>4, RowsSame DEF BrokenRow
  <2> QED  BY <2>2, <2>5 DEF RowsAreTrue, Replied
<1>4. CASE Answered
  <2>1. /\ UNCHANGED <<vars, listing>> /\ method' = method
        /\ phase' = "replied" /\ \A row \in listing : ~Broken(row)
        /\ phase # "free"
    BY <1>4 DEF Answered, AtEnd, doc
  <2>2. \A row \in listing' :
           \E u \in Upstream : row = Row(u)' \/ row = BrokenRow(u)'
    BY <2>1, RowsSame DEF RowsAreTrue, BrokenRow
  <2> QED  BY <2>1, <2>2 DEF RowsAreTrue, Broken
<1>5. CASE Reject
  <2>1. /\ phase' = "replied" /\ method' = method /\ listing' = {}
        /\ reply' \in Rejections
    BY <1>5 DEF Reject, doc, RowsAreTrue
  <2> QED  BY <2>1, RejectionsDiffer DEF RowsAreTrue, Replied
<1>6. CASE Accept
  BY <1>6 DEF Accept, RowsAreTrue, Replied
<1>7. CASE Ready
  BY <1>7 DEF Ready, RowsAreTrue, Replied
<1>8. CASE RefuseParam \/ OpenPeers \/ RefusePeer \/ ClosePeers
  <2>1. /\ method' = method /\ listing' = listing /\ method \in Changes
        /\ phase' \in {"params", "peers"}
    BY <1>8 DEF RefuseParam, OpenPeers, RefusePeer, ClosePeers, doc, RowsAreTrue
  <2>2. listing = {}
    BY <2>1 DEF RowsAreTrue, Changes
  <2> QED  BY <2>1, <2>2 DEF RowsAreTrue, Replied
<1>9. CASE Crash
  <2>1. /\ UNCHANGED <<vars, listing>> /\ method' = method
        /\ phase' = "crashed" /\ phase # "free"
    BY <1>9 DEF Crash, AtEnd, doc
  <2>2. \A row \in listing' :
           \E u \in Upstream : row = Row(u)' \/ row = BrokenRow(u)'
    BY <2>1, RowsSame DEF RowsAreTrue, BrokenRow
  <2> QED  BY <2>1, <2>2 DEF RowsAreTrue, Replied
<1>10. CASE UNCHANGED rpcVars
  <2>1. UNCHANGED <<vars, listing, method, phase, reply>>
    BY <1>10 DEF rpcVars, doc
  <2>2. \A row \in listing' :
           \E u \in Upstream : row = Row(u)' \/ row = BrokenRow(u)'
    BY <2>1, RowsSame DEF RowsAreTrue, BrokenRow
  <2> QED  BY <2>1, <2>2 DEF RowsAreTrue, Replied, Broken
<1>11. CASE LogKills
  <2>1. /\ method' = method /\ method \in Changes /\ listing' = listing
        /\ phase' = "crashed" /\ pc # "idle"
    BY <1>11 DEF LogKills, Resume, doc, Changes
  <2>2. listing = {}
    BY <2>1 DEF RowsAreTrue, Changes
  <2> QED  BY <2>1, <2>2 DEF RowsAreTrue, Replied
<1> QED
  BY <1>1, <1>2, <1>3, <1>4, <1>5, <1>6, <1>7, <1>8, <1>9, <1>10, <1>11
  DEF RpcNext, Serve

\* A row tells what the lists hold, since the counters do.
LEMMA RowIsCurrent ==
    ASSUME CInv, NEW u \in Upstream
    PROVE  /\ Row(u).ups = u
           /\ Row(u).peers = list[<<u, FALSE>>] \o list[<<u, TRUE>>]
           /\ Row(u).number = Len(Row(u).peers)
           /\ Row(u).weight = Total(Row(u).peers)
<1> DEFINE a == list[<<u, FALSE>>]
           b == list[<<u, TRUE>>]
           g == <<u, FALSE>>
           h == <<u, TRUE>>
<1>1. /\ a \in Seq(Peer) /\ b \in Seq(Peer)
      /\ number[g] = Len(a) /\ number[h] = Len(b)
      /\ total_weight[g] = Total(a) /\ total_weight[h] = Total(b)
      /\ next[u] \in BOOLEAN /\ (~next[u] => b = << >>)
  BY DEF CInv, IInv, TypeOK, CountersAgree, Group, Empties
<1>2. /\ Weighted(a) /\ Weighted(b) /\ Total(a \o b) = Total(a) + Total(b)
      /\ Total(a) \in Int /\ Total(b) \in Int
  BY <1>1, PeersWeighted, TotalConcat
<1> DEFINE n == number[g] + (IF next[u] THEN number[h] ELSE 0)
           w == total_weight[g] + (IF next[u] THEN total_weight[h] ELSE 0)
           walk == a \o (IF next[u] THEN b ELSE << >>)
<1>3. /\ Row(u).ups = u /\ Row(u).number = n /\ Row(u).weight = w
      /\ Row(u).peers = SubSeq(walk, 1, Min({n, Len(walk)}))
  BY DEF Row
<1> HIDE DEF a, b, g, h
<1>4. walk = a \o b
  BY <1>1
<1>5. a \o b \in Seq(Peer) /\ Len(a \o b) = Len(a) + Len(b)
      /\ Len(a) \in Nat /\ Len(b) \in Nat
  BY <1>1
<1>6. n = Len(a \o b)
  BY <1>1, <1>5
<1>7. w = Total(a \o b)
  <2>1. CASE next[u]
    BY <1>1, <1>2, <2>1
  <2>2. CASE ~next[u]
    <3>1. a \o b = a
      BY <1>1, <2>2
    <3> QED  BY <1>1, <1>2, <2>2, <3>1
  <2> QED  BY <2>1, <2>2
<1> HIDE DEF n, w, walk
<1>8. Min({n, Len(walk)}) = n
  <2>1. n \in Nat /\ {n, Len(walk)} = {n}
    BY <1>4, <1>5, <1>6
  <2> QED  BY <2>1 DEF Min
<1>9. SubSeq(walk, 1, n) = a \o b
  <2>1. SubSeq(walk, 1, n) \in Seq(Peer) /\ Len(SubSeq(walk, 1, n)) = n
        /\ \A i \in 1 .. n : SubSeq(walk, 1, n)[i] = walk[i]
    BY <1>4, <1>5, <1>6
  <2> QED  BY <1>4, <1>5, <1>6, <2>1, SeqEqual
<1>10. /\ Row(u).ups = u /\ Row(u).peers = a \o b
       /\ Row(u).number = Len(a \o b) /\ Row(u).weight = Total(a \o b)
  <2>1. /\ Row(u).ups = u /\ Row(u).number = n /\ Row(u).weight = w
        /\ Row(u).peers = SubSeq(walk, 1, Min({n, Len(walk)}))
    BY <1>3
  <2>2. Row(u).peers = a \o b
    BY <1>8, <1>9, <2>1
  <2> QED  BY <1>6, <1>7, <2>1, <2>2
<1> QED  BY <1>10 DEF a, b

\* A reply of lst.c shows each upstream as it is when it is sent.
THEOREM ListingCorrectness == RpcSpec => []ListingIsCurrent
<1> DEFINE Between == pc # "idle" => phase = "peers"
<1>1. RpcInit => RowsAreTrue /\ Between
  BY DEF RpcInit, Init, RowsAreTrue, Replied
<1>2. RowsAreTrue /\ Between /\ [RpcNext]_rpcVars => RowsAreTrue' /\ Between'
  BY RowsStep, PhaseStep
<1>3. RowsAreTrue /\ CInv => ListingIsCurrent
  <2> SUFFICES ASSUME RowsAreTrue, CInv, Replied("lst"), NEW row \in listing
               PROVE  /\ row.peers = list[<<row.ups, FALSE>>]
                                        \o list[<<row.ups, TRUE>>]
                      /\ row.number = Len(row.peers)
                      /\ row.weight = Total(row.peers)
    BY DEF ListingIsCurrent
  <2>1. PICK u \in Upstream : row = Row(u) \/ row = BrokenRow(u)
    BY DEF RowsAreTrue
  <2>2. row # BrokenRow(u)
    BY DEF RowsAreTrue, Broken, BrokenRow
  <2>3. row = Row(u)
    BY <2>1, <2>2
  <2>4. /\ row.ups = u
        /\ row.peers = list[<<u, FALSE>>] \o list[<<u, TRUE>>]
        /\ row.number = Len(row.peers) /\ row.weight = Total(row.peers)
    BY <2>3, RowIsCurrent
  <2> QED  BY <2>4
<1> HIDE DEF Between
<1> QED
  BY <1>1, <1>2, <1>3, RpcImplementsPeers, CallInvariance, PTL DEF RpcSpec

-----------------------------------------------------------------------------
(***************************************************************************)
(* What the counts of a reply say of the lists.                            *)
(***************************************************************************)

\* A count above zero is what the loop has done, and "del" and "edit" return
\* no other number unless they have done nothing.
Returned ==
    pc = "done" =>
       /\ ret > 0 => ret = count
       /\ call.op \in {"del", "edit"} /\ ~(ret > 0) => count = 0

\* The sizes of the lists since the document arrived, by what was counted
\* and what the running call has done.
Accounted ==
    /\ phase = "free" => method = "lst" /\ succ = 0 /\ failed = 0
    /\ pc # "idle" => phase = "peers" /\ call.op = method
    /\ succ \in Nat /\ failed \in Nat
    /\ Returned
    /\ method = "del" => Size(before) - Size(list) = succ + count
    /\ method = "add" => Size(list) - Size(before) >= succ + count
    /\ method = "add" /\ failed = 0 => Size(list) - Size(before) = succ + count
    /\ method = "edit" => Size(before) = Size(list)
    /\ method \in {"del", "edit"} /\ succ = 0 /\ count = 0 => list = before
    /\ method \in Changes => Size(before) \in Int
    /\ (phase = "replied" /\ reply.status = NGX_HTTP_OK
          /\ reply.code = E_SUCCESS)
       => reply.success = succ /\ reply.failed = failed

LEMMA SizeType == ASSUME NEW c \in [Group -> Seq(Peer)] PROVE Size(c) \in Int
<1> DEFINE f == [g \in Group |-> Len(c[g])]
<1>1. \A g \in Group : f[g] \in Int
  BY LenProperties
<1>2. IsFiniteSet(Group)
  BY GroupsFinite
<1> HIDE DEF f
<1>3. SumFunctionOnSet(f, Group) \in Int
  BY <1>1, <1>2, SumEquation
<1> QED  BY <1>3 DEF Size, f

\* An iteration changes the size of one list.
LEMMA SizeOfList ==
    ASSUME TypeOK, TypeOK', grp \in Group, NEW s \in Seq(Peer),
           list' = [list EXCEPT ![grp] = s]
    PROVE  Size(list') = Size(list) - Len(list[grp]) + Len(s)
<1> DEFINE f == [g \in Group |-> Len(list[g])]
           h == [g \in Group |-> Len(list'[g])]
<1>1. \A g \in Group : f[g] \in Int /\ h[g] \in Int
  BY LenProperties DEF TypeOK
<1>2. \A g \in Group \ {grp} : h[g] = f[g]
  BY DEF TypeOK
<1>3. f[grp] = Len(list[grp]) /\ h[grp] = Len(s)
  BY DEF TypeOK
<1>4. IsFiniteSet(Group)
  BY GroupsFinite
<1>5. Size(list) = SumFunctionOnSet(f, Group)
      /\ Size(list') = SumFunctionOnSet(h, Group)
  BY DEF Size
<1> HIDE DEF f, h
<1>6. ASSUME NEW a \in Group, \A x \in Group \ {a} : h[x] = f[x]
      PROVE  SumFunctionOnSet(h, Group) = SumFunctionOnSet(f, Group) - f[a] + h[a]
  BY <1>1, <1>4, <1>6, SumChange
<1>7. SumFunctionOnSet(h, Group)
        = SumFunctionOnSet(f, Group) - f[grp] + h[grp]
  BY <1>2, <1>6
<1> QED  BY <1>3, <1>5, <1>7

\* What one iteration does to the lists and to count.
Iteration ==
    /\ call' = call
    /\ call.op = "add" => Size(list') - Size(list) = count' - count
    /\ call.op = "del" => Size(list) - Size(list') = count' - count
    /\ call.op = "edit" => Size(list') = Size(list)
    /\ count' >= count
    /\ call.op \in {"del", "edit"} /\ count' = count => list' = list
    /\ Returned'

LEMMA SameIteration ==
    ASSUME CInv, call' = call, list' = list, count' = count, Returned'
    PROVE  Iteration
<1>1. Size(list) \in Int /\ count \in Nat
  BY SizeType DEF CInv, IInv, TypeOK
<1> QED  BY <1>1 DEF Iteration

LEMMA StepIteration == ASSUME CInv, CInv', Step PROVE Iteration
<1>1. pc \in {"add", "del", "edit"}
  BY DEF Step, AddPeer, AddFails, AddReturns, DelSkips, DelRefuses, DelUnlinks,
     DelReturns, EditSkips, EditSets, EditReturns
<1>2. /\ TypeOK /\ TypeOK' /\ call.op = pc /\ grp \in Group
      /\ list[grp] \in Seq(Peer) /\ Len(list[grp]) \in Nat /\ count \in Nat
      /\ Size(list) \in Int /\ number[grp] = Len(list[grp])
  BY <1>1, LoopPlace, SizeType DEF CInv, IInv, TypeOK
<1>3. CASE AddPeer
  <2> DEFINE s == Cons(NewPeer, list[grp])
  <2>1. /\ call' = call /\ count' = count + 1 /\ pc' = "add" /\ pc = "add"
        /\ list' = [list EXCEPT ![grp] = s]
    BY <1>3 DEF AddPeer
  <2>2. call \in AddCalls /\ cur \in 1 .. Len(call.addrs)
    <3>1. call \in AddCalls
      BY <2>1, LoopPlace, CallFields DEF CInv, IInv
    <3> QED  BY <1>2, <1>3, <3>1, SystemAssumption
             DEF AddPeer, AddAtEnd, AddCalls, TypeOK
  <2>3. NewPeer \in Peer
    BY <2>2, NewPeerIsPeer
  <2>4. s \in Seq(Peer) /\ Len(s) = Len(list[grp]) + 1
    BY <1>2, <2>3 DEF Cons
  <2> HIDE DEF s
  <2>5. Size(list') = Size(list) - Len(list[grp]) + Len(s)
    BY <1>2, <2>1, <2>4, SizeOfList
  <2>6. Returned'
    BY <2>1 DEF Returned
  <2> QED  BY <1>2, <2>1, <2>4, <2>5, <2>6 DEF Iteration
<1>4. CASE DelUnlinks
  <2> DEFINE s == RemoveAt(list[grp], cur)
  <2>1. /\ call' = call /\ count' = count + 1 /\ pc = "del"
        /\ list' = [list EXCEPT ![grp] = s]
        /\ pc' \in {"crashed", "del"} /\ cur \in 1 .. Len(list[grp])
    BY <1>2, <1>4 DEF DelUnlinks, InList, CInv, IInv, TypeOK
  <2>2. s \in Seq(Peer) /\ Len(s) = Len(list[grp]) - 1
    BY <1>2, <2>1, PeersWeighted, TotalRemoveAt
  <2> HIDE DEF s
  <2>3. Size(list') = Size(list) - Len(list[grp]) + Len(s)
    BY <1>2, <2>1, <2>2, SizeOfList
  <2>4. Returned'
    BY <2>1 DEF Returned
  <2> QED  BY <1>2, <2>1, <2>2, <2>3, <2>4 DEF Iteration
<1>5. CASE EditSets
  <2> DEFINE s == ReplaceAt(list[grp], cur, Edited(here))
  <2>1. /\ call' = call /\ count' = count + 1 /\ pc = "edit" /\ pc' = "edit"
        /\ list' = [list EXCEPT ![grp] = s] /\ cur \in 1 .. Len(list[grp])
    BY <1>2, <1>5 DEF EditSets, InList, CInv, IInv, TypeOK
  <2>2. here \in Peer /\ call \in EditCalls
    BY <1>1, <1>2, <2>1, ElementOfSeq, LoopPlace, CallFields
    DEF here, CInv, IInv
  <2>3. s \in Seq(Peer) /\ Len(s) = Len(list[grp])
    BY <1>2, <2>1, <2>2, EditedIsPeer DEF ReplaceAt
  <2> HIDE DEF s
  <2>4. Size(list') = Size(list) - Len(list[grp]) + Len(s)
    BY <1>2, <2>1, <2>3, SizeOfList
  <2>5. Returned'
    BY <2>1 DEF Returned
  <2> QED  BY <1>2, <2>1, <2>3, <2>4, <2>5 DEF Iteration
<1>6. CASE DelSkips \/ EditSkips
  <2>1. /\ call' = call /\ list' = list /\ count' = count /\ pc' = pc
        /\ pc # "done"
    BY <1>6 DEF DelSkips, EditSkips, peers
  <2> QED  BY <2>1, SameIteration DEF Returned
<1>7. CASE AddReturns \/ DelReturns \/ EditReturns
  <2>1. /\ call' = call /\ list' = list /\ count' = count /\ ret' = count
    BY <1>7 DEF AddReturns, DelReturns, EditReturns, Finish, peers
  <2> QED  BY <1>2, <2>1, SameIteration DEF Returned
<1>8. CASE AddFails
  <2>1. /\ call' = call /\ list' = list /\ count' = count /\ pc = "add"
        /\ ret' \in {E_SLAB_CALLOC, E_SLAB_ALLOC}
    BY <1>8 DEF AddFails, Finish, peers
  <2>2. ~(ret' > 0)
    BY <2>1 DEF E_SLAB_CALLOC, E_SLAB_ALLOC
  <2>3. Returned'
    BY <1>2, <2>1, <2>2 DEF Returned
  <2> QED  BY <2>1, <2>3, SameIteration
<1>9. CASE DelRefuses
  <2>1. /\ call' = call /\ list' = list /\ count' = count /\ pc = "del"
        /\ ret' = E_UPS_LEFT_ONE /\ number[grp] = 1 /\ cur <= Len(list[grp])
    BY <1>9 DEF DelRefuses, LeftOne, InList, Finish, peers
  <2>2. count = 0
    BY <1>2, <2>1 DEF CInv, IInv, TypeOK, Progress
  <2>3. ~(ret' > 0)
    BY <2>1 DEF E_UPS_LEFT_ONE
  <2>4. Returned'
    BY <2>1, <2>2, <2>3 DEF Returned
  <2> QED  BY <2>1, <2>4, SameIteration
<1> QED
  BY <1>3, <1>4, <1>5, <1>6, <1>7, <1>8, <1>9 DEF Step

\* A call begins without having done anything.
LEMMA BeginsReturned ==
    ASSUME CInv, NEW c \in Calls, Start(c)
    PROVE  /\ call' = c /\ list' = list /\ count' = count /\ count = 0
           /\ Returned'
<1>1. pc = "idle" /\ count = 0
  BY DEF Start, CInv, IInv, Progress
<1>2. CASE Enter(c) \/ EnterNewBackup(c)
  BY <1>1, <1>2, CallFields DEF Enter, EnterNewBackup, EnterLoop, Returned
<1>3. CASE \/ NotCompiledIn(c) \/ BadUrl(c) \/ NoMainConf(c) \/ NotFound(c)
           \/ NewBackupFails(c)
  <2>1. PICK r \in {E_FUNC_NA, E_PARSE_URL, E_NO_UPS, E_SUCCESS,
                    E_SLAB_CALLOC} : Answer(c, r)
    BY <1>3 DEF NotCompiledIn, BadUrl, NoMainConf, NotFound, NewBackupFails
  <2>2. ~(r > 0)
    BY DEF E_FUNC_NA, E_PARSE_URL, E_NO_UPS, E_SUCCESS, E_SLAB_CALLOC
  <2> QED  BY <1>1, <2>1, <2>2 DEF Answer, peers, Returned
<1> QED  BY <1>1, <1>2, <1>3 DEF Start

LEMMA AccountedStep ==
    ASSUME Accounted, CInv, CInv', [RpcNext]_rpcVars
    PROVE  Accounted'
<1>1. /\ Size(list) \in Int /\ count \in Nat /\ ret \in Int
      /\ succ \in Nat /\ failed \in Nat
  BY SizeType DEF CInv, IInv, TypeOK, Accounted
<1>2. CASE CallPeer
  <2>1. PICK c \in Calls : c.op = method /\ Start(c)
    BY <1>2 DEF CallPeer
  <2>2. /\ call' = c /\ list' = list /\ count' = count /\ Returned'
    BY <2>1, BeginsReturned
  <2>3. UNCHANGED <<phase, method, succ, failed, reply, before>>
        /\ phase = "peers"
    BY <1>2 DEF CallPeer, counts
  <2> QED  BY <2>1, <2>2, <2>3 DEF Accounted
<1>3. CASE RunCall
  <2>1. Iteration
    BY <1>3, StepIteration DEF RunCall
  <2>2. UNCHANGED <<phase, method, succ, failed, reply, before>>
    BY <1>3 DEF RunCall, doc, counts
  <2>3. phase = "peers" /\ call.op = method
    BY <1>3 DEF RunCall, Step, AddPeer, AddFails, AddReturns, DelSkips,
       DelRefuses, DelUnlinks, DelReturns, EditSkips, EditSets, EditReturns,
       Accounted
  <2>4. Size(list') \in Int /\ count' \in Nat
    BY SizeType DEF CInv, IInv, TypeOK
  <2>5. method \in Changes => Size(before) \in Int
    BY DEF Accounted
  <2>6. method' = "del" => Size(before') - Size(list') = succ' + count'
    BY <1>1, <2>1, <2>2, <2>3, <2>4, <2>5 DEF Accounted, Iteration, Changes
  <2>7. method' = "add" => Size(list') - Size(before') >= succ' + count'
    BY <1>1, <2>1, <2>2, <2>3, <2>4, <2>5 DEF Accounted, Iteration, Changes
  <2>8. method' = "add" /\ failed' = 0
          => Size(list') - Size(before') = succ' + count'
    BY <1>1, <2>1, <2>2, <2>3, <2>4, <2>5 DEF Accounted, Iteration, Changes
  <2>9. method' \in {"del", "edit"} /\ succ' = 0 /\ count' = 0
          => list' = before'
    BY <1>1, <2>1, <2>2, <2>3, <2>4 DEF Accounted, Iteration
  <2> QED
    BY <2>1, <2>2, <2>3, <2>5, <2>6, <2>7, <2>8, <2>9 DEF Accounted, Iteration
<1>4. CASE CountAnswer
  <2>1. /\ UNCHANGED <<phase, method, reply, before, list>>
        /\ pc = "done" /\ pc' = "idle" /\ count' = 0
    BY <1>4 DEF CountAnswer, Resume, doc, peers
  <2>2. phase = "peers" /\ call.op = method
    BY <2>1 DEF Accounted
  <2>3. CASE ret > 0
    <3>1. succ' = succ + ret /\ failed' = failed
      BY <1>4, <2>3 DEF CountAnswer, Succeeded
    <3>2. ret = count /\ succ' = succ + count /\ succ' # 0 /\ succ' \in Nat
      BY <1>1, <2>1, <2>3, <3>1 DEF Accounted, Returned
    <3> QED  BY <1>1, <2>1, <2>2, <3>1, <3>2 DEF Accounted, Returned
  <2>4. CASE ~(ret > 0)
    <3>1. succ' = succ /\ failed' = failed + 1
      BY <1>4, <2>4 DEF CountAnswer, Succeeded, Failed
    <3>2. method \in {"del", "edit"} => count = 0
      BY <2>1, <2>2, <2>4 DEF Accounted, Returned
    <3>3. failed' # 0 /\ failed' \in Nat
      BY <1>1, <3>1
    <3>4. method = "add" => Size(list) - Size(before) >= succ
      BY <1>1 DEF Accounted, Changes
    <3> QED  BY <1>1, <2>1, <2>2, <3>1, <3>2, <3>3, <3>4 DEF Accounted, Returned
  <2> QED  BY <2>3, <2>4
<1>5. CASE Accept \/ Reject
  <2>1. /\ UNCHANGED <<list, succ, failed, pc, count>>
        /\ before' = list /\ phase = "free"
        /\ phase' \in {"params", "replied"} /\ pc = "idle"
    BY <1>5 DEF Accept, Reject, vars, peers, counts, Accounted
  <2>2. succ = 0 /\ failed = 0 /\ count = 0
    BY <2>1 DEF Accounted, CInv, IInv, Progress
  <2>3. phase' = "replied" => ~(reply'.status = NGX_HTTP_OK
                                  /\ reply'.code = E_SUCCESS)
    BY <1>5, RejectionsDiffer DEF Accept, Reject
  <2> QED  BY <1>1, <2>1, <2>2, <2>3 DEF Accounted, Returned
<1>6. CASE RefuseParam \/ RefusePeer
  <2>1. /\ UNCHANGED <<list, succ, pc, count, call, method, before, phase, ret>>
        /\ failed' = failed + 1 /\ phase \in {"params", "peers"}
    BY <1>6 DEF RefuseParam, RefusePeer, Failed, vars, peers
  <2>2. failed' # 0 /\ failed' \in Nat
    BY <1>1, <2>1
  <2> QED  BY <2>1, <2>2 DEF Accounted, Returned
<1>7. CASE OpenPeers \/ ClosePeers \/ ListAll \/ ListOne \/ Crash
  <2>1. /\ UNCHANGED <<list, succ, failed, pc, count, call, method, before, ret>>
        /\ phase' \in {"params", "peers", "done", "crashed"} /\ pc = "idle"
    BY <1>7 DEF OpenPeers, ClosePeers, ListAll, ListOne, Crash, AtEnd, doc,
       counts, vars, peers, Accounted
  <2> QED  BY <2>1 DEF Accounted, Returned
<1>8. CASE Answered
  <2>1. /\ UNCHANGED <<list, succ, failed, pc, count, call, method, before, ret>>
        /\ phase' = "replied" /\ pc = "idle"
        /\ \/ reply' = Reply(NGX_HTTP_OK, E_SUCCESS, succ, failed)
           \/ reply' = Reply(NGX_HTTP_INTERNAL_SERVER_ERROR, 0, 0, 0)
    BY <1>8 DEF Answered, AtEnd, doc, counts, vars, peers, Accounted
  <2>2. reply'.status = NGX_HTTP_OK
          => reply'.success = succ /\ reply'.failed = failed
    BY <2>1 DEF Reply, NGX_HTTP_OK, NGX_HTTP_INTERNAL_SERVER_ERROR
  <2> QED  BY <2>1, <2>2 DEF Accounted, Returned
<1>9. CASE Ready
  <2>1. /\ phase' = "free" /\ method' = "lst" /\ succ' = 0 /\ failed' = 0
        /\ pc' = pc /\ pc = "idle"
    BY <1>9 DEF Ready, vars, Accounted
  <2> QED  BY <2>1 DEF Accounted, Returned, Changes
<1>10. CASE UNCHANGED rpcVars
  BY <1>10 DEF rpcVars, vars, peers, doc, counts, Accounted, Returned
<1>11. CASE LogKills
  <2>1. /\ UNCHANGED <<list, succ, failed, method, before>>
        /\ phase' = "crashed" /\ pc = "done" /\ pc' = "idle" /\ count' = 0
        /\ method = "edit" /\ ~(ret > 0)
    BY <1>11 DEF LogKills, Resume, doc, counts, peers, Succeeded
  <2>2. count = 0
    BY <2>1 DEF Accounted, Returned
  <2> QED  BY <1>1, <2>1, <2>2 DEF Accounted, Returned
<1> QED
  BY <1>2, <1>3, <1>4, <1>5, <1>6, <1>7, <1>8, <1>9, <1>10,
     <1>11
  DEF RpcNext, Serve

\* "success" is the number of peers that were deleted, or added if nothing
\* failed, and without one "del" and "edit" have changed nothing.
THEOREM SuccessCorrectness == RpcSpec => []SuccessIsReal
<1>1. RpcInit => Accounted
  BY DEF RpcInit, Init, Accounted, Returned, Changes
<1>2. Accounted /\ CInv /\ CInv' /\ [RpcNext]_rpcVars => Accounted'
  BY AccountedStep
<1>3. Accounted /\ CInv => SuccessIsReal
  <2> SUFFICES ASSUME Accounted, CInv PROVE SuccessIsReal
    OBVIOUS
  <2>1. phase = "replied" => count = 0
    BY DEF Accounted, CInv, IInv, Progress
  <2>2. \A m : Replied(m) =>
           /\ method = m /\ count = 0
           /\ reply.success = succ /\ reply.failed = failed
    BY <2>1 DEF Replied, Accounted
  <2>3. succ \in Nat /\ Size(list) \in Int
    BY SizeType DEF Accounted, CInv, IInv, TypeOK
  <2>4. Replied("del") => Size(before) - Size(list) = reply.success
    BY <2>2, <2>3 DEF Accounted
  <2>5. Replied("add") => IF reply.failed = 0
                          THEN Size(list) - Size(before) = reply.success
                          ELSE Size(list) - Size(before) >= reply.success
    BY <2>2, <2>3 DEF Accounted
  <2>6. Replied("edit") => Size(before) = Size(list)
    BY <2>2 DEF Accounted
  <2>7. (Replied("edit") \/ Replied("del")) /\ reply.success = 0
           => list = before
    BY <2>2 DEF Accounted
  <2> QED  BY <2>4, <2>5, <2>6, <2>7 DEF SuccessIsReal
<1> QED
  BY <1>1, <1>2, <1>3, RpcImplementsPeers, CallInvariance, PTL DEF RpcSpec

=============================================================================
