--------------------------- MODULE UpsPeersProofs ---------------------------
(***************************************************************************)
(* Theorems about UpsPeers, for every set of upstreams, zones, names and   *)
(* numbers, every configuration and every size of the slab pools.          *)
(***************************************************************************)
EXTENDS UpsPeers, PeerListsProofs

-----------------------------------------------------------------------------
(***************************************************************************)
(* The inductive invariant.                                                *)
(***************************************************************************)

\* A loop runs for the call that entered it, on a group that exists.
Running ==
    pc \in {"add", "del", "edit"} =>
       call \in Calls /\ call.op = pc /\ Found(call) /\ ~NoBackup(call)

\* A call starts at the head; a "del" that has deleted something is past it,
\* and one that has not has changed nothing.
Progress ==
    /\ pc = "idle" => cur = 1 /\ count = 0
    /\ pc = "del" => IF count = 0 THEN list[grp] = old ELSE cur > 1

IInv ==
    /\ TypeOK
    /\ CountersAgree
    /\ NoNullRead
    /\ LeftOneDeletesNothing
    /\ Running
    /\ Progress

-----------------------------------------------------------------------------
(***************************************************************************)
(* The data.                                                               *)
(***************************************************************************)

\* The lists of peers are lists with weights.
LEMMA PeersWeighted ==
    ASSUME NEW s \in Seq(Peer)
    PROVE  Weighted(s) /\ Total(s) \in Int
<1>1. Weighted(s)
  <2>1. ASSUME NEW i \in 1 .. Len(s) PROVE s[i].weight \in Int
    <3>1. s[i] \in Peer
      BY ElementOfSeq
    <3> QED
      BY <3>1 DEF Peer
  <2> QED
    BY <2>1 DEF Weighted
<1> QED
  BY <1>1, TotalInt

\* json_getint and the conversion to ngx_uint_t return numbers.
LEMMA Numbers ==
    ASSUME NEW v \in Int \cup {NoVal}
    PROVE  GetInt(v) \in Int /\ AsUint(v) \in Nat
<1>1. GetInt(v) \in Int
  BY DEF GetInt
<1>2. UintMod \in Nat \ {0}
  BY DataAssumption
<1>3. AsUint(v) \in Nat
  BY <1>1, <1>2 DEF AsUint
<1> QED
  BY <1>1, <1>3

\* The fields of a call.
LEMMA CallFields ==
    ASSUME NEW c \in Calls
    PROVE  /\ c.op \in {"add", "del", "edit"}
           /\ c.to.kind \in Kind /\ c.to.backup \in BOOLEAN
           /\ c.op = "add" => c \in AddCalls
           /\ c.op = "edit" => c \in EditCalls
<1>1. CASE c \in AddCalls
  BY <1>1 DEF AddCalls, Target
<1>2. CASE c \in DelCalls
  BY <1>2 DEF DelCalls, Target
<1>3. CASE c \in EditCalls
  BY <1>3 DEF EditCalls, Target
<1> QED
  BY <1>1, <1>2, <1>3 DEF Calls

\* The numbers of an entry are integers or missing.
LEMMA ValueFields ==
    ASSUME NEW v \in Values
    PROVE  /\ v.weight \in Int \cup {NoVal}
           /\ v.max_conns \in Int \cup {NoVal}
           /\ v.max_fails \in Int \cup {NoVal}
           /\ v.fail_timeout \in Int \cup {NoVal}
BY DataAssumption DEF Values

\* hadd_peer makes a peer.
LEMMA NewPeerIsPeer ==
    ASSUME call \in AddCalls, cur \in 1 .. Len(call.addrs)
    PROVE  NewPeer \in Peer
<1>1. call.set \in Values /\ call.server \in Server /\ call.down \in {0, 1}
  BY DEF AddCalls
<1>2. call.addrs \in Seq(Name)
  BY SystemAssumption DEF AddCalls
<1>3. call.addrs[cur] \in Name
  BY <1>2, ElementOfSeq
<1>4. /\ OrDefault(call.set.weight, 1) \in Nat \ {0}
      /\ OrDefault(call.set.max_conns, 0) \in Nat
      /\ OrDefault(call.set.max_fails, 1) \in Nat
      /\ OrDefault(call.set.fail_timeout, 10) \in Nat
  <2>1. /\ GetInt(call.set.weight) \in Int
        /\ GetInt(call.set.max_conns) \in Int
        /\ GetInt(call.set.max_fails) \in Int
        /\ GetInt(call.set.fail_timeout) \in Int
    BY <1>1, ValueFields, Numbers
  <2> QED
    BY <2>1 DEF OrDefault
<1>5. call.down \in Word
  <2>1. 0 \in Junk
    BY DataAssumption
  <2>2. call.down = call.down + 256 * 0
    BY <1>1
  <2> QED
    BY <1>1, <2>1, <2>2 DEF Word
<1> QED
  BY <1>1, <1>3, <1>4, <1>5 DEF NewPeer, Peer

\* hmdf_peer keeps a peer a peer, with its name and server.
LEMMA EditedIsPeer ==
    ASSUME call \in EditCalls, NEW p \in Peer
    PROVE  /\ Edited(p) \in Peer
           /\ Edited(p).name = p.name /\ Edited(p).server = p.server
<1>1. call.set \in Values /\ call.down \in {0, 1, NoVal} /\ call.junk \in Junk
  BY DEF EditCalls
<1>2. /\ GetInt(call.set.weight) \in Int
      /\ GetInt(call.set.fail_timeout) \in Int
      /\ AsUint(call.set.max_conns) \in Nat
      /\ AsUint(call.set.max_fails) \in Nat
  BY <1>1, ValueFields, Numbers
<1> DEFINE w == IF GetInt(call.set.weight) > 0
                THEN GetInt(call.set.weight) ELSE p.weight
           mc == IF AsUint(call.set.max_conns) > 0
                 THEN AsUint(call.set.max_conns) ELSE p.max_conns
           mf == IF AsUint(call.set.max_fails) > 0
                 THEN AsUint(call.set.max_fails) ELSE p.max_fails
           ft == IF GetInt(call.set.fail_timeout) > 0
                 THEN GetInt(call.set.fail_timeout) ELSE p.fail_timeout
           d == IF call.down = NoVal THEN p.down
                ELSE call.down + 256 * call.junk
<1>3. w \in Nat \ {0} /\ mc \in Nat /\ mf \in Nat /\ ft \in Nat
  BY <1>2 DEF Peer
<1>4. d \in Word
  <2>1. CASE call.down = NoVal
    BY <2>1 DEF Peer
  <2>2. CASE call.down # NoVal
    BY <1>1, <2>2 DEF Word
  <2> QED
    BY <2>1, <2>2
<1>5. Edited(p) = [p EXCEPT !.weight = w, !.max_conns = mc, !.max_fails = mf,
                            !.fail_timeout = ft, !.down = d]
  BY DEF Edited
<1> HIDE DEF w, mc, mf, ft, d
<1> QED
  BY <1>3, <1>4, <1>5 DEF Peer

-----------------------------------------------------------------------------
(***************************************************************************)
(* The steps.                                                              *)
(***************************************************************************)

\* Where a loop runs.
LEMMA LoopPlace ==
    ASSUME TypeOK, CountersAgree, Running, pc \in {"add", "del", "edit"}
    PROVE  /\ call \in Calls /\ call.op = pc /\ Found(call)
           /\ grp \in Group /\ zone \in Zone
           /\ list[grp] \in Seq(Peer) /\ Len(list[grp]) \in Nat
           /\ Weighted(list[grp]) /\ Total(list[grp]) \in Int
           /\ number[grp] = Len(list[grp])
           /\ total_weight[grp] = Total(list[grp])
<1>1. call \in Calls /\ call.op = pc /\ Found(call)
  BY DEF Running
<1>2. grp \in Group
  BY <1>1, CallFields DEF grp, Group, Found
<1>3. zone \in Zone
  BY <1>1, SystemAssumption DEF zone, Found
<1>4. list[grp] \in Seq(Peer)
  BY <1>2 DEF TypeOK
<1>5. Len(list[grp]) \in Nat
  BY <1>4, LenProperties
<1>6. Weighted(list[grp]) /\ Total(list[grp]) \in Int
  BY <1>4, PeersWeighted
<1>7. number[grp] = Len(list[grp]) /\ total_weight[grp] = Total(list[grp])
  BY <1>2 DEF CountersAgree
<1> QED
  BY <1>1, <1>2, <1>3, <1>4, <1>5, <1>6, <1>7

\* The counters agree again when one group has a new list and the counters
\* of that list.
LEMMA CountersOfGroup ==
    ASSUME TypeOK, CountersAgree, NEW g \in Group,
           NEW s, NEW n, NEW w, NEW b,
           list' = [list EXCEPT ![g] = s],
           number' = [number EXCEPT ![g] = n],
           total_weight' = [total_weight EXCEPT ![g] = w],
           single' = [single EXCEPT ![g] = b],
           n = Len(s), w = Total(s), b => n = 1
    PROVE  CountersAgree'
<1> SUFFICES ASSUME NEW h \in Group
             PROVE  /\ number'[h] = Len(list'[h])
                    /\ total_weight'[h] = Total(list'[h])
                    /\ single'[h] => number'[h] = 1
  BY DEF CountersAgree
<1>1. CASE h = g
  <2>1. list'[h] = s /\ number'[h] = n /\ total_weight'[h] = w
    BY <1>1 DEF TypeOK
  <2>2. single'[h] = b
    BY <1>1 DEF TypeOK
  <2> QED
    BY <2>1, <2>2
<1>2. CASE h # g
  <2>1. /\ list'[h] = list[h] /\ number'[h] = number[h]
        /\ total_weight'[h] = total_weight[h] /\ single'[h] = single[h]
    BY <1>2 DEF TypeOK
  <2> QED
    BY <2>1 DEF CountersAgree
<1> QED
  BY <1>1, <1>2

\* Return values and refusals change no list.
LEMMA SameCounters ==
    ASSUME CountersAgree, UNCHANGED peers
    PROVE  CountersAgree'
BY DEF CountersAgree, peers

LEMMA InitIInv == ASSUME Init PROVE IInv
<1>1. list \in [Group -> Seq(Peer)]
  BY ConfigAssumption DEF Init
<1>2. ASSUME NEW g \in Group
      PROVE  Len(list[g]) \in Nat /\ Total(list[g]) \in Int
  <2>1. list[g] \in Seq(Peer)
    BY <1>1
  <2> QED
    BY <2>1, LenProperties, PeersWeighted
<1>3. number \in [Group -> Int] /\ total_weight \in [Group -> Int]
  BY <1>2 DEF Init
<1>4. << >> \in Seq(Peer) /\ SlabChunks \in Nat
  BY DataAssumption
<1>5. TypeOK
  <2>1. next \in [Upstream -> BOOLEAN]
    BY DEF Init
  <2>2. single \in [Group -> BOOLEAN]
    BY Zenon DEF Init
  <2>3. room \in [Zone -> Nat] /\ lost \in [Zone -> Nat]
    BY <1>4 DEF Init
  <2>4. /\ pc \in {"idle", "add", "del", "edit", "done", "crashed"}
        /\ call \in Calls \cup {NoCall}
        /\ cur \in Nat \ {0} /\ count \in Nat /\ ret \in Int
        /\ old \in Seq(Peer)
    BY <1>4 DEF Init, E_SUCCESS
  <2> QED
    BY <1>1, <1>3, <2>1, <2>2, <2>3, <2>4 DEF TypeOK
<1>6. CountersAgree
  BY DEF Init, CountersAgree
<1>7. NoNullRead /\ LeftOneDeletesNothing /\ Running /\ Progress
  BY DEF Init, NoNullRead, LeftOneDeletesNothing, Running, Progress
<1> QED
  BY <1>5, <1>6, <1>7 DEF IInv

\* A call that is refused or finds nothing only sets its answer.
LEMMA AnswerIInv ==
    ASSUME IInv, pc = "idle", NEW c \in Calls, NEW r \in Int,
           r # E_UPS_LEFT_ONE, Answer(c, r)
    PROVE  IInv'
<1>1. TypeOK'
  BY DEF IInv, TypeOK, Answer, peers, slab
<1>2. CountersAgree'
  BY SameCounters DEF IInv, Answer
<1>3. NoNullRead' /\ LeftOneDeletesNothing' /\ Running' /\ Progress'
  BY DEF Answer, NoNullRead, LeftOneDeletesNothing, Running, Progress
<1> QED
  BY <1>1, <1>2, <1>3 DEF IInv

\* A loop is entered for a call that found its group.
LEMMA EnterIInv ==
    ASSUME IInv, pc = "idle", NEW c \in Calls, Enter(c) \/ EnterNewBackup(c)
    PROVE  IInv'
<1>1. /\ Found(c) /\ EnterLoop(c)
      /\ list' = list /\ number' = number /\ single' = single
      /\ total_weight' = total_weight
  BY DEF Enter, EnterNewBackup, EnterLoop
<1>2. c.op \in {"add", "del", "edit"} /\ c.to.ups \in Upstream
      /\ c.to.backup \in BOOLEAN /\ ZoneOf[c.to.ups] \in Zone
  BY <1>1, CallFields, SystemAssumption DEF Found
<1>3. list[<<c.to.ups, c.to.backup>>] \in Seq(Peer)
  BY <1>2 DEF IInv, TypeOK, Group
<1>4. next' \in [Upstream -> BOOLEAN] /\ room' \in [Zone -> Nat]
      /\ lost' \in [Zone -> Nat]
  <2>1. CASE Enter(c)
    BY <2>1 DEF Enter, slab, IInv, TypeOK
  <2>2. CASE EnterNewBackup(c)
    BY <2>2, <1>2 DEF EnterNewBackup, IInv, TypeOK
  <2> QED
    BY <2>1, <2>2
<1>5. TypeOK'
  <2>1. pc' = c.op /\ call' = c /\ old' = list[<<c.to.ups, c.to.backup>>]
        /\ cur' = cur /\ count' = count /\ ret' = ret
    BY <1>1 DEF EnterLoop
  <2> QED
    BY <1>1, <1>2, <1>3, <1>4, <2>1 DEF IInv, TypeOK
<1>6. CountersAgree'
  BY <1>1 DEF IInv, CountersAgree
<1>7. Found(c)' /\ ~NoBackup(c)'
  <2>1. CASE Enter(c)
    BY <2>1 DEF Enter, Found, Parsed, NoBackup
  <2>2. CASE EnterNewBackup(c)
    <3>1. next'[c.to.ups] = TRUE
      BY <2>2, <1>2 DEF EnterNewBackup, IInv, TypeOK
    <3> QED
      BY <2>2, <3>1 DEF EnterNewBackup, Found, Parsed, NoBackup
  <2> QED
    BY <2>1, <2>2
<1>8. NoNullRead' /\ LeftOneDeletesNothing' /\ Running'
  BY <1>1, <1>2, <1>7 DEF EnterLoop, NoNullRead, LeftOneDeletesNothing, Running
<1>9. Progress'
  BY <1>1, <1>2 DEF IInv, EnterLoop, Progress, grp
<1> QED
  BY <1>5, <1>6, <1>8, <1>9 DEF IInv

LEMMA BeginIInv == ASSUME IInv, Begin PROVE IInv'
<1>1. pc = "idle"
  BY DEF Begin, Start
<1>2. PICK c \in Calls :
         \/ NotCompiledIn(c) \/ BadUrl(c) \/ NoMainConf(c) \/ NotFound(c)
         \/ Enter(c) \/ EnterNewBackup(c) \/ NewBackupFails(c)
  BY DEF Begin, Start
<1>3. CASE Enter(c) \/ EnterNewBackup(c)
  BY <1>1, <1>3, EnterIInv
<1>4. CASE \/ NotCompiledIn(c) \/ BadUrl(c) \/ NoMainConf(c) \/ NotFound(c)
           \/ NewBackupFails(c)
  <2>1. \E r \in {E_FUNC_NA, E_PARSE_URL, E_NO_UPS, E_SUCCESS, E_SLAB_CALLOC} :
           Answer(c, r)
    BY <1>4 DEF NotCompiledIn, BadUrl, NoMainConf, NotFound, NewBackupFails
  <2>2. PICK r \in {E_FUNC_NA, E_PARSE_URL, E_NO_UPS, E_SUCCESS, E_SLAB_CALLOC} :
           Answer(c, r)
    BY <2>1
  <2>3. r \in Int /\ r # E_UPS_LEFT_ONE
    BY DEF E_FUNC_NA, E_PARSE_URL, E_NO_UPS, E_SUCCESS, E_SLAB_CALLOC,
           E_UPS_LEFT_ONE
  <2> QED
    BY <1>1, <2>2, <2>3, AnswerIInv
<1> QED
  BY <1>2, <1>3, <1>4

\* An address becomes a peer.
LEMMA AddPeerIInv == ASSUME IInv, AddPeer PROVE IInv'
<1>1. /\ call \in Calls /\ call.op = "add" /\ Found(call)
      /\ grp \in Group /\ zone \in Zone
      /\ list[grp] \in Seq(Peer) /\ Len(list[grp]) \in Nat
      /\ Weighted(list[grp]) /\ Total(list[grp]) \in Int
      /\ number[grp] = Len(list[grp])
      /\ total_weight[grp] = Total(list[grp])
  BY LoopPlace DEF AddPeer, IInv
<1>2. call.addrs \in Seq(Name) /\ cur \in 1 .. Len(call.addrs)
  BY <1>1, CallFields, SystemAssumption DEF AddPeer, AddAtEnd, AddCalls,
     IInv, TypeOK
<1>3. NewPeer \in Peer /\ NewPeer.weight \in Int
  <2>1. NewPeer \in Peer
    BY <1>1, <1>2, CallFields, NewPeerIsPeer
  <2> QED
    BY <2>1 DEF Peer
<1> DEFINE s == Cons(NewPeer, list[grp])
<1>4. /\ s \in Seq(Peer) /\ Len(s) = Len(list[grp]) + 1
      /\ Total(s) = Total(list[grp]) + NewPeer.weight
  <2>1. s \in Seq(Peer) /\ Total(s) = Total(list[grp]) + NewPeer.weight
    BY <1>1, <1>3, TotalCons
  <2>2. Len(s) = Len(list[grp]) + 1
    BY <1>1, <1>3 DEF Cons
  <2> QED
    BY <2>1, <2>2
<1>5. /\ list' = [list EXCEPT ![grp] = s]
      /\ number' = [number EXCEPT ![grp] = Len(s)]
      /\ total_weight' = [total_weight EXCEPT ![grp] = Total(s)]
      /\ single' = [single EXCEPT ![grp] = (Len(s) = 1)]
  BY <1>1, <1>4 DEF AddPeer
<1> HIDE DEF s
<1>6. TypeOK'
  <2>1. room' \in [Zone -> Nat]
    BY <1>1 DEF AddPeer, PeerChunks, IInv, TypeOK
  <2>2. /\ cur' \in Nat \ {0} /\ count' \in Nat
        /\ UNCHANGED <<next, lost, pc, call, ret, old>>
    BY DEF AddPeer, NextIteration, IInv, TypeOK
  <2>3. /\ list' \in [Group -> Seq(Peer)] /\ number' \in [Group -> Int]
        /\ total_weight' \in [Group -> Int]
    BY <1>1, <1>3, <1>4, <1>5 DEF IInv, TypeOK
  <2>4. single' \in [Group -> BOOLEAN]
    BY <1>5 DEF IInv, TypeOK
  <2> QED
    BY <2>1, <2>2, <2>3, <2>4 DEF IInv, TypeOK
<1>7. CountersAgree'
  BY <1>1, <1>5, CountersOfGroup DEF IInv
<1>8. NoNullRead' /\ LeftOneDeletesNothing' /\ Running' /\ Progress'
  BY DEF AddPeer, IInv, NoNullRead, LeftOneDeletesNothing, Running, Progress,
     Found, Parsed, NoBackup
<1> QED
  BY <1>6, <1>7, <1>8 DEF IInv

\* A loop that ends leaves everything but pc and ret, and the pool.
LEMMA FinishIInv ==
    ASSUME IInv, NEW r \in Int, Finish(r),
           room' \in [Zone -> Nat], lost' \in [Zone -> Nat],
           r = E_UPS_LEFT_ONE => list[grp] = old /\ Len(old) = 1
    PROVE  IInv'
<1>1. TypeOK'
  BY DEF IInv, TypeOK, Finish, peers
<1>2. CountersAgree'
  BY SameCounters DEF IInv, Finish
<1>3. NoNullRead' /\ Running' /\ Progress'
  BY DEF Finish, NoNullRead, Running, Progress
<1>4. LeftOneDeletesNothing'
  BY DEF Finish, LeftOneDeletesNothing, peers, grp
<1> QED
  BY <1>1, <1>2, <1>3, <1>4 DEF IInv

LEMMA AddFailsIInv == ASSUME IInv, AddFails PROVE IInv'
<1>1. PICK k \in 0 .. 3 :
         /\ room[zone] >= k
         /\ room' = [room EXCEPT ![zone] = @ - k]
         /\ lost' = [lost EXCEPT ![zone] = @ + k]
         /\ Finish(IF k = 0 THEN E_SLAB_CALLOC ELSE E_SLAB_ALLOC)
  BY DEF AddFails
<1>2. zone \in Zone
  BY LoopPlace DEF AddFails, IInv
<1>3. room' \in [Zone -> Nat] /\ lost' \in [Zone -> Nat]
  BY <1>1, <1>2 DEF IInv, TypeOK
<1>4. CASE k = 0
  <2>1. E_SLAB_CALLOC \in Int /\ E_SLAB_CALLOC # E_UPS_LEFT_ONE
    BY DEF E_SLAB_CALLOC, E_UPS_LEFT_ONE
  <2> QED
    BY <1>1, <1>3, <1>4, <2>1, FinishIInv
<1>5. CASE k # 0
  <2>1. E_SLAB_ALLOC \in Int /\ E_SLAB_ALLOC # E_UPS_LEFT_ONE
    BY DEF E_SLAB_ALLOC, E_UPS_LEFT_ONE
  <2> QED
    BY <1>1, <1>3, <1>5, <2>1, FinishIInv
<1> QED
  BY <1>4, <1>5

LEMMA ReturnsIInv ==
    ASSUME IInv, AddReturns \/ DelReturns \/ EditReturns PROVE IInv'
<1>1. Finish(count) /\ UNCHANGED slab
  BY DEF AddReturns, DelReturns, EditReturns
<1>2. count \in Int /\ count # E_UPS_LEFT_ONE
  BY DEF IInv, TypeOK, E_UPS_LEFT_ONE
<1>3. room' \in [Zone -> Nat] /\ lost' \in [Zone -> Nat]
  BY <1>1 DEF slab, IInv, TypeOK
<1> QED
  BY <1>1, <1>2, <1>3, FinishIInv

\* "Left one peer": the counter is 1, so the list has one peer, so the loop
\* is at its head, so it has deleted nothing.
LEMMA DelRefusesIInv == ASSUME IInv, DelRefuses PROVE IInv'
<1>1. number[grp] = Len(list[grp]) /\ list[grp] \in Seq(Peer)
  BY LoopPlace DEF DelRefuses, IInv
<1>2. Len(list[grp]) = 1 /\ cur = 1
  <2>1. number[grp] = 1
    BY DEF DelRefuses, LeftOne
  <2>2. cur \in Nat \ {0}
    BY DEF IInv, TypeOK
  <2>3. cur <= Len(list[grp])
    BY DEF DelRefuses, InList
  <2> QED
    BY <1>1, <2>1, <2>2, <2>3
<1>3. list[grp] = old
  BY <1>2 DEF DelRefuses, IInv, Progress, TypeOK
<1>4. E_UPS_LEFT_ONE \in Int
  BY DEF E_UPS_LEFT_ONE
<1>5. room' \in [Zone -> Nat] /\ lost' \in [Zone -> Nat]
  BY DEF DelRefuses, slab, IInv, TypeOK
<1> QED
  BY <1>2, <1>3, <1>4, <1>5, FinishIInv DEF DelRefuses

LEMMA SkipsIInv == ASSUME IInv, DelSkips \/ EditSkips PROVE IInv'
<1>1. /\ pc \in {"del", "edit"} /\ cur' = cur + 1
      /\ UNCHANGED <<peers, slab, pc, call, count, ret, old>>
  BY DEF DelSkips, EditSkips, NextIteration
<1>2. TypeOK'
  BY <1>1 DEF IInv, TypeOK, peers, slab
<1>3. CountersAgree'
  BY <1>1, SameCounters DEF IInv
<1>4. NoNullRead' /\ LeftOneDeletesNothing' /\ Running'
  BY <1>1 DEF IInv, NoNullRead, LeftOneDeletesNothing, Running, Found, Parsed,
     NoBackup, peers
<1>5. Progress'
  BY <1>1 DEF IInv, TypeOK, Progress, peers, grp
<1> QED
  BY <1>2, <1>3, <1>4, <1>5 DEF IInv

\* A peer is deleted: it was not the last one, so the list stays non-empty
\* and hpeer is not NULL when the loop goes on.
LEMMA DelUnlinksIInv == ASSUME IInv, DelUnlinks PROVE IInv'
<1>1. /\ call \in Calls /\ call.op = "del" /\ Found(call)
      /\ grp \in Group /\ zone \in Zone
      /\ list[grp] \in Seq(Peer) /\ Len(list[grp]) \in Nat
      /\ Weighted(list[grp]) /\ Total(list[grp]) \in Int
      /\ number[grp] = Len(list[grp])
      /\ total_weight[grp] = Total(list[grp])
  BY LoopPlace DEF DelUnlinks, IInv
<1>2. cur \in 1 .. Len(list[grp]) /\ Len(list[grp]) # 1
  BY <1>1 DEF DelUnlinks, InList, LeftOne, IInv, TypeOK
<1>3. here \in Peer /\ here.weight \in Int
  <2>1. here \in Peer
    BY <1>1, <1>2, ElementOfSeq DEF here
  <2> QED
    BY <2>1 DEF Peer
<1> DEFINE s == RemoveAt(list[grp], cur)
<1>4. /\ s \in Seq(Peer) /\ Len(s) = Len(list[grp]) - 1
      /\ Total(s) = Total(list[grp]) - here.weight
  BY <1>1, <1>2, TotalRemoveAt DEF here
<1>5. /\ list' = [list EXCEPT ![grp] = s]
      /\ number' = [number EXCEPT ![grp] = Len(s)]
      /\ total_weight' = [total_weight EXCEPT ![grp] = Total(s)]
      /\ single' = [single EXCEPT ![grp] = (Len(s) = 1)]
  BY <1>1, <1>4 DEF DelUnlinks, WeightAfterUnlink
<1> HIDE DEF s
<1>6. pc = "del" /\ pc' = "del"
  BY <1>2 DEF DelUnlinks
<1>7. TypeOK'
  <2>1. Freed(here) \in Nat
    BY DEF Freed, PeerChunks
  <2>2. room' \in [Zone -> Nat]
    BY <1>1, <2>1 DEF DelUnlinks, IInv, TypeOK
  <2>3. /\ cur' \in Nat \ {0} /\ count' \in Nat
        /\ UNCHANGED <<next, lost, call, ret, old>>
    BY DEF DelUnlinks, CursorAfterUnlink, IInv, TypeOK
  <2>4. /\ list' \in [Group -> Seq(Peer)] /\ number' \in [Group -> Int]
        /\ total_weight' \in [Group -> Int]
    BY <1>1, <1>3, <1>4, <1>5 DEF IInv, TypeOK
  <2>5. single' \in [Group -> BOOLEAN]
    BY <1>5 DEF IInv, TypeOK
  <2> QED
    BY <1>6, <2>2, <2>3, <2>4, <2>5 DEF IInv, TypeOK
<1>8. CountersAgree'
  BY <1>1, <1>5, CountersOfGroup DEF IInv
<1>9. NoNullRead' /\ LeftOneDeletesNothing'
  BY <1>6 DEF NoNullRead, LeftOneDeletesNothing
<1>10. Running'
  <2>1. ~NoBackup(call) /\ call' = call /\ next' = next
    BY <1>6 DEF IInv, Running, DelUnlinks
  <2> QED
    BY <1>1, <1>6, <2>1 DEF Running, Found, Parsed, NoBackup
<1>11. Progress'
  BY <1>6 DEF DelUnlinks, Progress, CursorAfterUnlink, IInv, TypeOK
<1> QED
  BY <1>7, <1>8, <1>9, <1>10, <1>11 DEF IInv

\* A peer's settings change, and the total by the difference in weight.
LEMMA EditSetsIInv == ASSUME IInv, EditSets PROVE IInv'
<1>1. /\ call \in Calls /\ call.op = "edit" /\ Found(call)
      /\ grp \in Group /\ zone \in Zone
      /\ list[grp] \in Seq(Peer) /\ Len(list[grp]) \in Nat
      /\ Weighted(list[grp]) /\ Total(list[grp]) \in Int
      /\ number[grp] = Len(list[grp])
      /\ total_weight[grp] = Total(list[grp])
  BY LoopPlace DEF EditSets, IInv
<1>2. cur \in 1 .. Len(list[grp])
  BY <1>1 DEF EditSets, InList, IInv, TypeOK
<1>3. /\ here \in Peer /\ here.weight \in Int
      /\ Edited(here) \in Peer /\ Edited(here).weight \in Int
  <2>1. here \in Peer
    BY <1>1, <1>2, ElementOfSeq DEF here
  <2>2. Edited(here) \in Peer
    BY <1>1, <2>1, CallFields, EditedIsPeer
  <2> QED
    BY <2>1, <2>2 DEF Peer
<1> DEFINE s == ReplaceAt(list[grp], cur, Edited(here))
<1>4. /\ s \in Seq(Peer) /\ Len(s) = Len(list[grp])
      /\ Total(s) = (Total(list[grp]) - here.weight) + Edited(here).weight
  BY <1>1, <1>2, <1>3, TotalReplaceAt DEF here
<1>5. /\ list' = [list EXCEPT ![grp] = s]
      /\ total_weight' = [total_weight EXCEPT ![grp] = Total(s)]
  BY <1>1, <1>4 DEF EditSets, WeightAfterEdit
<1>6. /\ number' = [number EXCEPT ![grp] = Len(s)]
      /\ single' = [single EXCEPT ![grp] = single[grp]]
  BY <1>1, <1>4 DEF EditSets, IInv, TypeOK
<1> HIDE DEF s
<1>7. TypeOK'
  <2>1. /\ cur' \in Nat \ {0} /\ count' \in Nat
        /\ UNCHANGED <<number, single, next, room, lost, pc, call, ret, old>>
    BY DEF EditSets, NextIteration, IInv, TypeOK, slab
  <2>2. list' \in [Group -> Seq(Peer)] /\ total_weight' \in [Group -> Int]
    BY <1>1, <1>3, <1>4, <1>5 DEF IInv, TypeOK
  <2> QED
    BY <2>1, <2>2 DEF IInv, TypeOK
<1>8. CountersAgree'
  <2>1. single[grp] => Len(s) = 1
    BY <1>1, <1>4 DEF IInv, CountersAgree
  <2> QED
    BY <1>1, <1>5, <1>6, <2>1, CountersOfGroup DEF IInv
<1>9. NoNullRead' /\ LeftOneDeletesNothing' /\ Running' /\ Progress'
  BY DEF EditSets, IInv, NoNullRead, LeftOneDeletesNothing, Running, Progress,
     Found, Parsed, NoBackup
<1> QED
  BY <1>7, <1>8, <1>9 DEF IInv

LEMMA ResumeIInv == ASSUME IInv, Resume PROVE IInv'
<1>1. TypeOK'
  <2>1. << >> \in Seq(Peer)
    OBVIOUS
  <2> QED
    BY <2>1 DEF IInv, TypeOK, Resume, peers, slab, E_SUCCESS
<1>2. CountersAgree'
  BY SameCounters DEF IInv, Resume
<1>3. NoNullRead' /\ LeftOneDeletesNothing' /\ Running' /\ Progress'
  BY DEF Resume, NoNullRead, LeftOneDeletesNothing, Running, Progress
<1> QED
  BY <1>1, <1>2, <1>3 DEF IInv

\* Nothing changes.
LEMMA StutterIInv == ASSUME IInv, UNCHANGED vars PROVE IInv'
<1>1. TypeOK' /\ CountersAgree'
  BY DEF IInv, TypeOK, CountersAgree, vars, peers, slab
<1>2. NoNullRead' /\ LeftOneDeletesNothing' /\ Running' /\ Progress'
  BY DEF IInv, NoNullRead, LeftOneDeletesNothing, Running, Progress, vars,
     peers, slab, grp, Found, Parsed, NoBackup
<1> QED
  BY <1>1, <1>2 DEF IInv

\* Every step keeps the inductive invariant.
LEMMA NextIInv == ASSUME IInv, [Next]_vars PROVE IInv'
<1>1. CASE Begin
  BY <1>1, BeginIInv
<1>2. CASE Step
  BY <1>2, AddPeerIInv, AddFailsIInv, ReturnsIInv, DelRefusesIInv, SkipsIInv,
     DelUnlinksIInv, EditSetsIInv DEF Step
<1>3. CASE Resume
  BY <1>3, ResumeIInv
<1>4. CASE UNCHANGED vars
  BY <1>4, StutterIInv
<1> QED
  BY <1>1, <1>2, <1>3, <1>4 DEF Next

-----------------------------------------------------------------------------
(***************************************************************************)
(* The theorems.                                                           *)
(***************************************************************************)

\* The inductive invariant holds in every state the functions reach.
THEOREM Invariance == Spec => []IInv
<1>1. Init => IInv
  BY InitIInv
<1>2. IInv /\ [Next]_vars => IInv'
  BY NextIInv
<1> QED
  BY <1>1, <1>2, PTL DEF Spec

\* Type correctness of add.c, del.c and mdf.c: weights stay positive, limits
\* natural, down a word, whatever integers the JSON entries carry.
THEOREM TypeCorrectness == Spec => []TypeOK
<1>1. IInv => TypeOK
  BY DEF IInv
<1> QED
  BY <1>1, Invariance, PTL

\* number, total_weight and single always describe the list.
THEOREM CountersCorrectness == Spec => []CountersAgree
<1>1. IInv => CountersAgree
  BY DEF IInv
<1> QED
  BY <1>1, Invariance, PTL

\* hdel_peer never reads through the NULL head of an emptied list.
THEOREM NoNullReadEver == Spec => []NoNullRead
<1>1. IInv => NoNullRead
  BY DEF IInv
<1> QED
  BY <1>1, Invariance, PTL

\* The answer "left one peer" means that nothing was deleted.
THEOREM LeftOneCorrectness == Spec => []LeftOneDeletesNothing
<1>1. IInv => LeftOneDeletesNothing
  BY DEF IInv
<1> QED
  BY <1>1, Invariance, PTL

-----------------------------------------------------------------------------
(***************************************************************************)
(* UpsPeers implements PeerTable: every iteration of every loop is one     *)
(* change of one table, or no change.                                      *)
(***************************************************************************)
\* A step that changes no list, counter or backup pointer is a stutter.
LEMMA QuietStutters ==
    ASSUME UNCHANGED peers
    PROVE  UNCHANGED Table!vars
BY DEF peers, Table!vars

\* PeerTable reads the lists with the same operators.
LEMMA SameOperators ==
    ASSUME NEW s, NEW i, NEW e
    PROVE  /\ Table!Total(s) = Total(s)
           /\ Table!RemoveAt(s, i) = RemoveAt(s, i)
           /\ Table!ReplaceAt(s, i, e) = ReplaceAt(s, i, e)
<1>1. Table!WeightsUpTo(s) = WeightsUpTo(s)
  BY DEF WeightsUpTo, Table!WeightsUpTo
<1>2. Table!Total(s) = Total(s)
  BY <1>1 DEF Total, Table!Total
<1>3. Table!RemoveAt(s, i) = RemoveAt(s, i)
  BY DEF RemoveAt, Table!RemoveAt
<1>4. Table!ReplaceAt(s, i, e) = ReplaceAt(s, i, e)
  BY DEF ReplaceAt, Table!ReplaceAt
<1> QED
  BY <1>2, <1>3, <1>4

\* The counters summarise the tables.
LEMMA CountersSummarise ==
    ASSUME TypeOK, CountersAgree
    PROVE  Table!Summarised
<1>1. number = [g \in Group |-> Len(list[g])]
  BY DEF TypeOK, CountersAgree
<1>2. total_weight = [g \in Group |-> Total(list[g])]
  BY DEF TypeOK, CountersAgree
<1> QED
  BY <1>1, <1>2, SameOperators DEF Table!Summarised, Table!Group, Group

\* What is left to show of a change: that it is one of the three.
LEMMA OneTableChanges ==
    ASSUME TypeOK, TypeOK', CountersAgree', NEW g \in Group, NEW s,
           list' = [list EXCEPT ![g] = s], next' = next,
           Table!Grow(g) \/ Table!Shrink(g) \/ Table!Change(g)
    PROVE  Table!ChangeTable
<1>1. \A h \in Group \ {g} : list'[h] = list[h]
  BY DEF TypeOK
<1>2. Table!Summarised'
  <2>1. number' = [h \in Group |-> Len(list'[h])]
    BY DEF TypeOK, CountersAgree
  <2>2. total_weight' = [h \in Group |-> Total(list'[h])]
    BY DEF TypeOK, CountersAgree
  <2> QED
    BY <2>1, <2>2, SameOperators DEF Table!Summarised, Table!Group, Group
<1> QED
  BY <1>1, <1>2 DEF Table!ChangeTable, Table!Group, Group

\* hadd_peer links a new head.
LEMMA AddPeerGrows == ASSUME IInv, IInv', AddPeer PROVE Table!ChangeTable
<1>1. grp \in Group /\ list[grp] \in Seq(Peer) /\ Found(call)
  BY LoopPlace DEF AddPeer, IInv
<1>2. call.to.backup => next[call.to.ups]
  BY DEF AddPeer, IInv, Running, NoBackup
<1>3. list' = [list EXCEPT ![grp] = Cons(NewPeer, list[grp])]
  BY DEF AddPeer
<1>4. list'[grp] = Cons(NewPeer, list[grp])
  BY <1>1, <1>3 DEF IInv, TypeOK
<1>5. list'[grp] # << >> /\ Tail(list'[grp]) = list[grp]
  <2>1. list'[grp] = << NewPeer >> \o list[grp]
    BY <1>4 DEF Cons
  <2>2. list'[grp] \in Seq(Peer)
    BY <1>1 DEF IInv, TypeOK
  <2> QED
    BY <1>1, <2>1, <2>2
<1>6. Table!Grow(grp)
  BY <1>2, <1>5 DEF Table!Grow, Table!Exists, grp
<1>7. next' = next
  BY DEF AddPeer
<1> QED
  BY <1>1, <1>3, <1>6, <1>7, OneTableChanges DEF IInv

\* hdel_peer unlinks one peer of several.
LEMMA DelUnlinksShrinks ==
    ASSUME IInv, IInv', DelUnlinks PROVE Table!ChangeTable
<1>1. /\ grp \in Group /\ list[grp] \in Seq(Peer) /\ Len(list[grp]) \in Nat
      /\ number[grp] = Len(list[grp])
  BY LoopPlace DEF DelUnlinks, IInv
<1>2. cur \in 1 .. Len(list[grp]) /\ Len(list[grp]) # 1
  BY <1>1 DEF DelUnlinks, InList, LeftOne, IInv, TypeOK
<1>3. list' = [list EXCEPT ![grp] = RemoveAt(list[grp], cur)]
  BY DEF DelUnlinks
<1>4. list'[grp] = RemoveAt(list[grp], cur)
  BY <1>1, <1>3 DEF IInv, TypeOK
<1>5. Table!Shrink(grp)
  <2>1. Len(list[grp]) > 1
    <3> DEFINE n == Len(list[grp])
    <3>1. n \in Nat /\ cur \in 1 .. n
      BY <1>1, <1>2
    <3>2. n # 1
      BY <1>2
    <3> HIDE DEF n
    <3>3. n > 1
      BY <3>1, <3>2
    <3> QED
      BY <3>3 DEF n
  <2>2. list'[grp] = Table!RemoveAt(list[grp], cur)
    BY <1>4 DEF RemoveAt, Table!RemoveAt
  <2> QED
    BY <1>2, <2>1, <2>2 DEF Table!Shrink
<1>6. next' = next
  BY DEF DelUnlinks
<1> QED
  BY <1>1, <1>3, <1>5, <1>6, OneTableChanges DEF IInv

\* hmdf_peer changes one peer and keeps its name and server.
LEMMA EditSetsChanges ==
    ASSUME IInv, IInv', EditSets PROVE Table!ChangeTable
<1>1. /\ call \in Calls /\ call.op = "edit"
      /\ grp \in Group /\ list[grp] \in Seq(Peer) /\ Len(list[grp]) \in Nat
      /\ Weighted(list[grp])
  BY LoopPlace DEF EditSets, IInv
<1>2. cur \in 1 .. Len(list[grp])
  BY <1>1 DEF EditSets, InList, IInv, TypeOK
<1>3. here = list[grp][cur] /\ here \in Peer
  BY <1>1, <1>2, ElementOfSeq DEF here
<1>4. Edited(here) \in Peer
  BY <1>1, <1>3, CallFields, EditedIsPeer
<1>5. Edited(here).name = here.name /\ Edited(here).server = here.server
  BY <1>3 DEF Edited, Peer
<1> DEFINE s == ReplaceAt(list[grp], cur, Edited(here))
<1>6. list' = [list EXCEPT ![grp] = s]
  BY DEF EditSets
<1>7. list'[grp] = s
  BY <1>1, <1>6 DEF IInv, TypeOK
<1>8. s[cur] = Edited(here)
  <2>1. Edited(here).weight \in Int
    BY <1>4 DEF Peer
  <2> QED
    BY <1>1, <1>2, <1>4, <2>1, TotalReplaceAt
<1> HIDE DEF s
<1>9. Table!Change(grp)
  <2>1. s = ReplaceAt(list[grp], cur, s[cur])
    BY <1>8 DEF s
  <2> QED
    BY <1>2, <1>3, <1>5, <1>7, <1>8, <2>1, SameOperators
       DEF Table!Change
<1>10. next' = next
  BY DEF EditSets
<1> QED
  BY <1>1, <1>6, <1>9, <1>10, OneTableChanges DEF IInv

\* Entering a call is a stutter, or gives an upstream its backup table.
LEMMA BeginRefines ==
    ASSUME IInv, Begin PROVE [Table!Next]_(Table!vars)
<1>1. PICK c \in Calls :
         \/ NotCompiledIn(c) \/ BadUrl(c) \/ NoMainConf(c) \/ NotFound(c)
         \/ Enter(c) \/ EnterNewBackup(c) \/ NewBackupFails(c)
  BY DEF Begin, Start
<1>2. CASE \/ NotCompiledIn(c) \/ BadUrl(c) \/ NoMainConf(c) \/ NotFound(c)
           \/ NewBackupFails(c)
  <2>1. UNCHANGED peers
    BY <1>2 DEF NotCompiledIn, BadUrl, NoMainConf, NotFound, NewBackupFails,
       Answer
  <2> QED
    BY <2>1, QuietStutters
<1>3. CASE Enter(c)
  <2>1. UNCHANGED peers
    BY <1>3 DEF Enter, EnterLoop, peers
  <2> QED
    BY <2>1, QuietStutters
<1>4. CASE EnterNewBackup(c)
  <2>1. c.to.ups \in Upstream /\ ~next[c.to.ups]
    BY <1>4 DEF EnterNewBackup, Found, NoBackup
  <2>2. /\ next' = [next EXCEPT ![c.to.ups] = TRUE]
        /\ UNCHANGED <<list, number, total_weight>>
    BY <1>4 DEF EnterNewBackup, EnterLoop
  <2>3. Table!AddBackupTable
    BY <2>1, <2>2 DEF Table!AddBackupTable
  <2> QED
    BY <2>3 DEF Table!Next
<1> QED
  BY <1>1, <1>2, <1>3, <1>4

\* Every step of the functions is a step of the tables, or a stutter.
LEMMA NextRefines ==
    ASSUME IInv, IInv', [Next]_vars PROVE [Table!Next]_(Table!vars)
<1>1. CASE Begin
  BY <1>1, BeginRefines
<1>2. CASE AddPeer
  BY <1>2, AddPeerGrows DEF Table!Next
<1>3. CASE DelUnlinks
  BY <1>3, DelUnlinksShrinks DEF Table!Next
<1>4. CASE EditSets
  BY <1>4, EditSetsChanges DEF Table!Next
<1>5. CASE \/ AddFails \/ AddReturns \/ DelSkips \/ DelRefuses \/ DelReturns
           \/ EditSkips \/ EditReturns \/ Resume
  <2>1. UNCHANGED peers
    BY <1>5 DEF AddFails, AddReturns, DelSkips, DelRefuses, DelReturns,
       EditSkips, EditReturns, Resume, Finish
  <2> QED
    BY <2>1, QuietStutters
<1>6. CASE UNCHANGED vars
  <2>1. UNCHANGED peers
    BY <1>6 DEF vars
  <2> QED
    BY <2>1, QuietStutters
<1> QED
  BY <1>1, <1>2, <1>3, <1>4, <1>5, <1>6 DEF Next, Step

LEMMA InitRefines == ASSUME Init PROVE Table!Init
<1>1. IInv
  BY InitIInv
<1>2. Table!Summarised
  BY <1>1, CountersSummarise DEF IInv
<1>3. \A u \in Upstream : list[<<u, FALSE>>] # << >>
  BY ConfigAssumption DEF Init
<1>4. next = [u \in Upstream |-> list[<<u, TRUE>>] # << >>]
  BY DEF Init
<1> QED
  BY <1>2, <1>3, <1>4 DEF Table!Init

\* add.c, del.c and mdf.c implement the table of peers: one peer at a time,
\* never the last one, with a summary that is right in every state.
THEOREM Refinement == Spec => ImplementsPeerTable
<1>1. Init => Table!Init
  BY InitRefines
<1>2. IInv /\ IInv' /\ [Next]_vars => [Table!Next]_(Table!vars)
  BY NextRefines
<1> QED
  BY <1>1, <1>2, Invariance, PTL DEF Spec, Table!Spec, ImplementsPeerTable

\* A group with peers keeps one through every iteration of every call.
THEOREM StaysServed == Spec => GroupsStayServed
<1>1. ASSUME IInv, IInv', [Next]_vars
      PROVE  \A g \in Group : list[g] # << >> => list'[g] # << >>
  <2>1. [Table!Next]_(Table!vars)
    BY <1>1, NextRefines
  <2> TAKE g \in Group
  <2> HAVE list[g] # << >>
  <2>2. list[g] \in Seq(Peer) /\ list'[g] \in Seq(Peer)
    BY <1>1 DEF IInv, TypeOK
  <2>3. CASE list' = list
    BY <2>3
  <2>4. CASE Table!ChangeTable
    <3>1. PICK h \in Group :
             /\ Table!Grow(h) \/ Table!Shrink(h) \/ Table!Change(h)
             /\ \A k \in Group \ {h} : list'[k] = list[k]
      BY <2>4 DEF Table!ChangeTable, Table!Group, Group
    <3>2. CASE g # h
      BY <3>1, <3>2
    <3>3. CASE g = h /\ Table!Grow(h)
      BY <3>3 DEF Table!Grow
    <3>4. CASE g = h /\ Table!Shrink(h)
      <4>1. PICK i \in 1 .. Len(list[g]) : list'[g] = RemoveAt(list[g], i)
        BY <3>4, SameOperators DEF Table!Shrink
      <4>2. Len(list'[g]) = Len(list[g]) - 1
        BY <2>2, <4>1, PeersWeighted, TotalRemoveAt
      <4>3. Len(list[g]) > 1
        BY <3>4 DEF Table!Shrink
      <4> QED
        BY <2>2, <4>2, <4>3
    <3>5. CASE g = h /\ Table!Change(h)
      <4>1. PICK i \in 1 .. Len(list[g]) :
               list'[g] = ReplaceAt(list[g], i, list'[g][i])
        BY <3>5, SameOperators DEF Table!Change
      <4>2. Len(list'[g]) = Len(list[g])
        BY <2>2, <4>1 DEF ReplaceAt
      <4> QED
        BY <2>2, <4>1, <4>2
    <3> QED
      BY <3>1, <3>2, <3>3, <3>4, <3>5
  <2> QED
    BY <2>1, <2>3, <2>4 DEF Table!Next, Table!vars, Table!AddBackupTable
<1>2. IInv /\ IInv' /\ [Next]_vars =>
         [\A g \in Group : list[g] # << >> => list'[g] # << >>]_vars
  BY <1>1
<1> QED
  BY <1>2, Invariance, PTL DEF Spec, GroupsStayServed
=============================================================================
