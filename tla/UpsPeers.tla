------------------------------ MODULE UpsPeers ------------------------------
(***************************************************************************)
(* The peer groups of the upstreams, and the three calls that change them: *)
(* hadd_peer (add.c), hdel_peer (del.c) and hmdf_peer (mdf.c), as one      *)
(* nginx worker executes them.  sadd_peer, sdel_peer and smdf_peer are the *)
(* same functions on the stream structures: a call carries its kind.       *)
(*                                                                         *)
(* A call is entered by Begin, its loop runs one iteration per action, and *)
(* it ends in pc = "done" with its return value in ret, which is what      *)
(* add_upstream, del_upstream and mdf_upstream count.                      *)
(***************************************************************************)
EXTENDS PeerLists, FiniteSets

CONSTANTS
    Kind,        \* the two subsystems: http and stream
    Built,       \* those compiled with NGX_DYN_UPSTREAM_{HTTP,STREAM}_ZONE
    Conf,        \* those with a block in nginx.conf (main conf not NULL)
    Upstream,    \* the upstream{} blocks
    NoUps,       \* the name of no upstream
    KindOf,      \* the subsystem of an upstream
    Zone,        \* the shared memory zones, each with its slab pool
    NoZone,      \* an upstream without a "zone" directive: shpool is NULL
    ZoneOf,      \* the zone of an upstream
    Name,        \* resolved addresses in text form: peer->name
    Server,      \* the strings a peer was configured with: peer->server
    NoStr,       \* a JSON string that is not there
    Resolve,     \* what ngx_parse_url may answer: a sequence of addresses,
                 \* << >> when the string does not parse
    NoVal,       \* a JSON number or boolean that is not there
    Weights, ConnLimits, FailLimits, Timeouts,   \* numbers a call may carry
    Junk,        \* the seven stack bytes after the bool down of mdf_upstream
    UintMod,     \* ngx_uint_t counts modulo this
    SlabChunks,  \* allocations a zone can still serve after configuration
    Configured   \* the peer lists nginx.conf may set up

Group == Upstream \X BOOLEAN     \* <<u, TRUE>>: the backup group of u

Word == { b + 256 * j : b \in {0, 1}, j \in Junk }

Peer == [name : Name, server : Server, weight : Nat \ {0},
         effective_weight : Nat \ {0}, max_conns : Nat, max_fails : Nat,
         fail_timeout : Nat, down : Word, pooled : BOOLEAN]

ASSUME SystemAssumption ==
    /\ Built \subseteq Kind /\ Conf \subseteq Kind
    /\ NoUps \notin Upstream /\ NoZone \notin Zone
    /\ IsFiniteSet(Upstream)
    /\ KindOf \in [Upstream -> Kind]
    /\ ZoneOf \in [Upstream -> Zone \cup {NoZone}]
    /\ \A s \in Resolve : s \in Seq(Name)

ASSUME DataAssumption ==
    /\ NoStr \notin Name /\ NoStr \notin Server
    /\ Weights \cup ConnLimits \cup FailLimits \cup Timeouts
          \subseteq Int \cup {NoVal}
    /\ 0 \in Junk /\ Junk \subseteq Nat
    /\ UintMod \in Nat \ {0} /\ SlabChunks \in Nat

\* nginx rejects an upstream{} without servers; what it configures has a
\* weight and an up or down flag of 0 or 1.
ASSUME ConfigAssumption ==
    /\ Configured \subseteq [Group -> Seq(Peer)]
    /\ \A c \in Configured, u \in Upstream : c[<<u, FALSE>>] # << >>
    /\ \A c \in Configured, g \in Group :
          \A i \in 1 .. Len(c[g]) :
             c[g][i].down \in {0, 1}

VARIABLES
    list,          \* list[g]: the peers of a group, from peers->peer on
    number,        \* number[g]: peers->number
    total_weight,  \* total_weight[g]: peers->total_weight
    single,        \* single[g]: peers->single
    next,          \* next[u]: u's peers->next is not NULL
    room,          \* room[z]: allocations the slab pool can still serve
    lost,          \* lost[z]: chunks of z that nothing points to any more
    pc,            \* the function being executed, "idle", "done" or "crashed"
    call,          \* its parameters
    cur,           \* the loop's position: in the list, for add in the addresses
    count,         \* the local variable count
    ret,           \* the value returned
    old            \* the list of the group when the loop began

peers == <<list, number, total_weight, single, next>>
slab  == <<room, lost>>
vars  == <<peers, slab, pc, call, cur, count, ret, old>>

E_SUCCESS      == 0
E_UPS_LEFT_ONE == -1000
E_PARSE_URL    == -1004
E_SLAB_ALLOC   == -1005
E_SLAB_CALLOC  == -1006
E_FUNC_NA      == -1007
E_NO_UPS       == -1009

-----------------------------------------------------------------------------
(***************************************************************************)
(* The parameters of a call.  They are the values of the JSON entry; the   *)
(* conversions of add_upstream and mdf_upstream come with their use.       *)
(***************************************************************************)
Target == [kind : Kind, ups : Upstream \cup {NoUps}, backup : BOOLEAN]

Values == [weight : Weights, max_conns : ConnLimits, max_fails : FailLimits,
           fail_timeout : Timeouts]

NoTarget == [kind |-> NoVal, ups |-> NoUps, backup |-> FALSE]
NoValues == [weight |-> NoVal, max_conns |-> NoVal, max_fails |-> NoVal,
             fail_timeout |-> NoVal]

AddCalls ==
    [op : {"add"}, to : Target, name : {NoStr}, server : Server,
     down : {0, 1}, junk : {0}, set : Values, addrs : Resolve]

DelCalls ==
    [op : {"del"}, to : Target, name : Name \cup {NoStr},
     server : Server \cup {NoStr}, down : {0, 1}, junk : {0},
     set : {NoValues}, addrs : {<< >>}]

EditCalls ==
    [op : {"edit"}, to : Target, name : Name \cup {NoStr},
     server : Server \cup {NoStr}, down : {0, 1, NoVal}, junk : Junk,
     set : Values, addrs : {<< >>}]

\* del_upstream and mdf_upstream refuse an entry with neither string.
Calls == AddCalls \cup { c \in DelCalls \cup EditCalls :
                            c.name # NoStr \/ c.server # NoStr }

NoCall ==
    [op |-> "idle", to |-> NoTarget, name |-> NoStr, server |-> NoStr,
     down |-> NoVal, junk |-> 0, set |-> NoValues, addrs |-> << >>]

\* json_getint: 0 stands for a number that is not there.
GetInt(v) == IF v = NoVal THEN 0 ELSE v

\* mdf_upstream keeps max_conns and max_fails in a ngx_uint_t.
AsUint(v) == GetInt(v) % UintMod

\* add_upstream's defaults, for what is not above zero.
MutNoDefault(v, default) == GetInt(v)
OrDefault(v, default) == IF GetInt(v) <= 0 THEN default ELSE GetInt(v)

-----------------------------------------------------------------------------
(***************************************************************************)
(* What the functions look at and compute.                                 *)
(***************************************************************************)
grp  == <<call.to.ups, call.to.backup>>
zone == ZoneOf[call.to.ups]
here == list[grp][cur]

\* The three ifs before the body of the loop of hdel_peer; hmdf_peer has
\* the first two.
MutSelectedByEither(c, p) ==
    /\ c.name = p.name \/ c.server = p.server
    /\ c.op = "del" => p.down = c.down
Selected(c, p) ==
    /\ c.name # NoStr => p.name = c.name
    /\ c.server # NoStr => p.server = c.server
    /\ c.op = "del" => p.down = c.down

\* The allocations of a new peer: its structure, address, name and server.
PeerChunks == 4

\* What deleting a peer gives back to the pool: the structure, and the other
\* three when in_shpool finds them there, which it does for an added peer, and
\* for one from nginx.conf only if nginx copied its strings into the zone.
MutFreed(p) == 1
Freed(p) == IF p.pooled THEN PeerChunks ELSE 1

NewPeer ==
    [name |-> call.addrs[cur], server |-> call.server,
     weight |-> OrDefault(call.set.weight, 1),
     effective_weight |-> OrDefault(call.set.weight, 1),
     max_conns |-> OrDefault(call.set.max_conns, 0),
     max_fails |-> OrDefault(call.set.max_fails, 1),
     fail_timeout |-> OrDefault(call.set.fail_timeout, 10),
     down |-> call.down, pooled |-> TRUE]

\* hmdf_peer gets a pointer to a value only when the value is above zero,
\* and to the eight bytes at the bool down only when down is a JSON bool.
MutEdited(p) ==
    [p EXCEPT !.weight = GetInt(call.set.weight)]
Edited(p) ==
    [p EXCEPT
       !.weight       = IF GetInt(call.set.weight) > 0
                        THEN GetInt(call.set.weight) ELSE @,
       !.max_conns    = IF AsUint(call.set.max_conns) > 0
                        THEN AsUint(call.set.max_conns) ELSE @,
       !.max_fails    = IF AsUint(call.set.max_fails) > 0
                        THEN AsUint(call.set.max_fails) ELSE @,
       !.fail_timeout = IF GetInt(call.set.fail_timeout) > 0
                        THEN GetInt(call.set.fail_timeout) ELSE @,
       !.down         = IF call.down = NoVal
                        THEN @ ELSE call.down + 256 * call.junk]

-----------------------------------------------------------------------------
(***************************************************************************)
(* Entering a call.  The loop over the upstreams finds at most one with    *)
(* the name and a pool: names are unique in an nginx configuration.        *)
(***************************************************************************)
Answer(c, r) ==
    /\ pc' = "done" /\ call' = c /\ ret' = r
    /\ UNCHANGED <<peers, slab, cur, count, old>>

EnterLoop(c) ==
    /\ pc' = c.op /\ call' = c
    /\ old' = list[<<c.to.ups, c.to.backup>>]
    /\ UNCHANGED <<list, number, total_weight, single, cur, count, ret>>

Parsed(c) == c.to.kind \in Built /\ (c.op = "add" => c.addrs # << >>)

Found(c) ==
    /\ Parsed(c) /\ c.to.kind \in Conf
    /\ c.to.ups \in Upstream
    /\ KindOf[c.to.ups] = c.to.kind
    /\ ZoneOf[c.to.ups] # NoZone

NoBackup(c) == c.to.backup /\ ~next[c.to.ups]

NotCompiledIn(c) == c.to.kind \notin Built /\ Answer(c, E_FUNC_NA)

BadUrl(c) ==
    /\ c.to.kind \in Built
    /\ ~Parsed(c)
    /\ Answer(c, E_PARSE_URL)

NoMainConf(c) ==
    /\ Parsed(c) /\ c.to.kind \notin Conf
    /\ Answer(c, E_NO_UPS)

NotFound(c) ==
    /\ Parsed(c) /\ c.to.kind \in Conf
    /\ Found(c) => NoBackup(c) /\ c.op # "add"
    /\ Answer(c, E_SUCCESS)

Enter(c) ==
    /\ Found(c) /\ ~NoBackup(c)
    /\ EnterLoop(c)
    /\ UNCHANGED <<next, slab>>

\* hadd_peer makes the backup group that is missing.  The slab pool refuses
\* when it is full, and may refuse earlier: it has no page of the size left.
EnterNewBackup(c) ==
    /\ Found(c) /\ NoBackup(c) /\ c.op = "add"
    /\ room[ZoneOf[c.to.ups]] >= 1
    /\ next' = [next EXCEPT ![c.to.ups] = TRUE]
    /\ room' = [room EXCEPT ![ZoneOf[c.to.ups]] = @ - 1]
    /\ EnterLoop(c)
    /\ UNCHANGED lost

NewBackupFails(c) ==
    /\ Found(c) /\ NoBackup(c) /\ c.op = "add"
    /\ Answer(c, E_SLAB_CALLOC)

Start(c) ==
    /\ pc = "idle"
    /\ \/ NotCompiledIn(c) \/ BadUrl(c) \/ NoMainConf(c) \/ NotFound(c)
       \/ Enter(c) \/ EnterNewBackup(c) \/ NewBackupFails(c)

Begin == \E c \in Calls : Start(c)

-----------------------------------------------------------------------------
(***************************************************************************)
(* The loops.                                                              *)
(***************************************************************************)
Finish(r) ==
    /\ pc' = "done" /\ ret' = r
    /\ UNCHANGED <<peers, call, cur, count, old>>

\* The loop's increment, and the continue that leads to it.
MutNextIteration == cur' = cur
NextIteration == cur' = cur + 1

MutAddAtEnd == cur >= Len(call.addrs)
AddAtEnd == cur > Len(call.addrs)

\* An address of the server becomes the new head of the list.
AddPeer ==
    /\ pc = "add" /\ ~AddAtEnd
    /\ room[zone] >= PeerChunks
    /\ room' = [room EXCEPT ![zone] = @ - PeerChunks]
    /\ number' = [number EXCEPT ![grp] = @ + 1]
    /\ total_weight' = [total_weight EXCEPT ![grp] = @ + NewPeer.weight]
    /\ single' = [single EXCEPT ![grp] = (number[grp] + 1 = 1)]
    /\ list' = [list EXCEPT ![grp] = Cons(NewPeer, @)]
    /\ count' = count + 1
    /\ NextIteration
    /\ UNCHANGED <<next, lost, pc, call, ret, old>>

\* One of the four allocations of a peer fails: the k before it are lost,
\* and the addresses linked so far stay in the list.
AddFails ==
    /\ pc = "add" /\ ~AddAtEnd
    /\ \E k \in 0 .. 3 :
          /\ room[zone] >= k
          /\ room' = [room EXCEPT ![zone] = @ - k]
          /\ lost' = [lost EXCEPT ![zone] = @ + k]
          /\ Finish(IF k = 0 THEN E_SLAB_CALLOC ELSE E_SLAB_ALLOC)

AddReturns ==
    /\ pc = "add" /\ AddAtEnd
    /\ Finish(count)
    /\ UNCHANGED slab

InList == cur <= Len(list[grp])

DelSkips ==
    /\ pc = "del" /\ InList
    /\ ~Selected(call, here)
    /\ NextIteration
    /\ UNCHANGED <<peers, slab, pc, call, count, ret, old>>

MutLeftOne == number[grp] = 0
LeftOne == number[grp] = 1

DelRefuses ==
    /\ pc = "del" /\ InList
    /\ Selected(call, here) /\ LeftOne
    /\ Finish(E_UPS_LEFT_ONE)
    /\ UNCHANGED slab

\* Deleting the head sets hpeer and phpeer to the new head, and the loop's
\* increment then steps over it; when there is no new head, the increment
\* reads through a NULL hpeer.  Past the head, hpeer is the predecessor and
\* the increment leads to the successor.
MutCursorAfterUnlink == cur
MutCursorSkipping == cur + 1
CursorAfterUnlink == IF cur = 1 THEN 2 ELSE cur

MutWeightAfterUnlink == total_weight
WeightAfterUnlink ==
    [total_weight EXCEPT ![grp] = @ - here.weight]

DelUnlinks ==
    /\ pc = "del" /\ InList
    /\ Selected(call, here) /\ ~LeftOne
    /\ number' = [number EXCEPT ![grp] = @ - 1]
    /\ single' = [single EXCEPT ![grp] = (number[grp] - 1 = 1)]
    /\ total_weight' = WeightAfterUnlink
    /\ list' = [list EXCEPT ![grp] = RemoveAt(@, cur)]
    /\ room' = [room EXCEPT ![zone] = @ + Freed(here)]
    /\ count' = count + 1
    /\ cur' = CursorAfterUnlink
    /\ pc' = IF Len(list[grp]) = 1 THEN "crashed" ELSE "del"
    /\ UNCHANGED <<next, lost, call, ret, old>>

DelReturns ==
    /\ pc = "del" /\ ~InList
    /\ Finish(count)
    /\ UNCHANGED slab

EditSkips ==
    /\ pc = "edit" /\ InList
    /\ ~Selected(call, here)
    /\ NextIteration
    /\ UNCHANGED <<peers, slab, pc, call, count, ret, old>>

MutWeightAfterEdit ==
    [total_weight EXCEPT ![grp] = @ + Edited(here).weight]
WeightAfterEdit ==
    [total_weight EXCEPT ![grp] = (@ - here.weight) + Edited(here).weight]

EditSets ==
    /\ pc = "edit" /\ InList
    /\ Selected(call, here)
    /\ total_weight' = WeightAfterEdit
    /\ list' = [list EXCEPT ![grp] = ReplaceAt(@, cur, Edited(here))]
    /\ count' = count + 1
    /\ NextIteration
    /\ UNCHANGED <<number, single, next, slab, pc, call, ret, old>>

EditReturns ==
    /\ pc = "edit" /\ ~InList
    /\ Finish(count)
    /\ UNCHANGED slab

\* add_upstream, del_upstream and mdf_upstream go on to the next entry.
Resume ==
    /\ pc = "done"
    /\ pc' = "idle" /\ call' = NoCall
    /\ cur' = 1 /\ count' = 0 /\ ret' = E_SUCCESS /\ old' = << >>
    /\ UNCHANGED <<peers, slab>>

-----------------------------------------------------------------------------
Init ==
    /\ list \in Configured
    /\ number = [g \in Group |-> Len(list[g])]
    /\ total_weight = [g \in Group |-> Total(list[g])]
    /\ next = [u \in Upstream |-> list[<<u, TRUE>>] # << >>]
    /\ single = [g \in Group |-> Len(list[g]) = 1 /\ ~next[g[1]]]
    /\ room = [z \in Zone |-> SlabChunks]
    /\ lost = [z \in Zone |-> 0]
    /\ pc = "idle" /\ call = NoCall
    /\ cur = 1 /\ count = 0 /\ ret = E_SUCCESS /\ old = << >>

Step ==
    \/ AddPeer \/ AddFails \/ AddReturns
    \/ DelSkips \/ DelRefuses \/ DelUnlinks \/ DelReturns
    \/ EditSkips \/ EditSets \/ EditReturns

Next == Begin \/ Step \/ Resume

Spec == Init /\ [][Next]_vars

\* A handler never blocks: the worker runs its loop to the end.
FairSpec == Spec /\ WF_vars(Step)

-----------------------------------------------------------------------------
(***************************************************************************)
(* Properties.                                                             *)
(***************************************************************************)

\* Every variable has its type: in particular the counters of add_upstream's
\* defaults and of the unsigned conversions never leave the naturals.
TypeOK ==
    /\ list \in [Group -> Seq(Peer)]
    /\ number \in [Group -> Int] /\ total_weight \in [Group -> Int]
    /\ single \in [Group -> BOOLEAN] /\ next \in [Upstream -> BOOLEAN]
    /\ room \in [Zone -> Nat] /\ lost \in [Zone -> Nat]
    /\ pc \in {"idle", "add", "del", "edit", "done", "crashed"}
    /\ call \in Calls \cup {NoCall}
    /\ cur \in Nat \ {0} /\ count \in Nat /\ ret \in Int
    /\ old \in Seq(Peer)

\* What number, total_weight and single say is what the list holds, after
\* every iteration of every call: the balancer and lst_upstream rely on it.
CountersAgree ==
    \A g \in Group :
       /\ number[g] = Len(list[g])
       /\ total_weight[g] = Total(list[g])
       /\ single[g] => number[g] = 1

\* hdel_peer never follows the NULL head of a list it has just emptied.
NoNullRead == pc # "crashed"

\* A group that serves never becomes empty, in no iteration of any call.
GroupsStayServed ==
    [][\A g \in Group : list[g] # << >> => list'[g] # << >>]_vars

\* The peers an entry of "del" or "edit" asks for, as README.md has it.
Asked(c, p) ==
    /\ c.name \in {NoStr, p.name} /\ c.server \in {NoStr, p.server}
    /\ (c.op = "edit" \/ p.down = c.down)

Done(op) == pc = "done" /\ call.op = op /\ Found(call)

\* "Upstream left one peer" is only answered by a call that deleted nothing:
\* an entry counted as failed has not changed the group.
LeftOneDeletesNothing ==
    pc = "done" /\ ret = E_UPS_LEFT_ONE =>
       list[grp] = old /\ Len(old) = 1

\* What "del" can leave behind: after it returned a count, a peer that was
\* asked for can only be the head, and only if a head was deleted.
DelLeavesOnlyHead ==
    Done("del") /\ ret >= 0 =>
       \A i \in 1 .. Len(list[grp]) :
          Asked(call, list[grp][i]) => i = 1 /\ ret > 0 /\ Asked(call, old[1])

\* At every moment of a "del" the list is what is left of what was, in its
\* order: at[i] is where the i-th peer was.  No peer is gone but those that were
\* asked for, and count is the number of them.
Remains(c, s, was, at) ==
    /\ \A i \in DOMAIN at : s[i] = was[at[i]]
    /\ \A i, j \in DOMAIN at : i < j => at[i] < at[j]
    /\ \A k \in 1 .. Len(was) :
          ~Asked(c, was[k]) => \E i \in DOMAIN at : at[i] = k

DelKeepsOthers ==
    pc = "del" \/ Done("del") =>
       /\ \E at \in [1 .. Len(list[grp]) -> 1 .. Len(old)] :
             Remains(call, list[grp], old, at)
       /\ Len(list[grp]) + count = Len(old)

\* "add" puts the addresses of the server before the list, the last one
\* first, and leaves the list as it was behind them; a count as the return
\* value means all of them, an error means that some are missing.
AddIsReported ==
    Done("add") =>
       LET n == Len(list[grp]) - Len(old)
       IN  /\ n \in 0 .. Len(call.addrs)
           /\ SubSeq(list[grp], n + 1, n + Len(old)) = old
           /\ \A i \in 1 .. n :
                 /\ list[grp][n + 1 - i].name = call.addrs[i]
                 /\ list[grp][n + 1 - i].server = call.server
           /\ IF ret > 0 THEN n = ret /\ n = Len(call.addrs)
              ELSE n < Len(call.addrs)

\* "edit" changes the asked peers up to the cursor and no others, keeps who
\* they are, gives all of them the weight it was sent, and returns their
\* number.
EditTouchesOnlyAsked ==
    pc = "edit" \/ Done("edit") =>
       /\ Len(list[grp]) = Len(old)
       /\ \A i \in 1 .. Len(old) :
             LET p == list[grp][i]
             IN  IF Asked(call, old[i]) /\ i < cur
                 THEN /\ p.name = old[i].name /\ p.server = old[i].server
                      /\ p.weight = IF GetInt(call.set.weight) > 0
                                    THEN call.set.weight ELSE old[i].weight
                 ELSE p = old[i]
       /\ pc = "done" =>
             ret = Cardinality({ i \in 1 .. Len(old) : Asked(call, old[i]) })

\* What the peers and groups in the lists hold of a zone's pool.
Footprint(p) == IF p.pooled THEN PeerChunks ELSE 1

Chunks(s) == Total([i \in DOMAIN s |-> [weight |-> Footprint(s[i])]])

GroupsIn(z) == { g \in Group : ZoneOf[g[1]] = z }

Held(z) ==
    SumFunctionOnSet([g \in Group |-> Chunks(list[g])], GroupsIn(z))
       + Cardinality({ g \in GroupsIn(z) : g[2] /\ next[g[1]] })

\* No step frees a chunk twice or forgets one that is not accounted as lost
\* by an allocation failure of "add".
SlabConserved ==
    [][\A z \in Zone : room'[z] + Held(z)' + lost'[z]
                         = room[z] + Held(z) + lost[z]]_vars

\* Every loop ends: the worker gets its event loop back.
CallReturns == pc \in {"add", "del", "edit"} ~> pc = "done"

\* The functions implement the table of peers of PeerTable.
Table == INSTANCE PeerTable WITH table <- list, hasBackup <- next,
                                 weight <- total_weight
ImplementsPeerTable == Table!Spec

-----------------------------------------------------------------------------
(***************************************************************************)
(* Statements of the repository that the functions do not keep.            *)
(***************************************************************************)

\* del.c: after a deletion the "next loop" starts "with phpeer", so that a
\* "del" that returns a count has visited, and deleted, every asked peer.
DelRemovesEveryMatch ==
    Done("del") /\ ret >= 0 =>
       \A i \in 1 .. Len(list[grp]) : ~Asked(call, list[grp][i])

\* README.md on "edit": "others can modify, noset no modify", so that a
\* max_conns that is set is stored.
EditStoresMaxConns ==
    Done("edit") /\ call.set.max_conns \in Nat =>
       \A i \in 1 .. Len(list[grp]) :
          Asked(call, list[grp][i])
             => list[grp][i].max_conns = call.set.max_conns

\* README.md on "edit": a down that is set is stored, so that the peer is
\* down if and only if it was set to true.
EditStoresDown ==
    Done("edit") /\ call.down # NoVal =>
       \A i \in 1 .. Len(list[grp]) :
          Asked(call, list[grp][i])
             => (list[grp][i].down # 0 <=> call.down = 1)

=============================================================================
