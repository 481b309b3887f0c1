# Verification of nginx-dynamic-upstreams

This directory specifies the module in TLA+, checks the specification with TLC
and proves its main invariants with TLAPS.

1. [The system](#1-the-system) and what is hard about it
2. [The modules](#2-the-modules) and how they correspond to the code
3. [The runs](#3-the-runs): what is checked, within which bounds
4. [The proofs](#4-the-proofs)
5. [Findings](#5-findings)
6. [Not modelled](#6-not-modelled)

## 1. The system

An nginx location with the directive `ups_mgr` answers JSON requests that list
and change the servers of `upstream{}` blocks, http and stream, without a
reload.  Only upstreams with a `zone` can be changed: their peer lists are in
shared memory, so that a change made by one worker is seen by all.

| Component | State | Operations | Talks to |
|---|---|---|---|
| HTTP request handling (`ngx_dyn_ups.c`) | the request with its count of references, its body buffers, the reply buffer | GET, HEAD, POST with body in memory or in a file, any other method | nginx's HTTP core (body reading, output, finalisation), JSON-RPC |
| JSON-RPC dispatch (`json_rpc.c/.h`) | the sorted table of methods | look up the method, call it, print the reply | cJSON, the method handlers |
| Method handlers (`*_upstream` in `add.c`, `del.c`, `mdf.c`, `lst.c`) | positions in `params` and `peers`, the counts of success and failure | walk the entries, convert their values, call the functions below | the peer functions |
| Peer groups (`hadd_peer`, `hdel_peer`, `hmdf_peer` and the `s…` twins) | in shared memory: the list, `number`, `total_weight`, `single`, `next`, the slab pool | add the addresses of a server, delete or edit the peers that match | nginx's slab allocator, URL parser, the zone's mutex; the load balancer of every worker reads the same memory |
| Listing (`hdmp_upstreams`, `sdmp_upstreams`) | an array of copies | copy the peers of one or all upstreams | reads the peer groups without the mutex |
| JSON library (`cJSON.c`) | — | parse, print | vendored |
| Web page (`web/`) | the rows shown | list, add, delete, edit through the above | the HTTP interface |

What is hard, and which component must be right about it:

- *Peer groups.*  A list is edited while it is walked.  Three counters are kept
  by differences in three functions.  A call can fail in the middle of a
  server's addresses, after some were linked and with memory allocated.  A
  group must keep one peer, and a freed chunk must be the pool's.
- *Method handlers.*  The code of a reply is always 0; two counts are all that
  a caller learns of a document in which some entries failed.
- *Workers.*  Several workers do all this in the same memory, with a mutex that
  covers the writes only: the walks, the test for the last peer, the listing
  and nginx's load balancer read whatever is there.  A worker can die while it
  holds the mutex.
- *Listing.*  An array is sized from a counter and filled from a list, at
  different moments.
- *HTTP request handling.*  nginx calls the body handler inside the content
  handler or long after it has returned, and each of the two ends the request
  in its own way; one reference too few frees it under the other, one too many
  keeps it for ever.  The body is not terminated, so the parser may read on
  behind it.

`PROJECT.json` lists each of these hazards with its line and the properties
that address it.

## 2. The modules

```
PeerLists  sequences of peers, their total weight
   |
PeerTable  (abstract)  one table of peers per group, with its summary
   ^ refined by
UpsPeers   the three calls on the groups, one loop iteration per action
   |   \-- MCUpsPeers, UpsPeersProofs, UpsPeersCalls (with PeerListsProofs)
UpsRpc     a document, from its body to its reply, over UpsPeers
       \-- MCUpsRpc, UpsRpcProofs

CallTable  (abstract)  what each worker's call changes, at one moment
   ^ refined by
ShmWorkers the same functions in several workers, one statement per action
       \-- MCShmWorkers, ShmWorkersProofs, ShmListsProofs

MethodTable  the sorted table of methods and the texts of the codes
   |
HttpRequest  a request, from the content handler to its last reference
       \-- MCHttpRequest, HttpRequestProofs

NumberFacts  lemmas on least numbers, sums over finite sets and counting
             modulo a width, for all the proofs
```

There are two views of the same functions because two kinds of questions are
asked of them.  `UpsPeers` has whole lists, all parameters, every early return
and both subsystems, in one worker; `ShmWorkers` has pointers, chunks and a
mutex, in several.

**`UpsPeers`** (`add.c`, `del.c`, `mdf.c`, `common.h`).  `list[g]` is the chain
that starts at `peers->peer` of group `g`; a group is `<<u, FALSE>>` (primary)
or `<<u, TRUE>>` (the one behind `peers->next`).  `number`, `total_weight` and
`single` are the fields of `ngx_http_upstream_rr_peers_t`.  `room[z]` is what the
slab pool of a zone can still give; `lost[z]` counts chunks nobody points to.
`pc`, `call`, `cur`, `count` and `ret` are the function, its parameters, its loop
variable, the local `count` and the result; `old` is a history variable for the
properties.

| Action | Code |
|---|---|
| `Begin` / `Start(c)` | entry: URL parsing, the search for the upstream, the backup group, with its early returns (`NotCompiledIn`, `BadUrl`, `NoMainConf`, `NotFound`, `NewBackupFails`) |
| `EnterNewBackup` | `add` creates the backup group, `add.c:139-157` |
| `AddPeer`, `AddFails`, `AddReturns` | an address is linked, one of its four allocations fails, the loop ends |
| `DelSkips`, `DelRefuses`, `DelUnlinks`, `DelReturns` | `continue`, the last peer, the critical section with the cursor reset of `del.c:160`, the end |
| `EditSkips`, `EditSets`, `EditReturns` | the same for `hmdf_peer` |
| `Resume` | the handler takes the result |

Conversions are modelled by what they do: `GetInt` turns a missing number into
0, `AsUint` wraps a negative one modulo `UintMod`, `OrDefault` is the default
of `add_upstream`, and `Edited` stores the word that `(ngx_uint_t *)&down`
reads: the bool and seven bytes of the stack (`Junk`).

**`PeerTable`** promises: tables change by one peer at a time, new peers come
first, names and servers never change, a table never loses its last peer, and
the summary is that of the table in every state.  `UpsPeers` implements it
with `table <- list`, `hasBackup <- next`, `weight <- total_weight`.

**`UpsRpc`** (`ngx_dyn_ups.c:178-216`, `json_rpc.c`, the `*_upstream`
functions).  A document is read once from left to right, so its contents are
chosen when they are looked at.  `phase` is where the handler is (`free`,
`params`, `peers`, `done`, `replied`, `crashed`); `succ` and `failed` are the two
counts, `listing` the array `ups` of `lst_upstream`, `reply` the HTTP status,
the code and the counts.  `Reject` is every way a document is answered without
its `params` being read, a method that has no memory included; `Crash` the two
NULL reads that a failed allocation leads to, and `LogKills` the one of an
`edit` by name that fails (`mdf.c:223`).  `before` and `answers` are history
variables.  Of an upstream without peer data (`peer.data`), `add`, `del`
and `edit` test that, while `lst.c:48` and `lst.c:126` read through it at once.
The upstreams of the models have it, as those of nginx's own balancers do; one
without it is not modelled.

**`ShmWorkers`** (the `s…` functions on one upstream).  `peers[g]` is group
`g`: 0 is the primary one, the others are what `add` makes when `peers->next` is
NULL (`made` counts them).  `mem[c]` is what a chunk holds, also after it was
freed; `run[w]` the local variables of worker `w` with its program counter and
the group it works on.

| Action | Code |
|---|---|
| `Begin` (`CallAdd`, `CallDel`, `CallEdit`, `CallLst`) | a request reaches a worker; a call for the primary group starts at its head |
| `FoundGroup`, `NoGroup`, `NewGroup`, `NewGroupFails`, `UnlockUnheld`, `NextGroup` | `add.c:40-75`: `next` is looked at and the group allocated without the mutex, only the assignment is inside; the failure unlocks a mutex that is not held |
| `Walk`, `Advance`, `Check` | the loops of `del` and `edit`, and the test for the last peer, without the mutex |
| `Alloc`, `SlabFull`, `Fill`, `FillFails` | the slab calls of `add`, which take the mutex for themselves and give the first free chunk |
| `Lock` … `Unlock` | `ngx_shmtx_lock` and `ngx_shmtx_unlock` around the next three rows |
| `Count`, `Weigh`, `Point`, `Link` | `add` |
| `Count`, `Weigh`, `UnlinkFirst` or `UnlinkOther`, `Free` | `del` |
| `Weigh`, `SetWeight` | `edit` |
| `Size`, `First`, `Copy`, `Copied` | `lst`: the array is sized from the counters of both groups, the lists are copied later, without the mutex |
| `Crash` | the holder of the mutex is killed between any two statements |
| `Segv` | a NULL cursor is followed |
| `Respawn` | nginx's master reaps a worker, unlocks what it held and starts another |

A group is one slot of its own; a peer and its three strings are one chunk.
**`CallTable`** promises to workers that call at the same time, and to whoever
walks a list meanwhile: `asked[w]` is what worker `w`'s call still has to do, and a
call changes `table` only by `Add` (one new peer with the name and weight asked
for, after which the call has nothing left to do), `Del` (one peer that matches
goes) or `Edit` (one peer that matches gets the weight), each at one moment; or it
gives up.  `ShmWorkers` implements it with `table <- Tables`, the names and weights
of the chunks that are linked, and `asked <- Askings`, the parameters of the calls.
An `add` has done what it was asked at `Link`, the statement at which its peer can
be reached, and not when it returns; so a worker that dies before `Link` has added
nothing, and one that dies behind it all of the peer.  The table is a function on
chunks: the order of the peers is `PeerTable`'s.

Stores are taken to become visible in program order: the compiler's freedom to
reorder plain stores inside a critical section is not modelled.

**`MethodTable`** (`json_rpc.h`, `json_rpc.c`).  `Table` is `services` as
`tbl_sort` leaves it, `tbl_bsearch` the C library's search in it, and
`ups_errmsg` the walk through `msg_list` to the first entry with the code or with
code 0.

**`HttpRequest`** (`ngx_dyn_ups.c`, and nginx's core as it is used there).  `req`
is the request: its verb, how its body is framed, the body's length in parts and
the part in which an object that starts it is complete.  `stage` is the
statement that runs or what is waited for; `ret` what the content handler
returns to nginx; `refs` is `r->main->count`; `owner` is who else still works on
the request: the body's reader and handler (`handler`), the rest of a reply
(`writer`), a posted close (`closer`).  `text` is how much of the body is parsed.
`answers`, `ran` (the methods that were called and had the memory they begin
with) and `touched` (the request was used after it was freed) are history
variables.

| Action | Code |
|---|---|
| `HandlePost` | `ngx_dyups_do_post`: the read fails, has the body and calls the body handler, or waits |
| `HandleGet`, `HandleHead`, `HandleOther` | `ngx_http_dyn_upstream_handler`; no buffer is made for HEAD |
| `BodyArrives`, `BodyFails` | nginx's reading of the body |
| `GetBody`, `GetBodyFails`, `NoContent` | `ngx_dyups_read_body`, `ngx_dyups_read_body_from_file`; a NULL is answered with 204 |
| `Accept`, `Refuse`, `LogRefused` | the parser's end pointer compared with the end of the body, and the log of a refusal |
| `BadRpc`, `UnknownMethod` | `json_rpc` finds no method to call |
| `RunMethod`, `MethodFails` | `json_rpc` calls it; it goes through `params`, or has no pool or array and answers `E_NO_MEM` with status 200 (`add.c:222-228` and its like) |
| `NoBuffer`, `OutputRefused`, `HeaderFails`, `Output` | status 500, and `dyups_http_output` |
| `Return`, `Written`, `Close`, `AfterFree` | nginx: the content phase takes the result, the reply's rest is written, a connection is closed; on a freed request, anything |
| `EndOfRequest`, `WorkerDies` | the request is over |

The parser is what its callers see of it: it ends where the object ends,
fails, or (when the object is not complete in the text) reads on behind the text
until what happens to be there completes the object or does not.

## 3. The runs

| Run | Module | Bounds | Shows |
|---|---|---|---|
| `peers_calls` | MCUpsPeers | one group with two equal neighbours and a backup group, two addresses per server, 9 chunks, edits with and without a weight | counters, cursor, last peer, slab balance, what each call changes, and refinement under any sequence of add, del and edit |
| `rpc_changes` | MCUpsRpc | documents of three items, any number of documents | the counts of a reply are what happened; every document ends |
| `rpc_list` | MCUpsRpcList | an http and a stream upstream sharing a zone, one without; documents of two items | a listing shows what is there; the shared pool stays balanced |
| `shm_add_edit` | MCShmAddEdit | three workers of which two change, three chunks, one configured peer, a backup group made on demand | no update is lost; a listing stays in its array; each change of a list is made at one statement, as `CallTable` allows it |
| `shm_crash` | MCShmCrash | two workers, three chunks, two configured peers of one name, two groups to make, one change at a time, one death | the lists are sound at every statement; the mutex is always released; the last peer stays; a death leaves no change half made in the lists |
| `shm_backup` | MCShmBackup | three workers, all adding to both groups at once, three chunks, two groups to make, one death | a backup group with peers is lost only by two calls that make one at the same time |
| `http_requests` | MCHttpRequest | bodies of up to three parts, the four methods among three other strings, any number of requests one after the other | references balance; a body is parsed whole and a cut one not run; the status tells what ran; every request ends |
| `del_every_match`, `edit_max_conns`, `edit_down`, `no_upstream_reported`, `last_peer_stays` | | | the findings of section 5: TLC finds the counterexample |

Why the bounds are enough.  The cursor of `del` has three cases (head, neighbour
of the one just deleted, elsewhere), and three peers of which two match show
them all.  Nothing bounds the number of calls or documents: sequences are as
long as the reachable states allow, which the pool limits (`SlabChunks`).  9
chunks are two peers and a spare one, so that the pool is exhausted at every
one of an address's four allocations and used again after a `del`.  The weight of
an `add` or `edit` is absent or 1: an absent one is the default in the first and no
change in the second, and 1 lowers the 3 of the configured peers.  Negative
limits occur in the runs of the findings only.  `UintMod =
8` stands for 2^64: a number that is below zero wraps to one that is large
compared with the others.  In `rpc_changes` a document opens an upstream and has
two entries, of which the first may succeed and the second fail; 5 chunks are
one peer and part of another, so that a server with two addresses half
succeeds.  In `shm_add_edit` two chunks are free, so that two adds compete while
a third worker lists, and there is one group to make, so that one of them may
work on the primary group while the other makes the backup group or fails to;
in `shm_crash` the third chunk lets `add` reuse what `del` freed, two peers of
one name are what a `del` takes one after the other, and a second group lets a
worker that follows one that died before `next` was assigned make another.  In
`shm_backup` two groups are what two makers need to replace each other's (with
`BackupReached` in the place of `BackupLostByRaceOnly` TLC reports that race), the
death gives the third worker a `next` that another left unassigned, and two free
chunks put a peer in a group that is then lost.  Its calls are all `add`: with `del`
and `edit` among three changers the states are too many, and the theorem
`BackupStaysReached` covers them.
`MaxCrashes = 1` because each death has the same effect, and `SummaryDrift` is
stated for any number of them.  In `http_requests` three parts are the first
length at which a chunked body has a buffer behind the second, the one that
`ngx_dyups_read_body` drops; the seven strings put a string before, between and
after the methods, the empty one and one that extends a method included.

`MaxChangers = 1` in `shm_crash` says that one change is made at a time: with a
`del` among concurrent changes the code does not hold what these properties
state (section 5).  `add` and `edit` may run concurrently, and do in
`shm_add_edit`.

Deadlock is checked in every run.

Fairness.  The handlers are synchronous C functions: a worker that has
entered one does nothing else until it returns.  So `FairSpec` of `UpsPeers` has
weak fairness of `Step` (the running call), `RpcFairSpec` of `Serve` (the running
document), and `FairSpec` of `ShmWorkers` of each worker's `CallStep`.  `FairSpec`
of `HttpRequest` has weak fairness of `Progress`: while a handler runs it is the
same argument, and while the client is waited for, `client_body_timeout` ends the
wait for the body and `send_timeout` the wait for the reply's rest.  Requests
need not arrive.  `CallEnds` is checked with one change at a time, when a
worker waits for the mutex only because its holder has died, so that weak
fairness is enough; no claim is made that `ngx_shmtx_lock` is fair among
workers that compete for it.

Every property is paired in `PROJECT.json` with a mutant: a plausible bug in a
definition (named `Mut…`, beside what it replaces) that the run then reports.

## 4. The proofs

| Theorem | Module | States |
|---|---|---|
| `TypeCorrectness`, `CountersCorrectness`, `NoNullReadEver`, `LeftOneCorrectness` | UpsPeersProofs | `Spec => []` of the four invariants |
| `Refinement` | UpsPeersProofs | `Spec => ImplementsPeerTable` |
| `StaysServed` | UpsPeersProofs | `Spec => GroupsStayServed` |
| `AddCorrectness`, `DelCorrectness`, `DelIsExact`, `EditCorrectness`, `SlabCorrectness` | UpsPeersCalls | `AddIsReported`, `DelLeavesOnlyHead`, `DelKeepsOthers`, `EditTouchesOnlyAsked`: what one call has done when it returns; `SlabConserved` |
| `RpcImplementsPeers` | UpsRpcProofs | `RpcSpec => Spec` |
| `RpcKeepsTables` | UpsRpcProofs | `RpcSpec => ImplementsPeerTable /\ []CountersAgree /\ GroupsStayServed` |
| `FailuresCorrectness`, `ListingCorrectness`, `SuccessCorrectness` | UpsRpcProofs | `RpcSpec => []` of `FailuresAreCounted`, `ListingIsCurrent`, `SuccessIsReal` |
| `Typed`, `ListingFits` | ShmWorkersProofs | `Spec => []TypeOK` (with the discipline of the mutex), `Spec => []NoOverrun` |
| `ListsStaySound`, `OnlyAskedIsUnlinked`, `SummariesDriftLittle` | ShmListsProofs | `Regime => (Spec => []ListSound)`, and so for `OnlyAskedUnlinked` and `[]SummaryDrift` |
| `EveryChangeIsAtomic` | ShmListsProofs | `Regime => (Spec => ChangesAreAtomic)`, which is `Spec` of `CallTable` |
| `BackupStaysReached` | ShmListsProofs | `Spec => BackupLostByRaceOnly`, for any number of changers and deaths |
| `ReferencesBalance`, `UseIsSafe`, `BodyIsWhole`, `OnlyWholeRuns`, `StatusIsTrue` | HttpRequestProofs | `Spec => []` of `RefsBalanced`, `UsedWhileKept`, `LengthBodyIsWhole`, `RunsOnlyWhole`, `StatusTellsWhatRan` |
| `TypeCorrectness`, `MethodIsTheOneNamed`, `MessageIsTrue` | HttpRequestProofs | `Spec => []` of `TypeOK`, `RunsWhatIsNamed`, `MessageMatchesCode` |

These are all the safety properties, and all the properties of steps, that the
runs check, but for `LastPeerStays`.

They hold for any upstreams, zones, names, servers, lists, integers, pool
sizes and `UintMod`, for documents of any length, for any number of workers,
changers, groups and deaths, and for bodies of any length.  The assumptions are
`SystemAssumption`, `DataAssumption`, `ConfigAssumption` (nginx rejects an
upstream without servers), `RpcAssumption`, `ShmAssumption`, `TableAssumption` and
`HttpAssumption`, which TLC evaluates in the runs.

The inductive invariant of `UpsPeers` is

    IInv == TypeOK /\ CountersAgree /\ NoNullRead /\ LeftOneDeletesNothing
              /\ Running /\ Progress

`CountersAgree` alone is not inductive: that `del` leaves a peer depends on the
test `number = 1` *and* on the list having a peer under the cursor, so the
proof needs both that `number` is the length of the list and that a cursor
that is followed is inside it.  `Running` ties `pc` to the parameters (a call
that runs has a target that exists); `Progress` says that a `del` that has
deleted something is past the head, and one that has not has left the list
unchanged, which is why "left one peer" is only answered before anything was
deleted.  Each action has a lemma.  What removing,
inserting or replacing an element does to the total weight of a list is
proved in `PeerListsProofs`; existence and uniqueness of the recursive sum are
shown there by the least index at which they would fail, since the library's
induction theorems take an operator as parameter.

What a call has done when it returns (`UpsPeersCalls`) is an invariant of its
loop, `CInv`.  `AddSoFar` says that the addresses before the cursor are the head
of the list, in reverse, and the rest is the list that the call found;
`DelSoFar` that of the peers before the cursor only the head can be one that was
asked for, and only after a head was deleted (the finding of section 5: the
cursor that is set to the new head is then advanced past it); `EditSoFar` that
the peers before the cursor have the new weight if they were asked for and are
as they were otherwise.  `DelKeepsOthers` is one of its parts: that the list is
what it was without some of the peers asked for is kept by every deletion,
wherever in the list.  `SlabConserved` compares two states, so its proof is one
lemma per action that what a zone's pool has (`Owned`: free, held by its lists
and backup groups, lost) stays the same; the sum over the groups of a zone
changes by what one group changes (`SumChange`).

`Refinement` maps a deletion, a linked address and a changed peer to steps of
`PeerTable`, and all others to stuttering.  `RpcImplementsPeers` needs no
invariant: each step of a document is a `Begin`, `Step` or `Resume` of
`UpsPeers`, or leaves its variables alone.  What was proved of `UpsPeers`
follows for `UpsRpc` from it.  `FailuresCorrectness` rests on an invariant that
relates `failed` and `answers`, `ListingCorrectness` on `RowsAreTrue` (no call
runs while a listing is built, so that its rows stay true; the rows of a
listing are a set, their order is not modelled), `SuccessCorrectness` on
`Accounted`: by how much the lists grew or shrank since the document arrived is
what was counted plus what the running call has done.

The inductive invariant of `ShmWorkers` is

    SInv == Types /\ (\A w \in Worker : AtHand(run[w])) /\ Made
              /\ Holder /\ NoOverrun

`Holder` is the discipline of the mutex: who is in a critical section holds it,
and who holds it is in there or dead.  It is not inductive alone.  A step inside
a section is only possible with a peer or a new group at hand, and which of the
two decides where `Lock` and `Unlock` lead; `AtHand` says for every statement
which method can be there and whether its cursor can be NULL.  `Made` says that a
group that a call or `next` leads to has been made, and `Types` that a counter
stays in its width, without which the array's size would not be a number to
compare with.  `NoOverrun` needs that a listing has written nothing before its
array is sized.

The lists of `ShmWorkers` are chains of pointers in `mem`.  `ShmListsProofs`
shows that at every statement

    Lists == \A g \in Group : IsList(Linked(g), peers[g].peer, mem)

where `IsList(L, p, m)` says that the chunks in `L`, each once, are the list that
begins at `p` in `m`.  What pushing, popping and cutting out do to such a list
is proved once (`ListPush`, `ListPop`, `ListCut`), with the fact that following
the pointers from `p` meets exactly `L`.  The invariant `LInv` adds what the
calls rely on.  `OwnsIt`: the peer of an `add` is in no list and is no other
worker's.  `EditsIt` and `DelsIt`: the cursors of `edit` and `del` stay in the
list of their group, and those of `del` are neighbours until the peer is taken
out, so that `pspeer->next = speer->next` cuts out the peer that was asked for.
The cursors were read without the mutex, so this is only kept if no other worker takes a
peer out of the lists meanwhile or pushes one in front of a `del` that holds
the head.  Hence

    Regime == MaxChangers <= 1 \/ "del" \notin Ops

one change at a time, or any number of `add`s and `edit`s.  Listings run beside
both, workers die at any statement of their critical sections, and outside
`Regime` the properties are false for the code (section 5).

`SummaryDrift` speaks only of the moments when the mutex is free.  In between,
`number` and `total_weight` are ahead of the list by what the holder of the mutex
has counted and not linked yet, and this is what `HInv` of that module says:

    peers[g].number       = Uint(CountOf(g) + i)   for some i in -crashes .. crashes
    peers[g].total_weight = Uint(WeightOf(g))      while crashes = 0

where `CountOf` and `WeightOf` add `CountedIn` and `WeighedIn` of the holder to the
size and the weight of the list.  A death turns what the holder had counted
into drift, one step of `i`.  Of the counters' width only `UintMod > Chunks` is
assumed.

`BackupLostByRaceOnly` says `[]OneMaker => []BackupReached`: as long as no two
calls have found `next` NULL before either has assigned it, a group with peers is
one that `next` leads to.  The invariant is `GInv`: `BackupReached`, and
`Reached` for every call, which says that `next` is still NULL while the call is
making a group, and that an `add` which is not works on the primary group or on
the one that `next` leads to.  Only `NextGroup` changes `next`, from NULL, and
there `OneMaker` says that no other call is making a group, so that `Reached`
holds of it afterwards.  Nothing is assumed of how many workers change the
lists: whatever becomes of the chains when a `del` is among them, a peer is only
put at the head of a group that `next` leads to.

`EveryChangeIsAtomic` maps `Link` to `Add`, `UnlinkFirst` and `UnlinkOther` to `Del`,
`SetWeight` to `Edit`, the beginning of a call to `Ask`, its end or its worker's
death to `GiveUp` if it still had something to do, and every other statement to a
stutter.  That a `Del` takes a peer that is in the table and was asked for is `DelsIt`, that an
`Add` puts in one that is not, with the weight asked for, `OwnsIt`, that an `Edit`
changes one that is in the table, `EditsIt`.  The names need a last invariant,
`NInv`: once it is filled in, the peer of an `add` has the name it was asked for, and
from the statement that locks the mutex on an `edit` stands on a peer that matches.
The test was made without the mutex; it still holds when the peer is changed because
a name is only stored in a chunk that is in no list (`MemoryStays`).
`TablesStay` shows that a statement that keeps the linked chunks with their names
and weights stutters, whatever else it stores.

The inductive invariant of `HttpRequest` is `HInv`: the five properties with
`Held` (while the handler's own code runs, it is the owner, the request is
not freed, and the result is one that fits the verb) and `Done` (what has been
parsed, run and answered by each stage).  `RefsBalanced` says nothing of what
comes next; only with `Held` is it known that a `Finalize` finds the
reference that it gives back.

`MethodIsTheOneNamed` is about `tbl_sort` and the C library's `bsearch`.  Both are
recursive functions over data, and the library's induction theorems are out of
reach, so the search is proved correct by a least counterexample: of all
intervals of a sorted table that hold the key and in which it is not found,
take a shortest one; half of it holds the key too, and is shorter.  That the
table is sorted is shown for any order of the strings, from the fact that four
entries have a sorted permutation (`FourSorted`).
`MessageIsTrue` follows the search of `ups_errmsg` through the thirteen entries of
`msg_list`.  `E_NO_MEM` is not among them, so the texts that the methods write for
it are an exception that the property names, and the theorem shows that they
do not say success.

Only model-checked: the four properties with fairness, `CallReturns`,
`DocumentEnds`, `CallEnds` and `RequestEnds`.  Liveness under fairness needs
`ENABLED` of the fair actions, which this prover does not have.  `LastPeerStays`
is only model-checked as well: the run `shm_crash` has it with one change at a
time, and with two it is false of the code (run `last_peer_stays`), so that a
theorem about it would say nothing that `StaysServed` does not say of one worker.

## 5. Findings

- **`del` skips a peer** (`del.c:160`, run `del_every_match`).  When the head is
  deleted, the cursor is set to the new head and then advanced past it.  The
  comment at `del.c:159` says that the next loop starts there.  Of two adjacent
  matching peers at the head one stays, and the reply says success.
  `DelLeavesOnlyHead` states how far it goes: at most the head can be missed.
- **`edit` cannot set `max_conns` to 0** (`mdf.c:214`, run `edit_max_conns`).
- **`edit` of `down` reads eight bytes at a bool** (`mdf.c:214`, run `edit_down`).
- **A failed change has code 0** (`add.c:300`, run `no_upstream_reported`), where
  the README of the module shows a code other than 0.
- **Two workers delete the last two peers** (`del.c:47`, run `last_peer_stays`):
  the test for the last peer is made before the mutex is taken.

No text of the repository says what should hold of the following, so they are
described, not claimed as bugs.

Behaviours of `ShmWorkers`.
A `del` that holds the head as its cursor while another worker adds a peer
before it takes the second branch with `pspeer == speer`: the peer is freed and
stays linked.  An `edit` that waits for the mutex while its peer is deleted adds
the difference of a peer that is gone to `total_weight`.  A listing whose list
became shorter than `number` said prints rows that were never written.  A worker
that dies after `number++` and before the peer is linked leaves a count one too
high, and a later `del` then takes the last peer.  Two
`del`s that stand on one peer free it twice and count it twice, so that the test
for the last peer looks at a `number` that is too small.  The
failed allocation of a backup group unlocks a mutex that is not held, which
does no harm because `ngx_shmtx_unlock` compares the holder.  Two workers that
both find `next` NULL each make a backup group, and the second assignment drops
the first with its peers and chunks: `BackupLostByRaceOnly` says that a group is
lost in no other way.  nginx does not keep workers to one change at a time; the
properties and theorems that are stated for it (or for no `del`) are false of
the code otherwise.

Behaviours of `HttpRequest` and `UpsRpc`.  For every verb but POST,
`dyups_http_output` finalizes the request and also returns its status to
nginx, which finalizes it again, with only one reference to give back; the
properties about references are stated for POST.  The log line of a refused
document (`ngx_dyn_ups.c:206`) uses the request after the reply may have freed
it; `UsedWhileKept` names it as the one exception.  HEAD is answered 500, since
no buffer is made for it.  A chunked body in more than two buffers is cut after
the second and refused with 400; a body that cannot be read is answered 204.
Where memory fails, `json_tostring` returns NULL and is copied from, so that the
worker dies; and a change that was made may be answered 500 when there is none
left for the reply, so that a client that repeats an `add` adds twice.  A method
that is called without memory for its pool answers 200 with the code -3.  An
`edit` that fails for an entry with only a name gives NULL to `%s` of the log
(`mdf.c:223`), which kills the worker if the log takes warnings.

## 6. Not modelled

| Part | Why |
|---|---|
| the load balancer, slab allocator, URL parser, mutex, body reading and output of nginx | external; modelled as the code uses them |
| `effective_weight`, and `single` beside what it implies | read by nginx's balancer only |
| `cJSON.c`, `cJSON.h` | a vendored parser and printer; what the module sees of it is modelled: its failures in `UpsRpc`, where it stops in `HttpRequest` |
| `web/` | a browser client of the HTTP interface with a vendored toolkit; the server keeps no state for it, and what it sends is a document like any other |
| `config`, `test/` | build and test scripts, no state of the system; the tests' statements are what the findings quote |
| stores of a critical section that the compiler reorders | the build decides; all stores are in program order here |

Of the plan nothing is left but what the prover has no means for, the four
properties with fairness.
