----------------------------- MODULE ShmWorkers -----------------------------
(***************************************************************************)
(* Several nginx workers in the functions sadd_peer, sdel_peer, smdf_peer  *)
(* and sdmp_upstreams of one stream upstream, on the pointers they share:  *)
(* its primary group of peers and the backup group behind next, each with  *)
(* its list, number and total_weight, and the slab pool and its mutex.     *)
(* (The http twins are the same functions.)                                *)
(*                                                                         *)
(* A step is one statement.  Only the statements between ngx_shmtx_lock    *)
(* and ngx_shmtx_unlock exclude each other; the walks, the test on number  *)
(* and the listing read the memory as it is.  Freed memory keeps its       *)
(* contents until ngx_slab_calloc hands it out again.  Stores become       *)
(* visible in program order.                                               *)
(*                                                                         *)
(* A peer and its three strings are one chunk, what an entry asks for is   *)
(* one name, and a server resolves to one address.  Groups come from slots *)
(* of the pool that are their own, and are never freed.                    *)
(***************************************************************************)
EXTENDS Integers, Sequences, FiniteSets, Functions

CONSTANTS
    Worker,      \* nginx worker processes
    Chunks,      \* the chunks 1..Chunks of the slab pool, for peers
    NewGroups,   \* how many groups the slab pool has room for
    Null,        \* the NULL pointer
    Name,        \* the names of peers
    NoName,      \* the name of zeroed memory; an entry that gives none
    Wants,       \* the names that entries of del and edit ask for
    Weights,     \* the weights an entry may carry
    Ops,         \* the methods that are called: "add", "del", "edit", "lst"
    MaxChangers, \* how many workers change the list at the same time
    MaxCrashes,  \* how many workers die inside their critical section
    UintMod,     \* ngx_uint_t counts modulo this
    Configured,  \* the names of the peers in nginx.conf
    Backups      \* those of its backup peers, if any

Chunk == 1 .. Chunks

\* Group 0 is the primary one.
Group == 0 .. NewGroups

ASSUME ShmAssumption ==
    /\ IsFiniteSet(Worker)
    /\ Chunks \in Nat \ {0} /\ Null \notin Chunk \cup Worker
    /\ NoName \notin Name
    /\ Wants \subseteq Name \cup {NoName}
    /\ Weights \subseteq Nat \ {0} /\ UintMod \in Nat /\ UintMod > Chunks
    /\ Ops \subseteq {"add", "del", "edit", "lst"}
    /\ MaxChangers \in Nat /\ MaxCrashes \in Nat
    /\ NewGroups \in Nat \ {0} /\ Null \notin Group
    /\ Configured \in Seq(Name) /\ Backups \in Seq(Name)
    /\ Len(Configured) > 0 /\ Len(Configured) + Len(Backups) <= Chunks

VARIABLES
    peers,    \* ngx_stream_upstream_rr_peers_t of each group: peer, number,
              \* total_weight, next
    made,     \* how many groups were made besides the primary one
    mem,      \* what the chunks hold: next, name, weight
    used,     \* the chunks that are allocated
    mutex,    \* the worker that holds shpool->mutex, or Null
    run,      \* the local variables of each worker's call
    crashes   \* how many workers have died inside their critical section

vars == << peers, made, mem, used, mutex, run, crashes >>

\* group is speers, or tmp_peers; speer and pspeer are the two cursors; size
\* and rows are lst's array and how much of it is written.
Idle == [pc |-> "idle", op |-> "none", want |-> NoName, weight |-> 0,
         group |-> 0, speer |-> Null, pspeer |-> Null, size |-> 0, rows |-> 0]

Uint(i) == i % UintMod

Goto(w, pc) == run' = [run EXCEPT ![w].pc = pc]
At(w, pc)   == run[w].pc = pc
Changers == { w \in Worker : run[w].op \in {"add", "del", "edit"} }

(***************************************************************************)
(* The list of a group as a reader without the mutex finds it.             *)
(***************************************************************************)
Follow(p, m) ==
    LET f[n \in 0 .. Chunks] ==
            IF n = 0 THEN p
            ELSE IF f[n - 1] = Null THEN Null ELSE m[f[n - 1]].next
    IN  f

ListEnds(g) == Follow(peers[g].peer, mem)[Chunks] = Null
Linked(g)   == Range(Follow(peers[g].peer, mem)) \ {Null}
AllLinked   == UNION { Linked(g) : g \in Group }
SumOfWeights(g) ==
    SumFunctionOnSet([c \in Chunk |-> mem[c].weight], Linked(g))

(***************************************************************************)
(* A request reaches a worker, and its call ends.                          *)
(***************************************************************************)
NoPeers == [peer |-> Null, number |-> 0, total_weight |-> 0, next |-> Null]

\* nginx gives every configured peer the weight 1.
Init ==
    LET n == Len(Configured)
        b == Len(Backups)
        primary == [peer |-> 1, number |-> n, total_weight |-> n,
                    next |-> IF b = 0 THEN Null ELSE 1]
        backup  == [NoPeers EXCEPT !.peer = n + 1, !.number = b,
                                   !.total_weight = b]
    IN  /\ peers = [g \in Group |-> IF g = 0 THEN primary
                                    ELSE IF g = 1 /\ b > 0 THEN backup
                                    ELSE NoPeers]
        /\ made = IF b = 0 THEN 0 ELSE 1
        /\ mem = [c \in Chunk |->
                    IF c > n + b
                    THEN [next |-> Null, name |-> NoName, weight |-> 0]
                    ELSE [next |-> IF c \in {n, n + b} THEN Null ELSE c + 1,
                          name |-> (Configured \o Backups)[c], weight |-> 1]]
        /\ used = 1 .. n + b
        /\ mutex = Null
        /\ run = [w \in Worker |-> Idle]
        /\ crashes = 0

Call(w, call) == run' = [run EXCEPT ![w] = call]

\* A call for the backup group has to find it first.
CallAdd(w) == \E n \in Name, k \in Weights, pc \in {"alloc", "group"} :
    Call(w, [Idle EXCEPT !.pc = pc, !.op = "add", !.want = n, !.weight = k])

\* The cursors start at the head of the group.
Start(r, g) ==
    [r EXCEPT !.pc = "walk", !.group = g, !.speer = peers[g].peer,
              !.pspeer = IF r.op = "del" THEN peers[g].peer ELSE Null]

CallDel(w) == \E n \in Wants :
    LET r == [Idle EXCEPT !.pc = "group", !.op = "del", !.want = n] IN
    Call(w, r) \/ Call(w, Start(r, 0))

CallEdit(w) == \E n \in Wants, k \in Weights :
    LET r == [Idle EXCEPT !.pc = "group", !.op = "edit", !.want = n,
                          !.weight = k] IN
    Call(w, r) \/ Call(w, Start(r, 0))

\* The array is sized by number, the backup group's first, before the lists
\* are looked at.
CallLst(w) ==
    LET next == peers[0].next IN
    Call(w, [Idle EXCEPT !.pc = "size", !.op = "lst",
                         !.size = IF next = Null THEN 0
                                  ELSE peers[next].number])

Begin(w) ==
    /\ At(w, "idle")
    /\ \/ /\ Cardinality(Changers) < MaxChangers
          /\ \/ "add" \in Ops /\ CallAdd(w)
             \/ "del" \in Ops /\ CallDel(w)
             \/ "edit" \in Ops /\ CallEdit(w)
       \/ "lst" \in Ops /\ CallLst(w)
    /\ UNCHANGED << peers, made, mem, used, mutex, crashes >>

Finish(w) == Call(w, Idle)

(***************************************************************************)
(* The mutex.                                                              *)
(***************************************************************************)
\* Mutant: the functions without ngx_shmtx_lock.
MutCanLock == TRUE

CanLock == mutex = Null

\* An add that has no peer yet is making the backup group.
MakesGroup(r) == r.op = "add" /\ r.speer = Null

Lock(w) ==
    /\ At(w, "lock") /\ CanLock
    /\ mutex' = w
    /\ Goto(w, CASE run[w].op = "edit" -> "weigh"
                 [] MakesGroup(run[w])  -> "next group"
                 [] OTHER               -> "count")
    /\ UNCHANGED << peers, made, mem, used, crashes >>

\* After a deletion the cursor is set back to pspeer.
AfterUnlock(r) ==
    CASE MakesGroup(r) -> [r EXCEPT !.pc = "group"]
      [] r.op = "add" /\ ~MakesGroup(r) -> Idle
      [] r.op = "del"  -> [r EXCEPT !.pc = "next", !.speer = r.pspeer]
      [] r.op = "edit" -> [r EXCEPT !.pc = "next"]

Unlock(w) ==
    /\ At(w, "unlock")
    /\ mutex' = Null
    /\ Call(w, AfterUnlock(run[w]))
    /\ UNCHANGED << peers, made, mem, used, crashes >>

(***************************************************************************)
(* The backup group: next is looked at, and made if need be, outside the   *)
(* mutex; only the assignment is inside.                                   *)
(***************************************************************************)
FoundGroup(w) ==
    LET next == peers[0].next IN
    /\ At(w, "group") /\ next # Null
    /\ Call(w, IF run[w].op = "add"
               THEN [run[w] EXCEPT !.pc = "alloc", !.group = next]
               ELSE Start(run[w], next))
    /\ UNCHANGED << peers, made, mem, used, mutex, crashes >>

NoGroup(w) ==
    /\ At(w, "group") /\ peers[0].next = Null
    /\ IF run[w].op = "add" THEN Goto(w, "new group") ELSE Finish(w)
    /\ UNCHANGED << peers, made, mem, used, mutex, crashes >>

\* Mutant: the new group is used without being linked.
MutNewGroup(w) ==
    /\ At(w, "new group") /\ CanLock /\ made < NewGroups
    /\ made' = made + 1
    /\ Call(w, [run[w] EXCEPT !.pc = "alloc", !.group = made + 1])
    /\ UNCHANGED << peers, mem, used, mutex, crashes >>

NewGroup(w) ==
    /\ At(w, "new group") /\ CanLock /\ made < NewGroups
    /\ made' = made + 1
    /\ Call(w, [run[w] EXCEPT !.pc = "lock", !.group = made + 1])
    /\ UNCHANGED << peers, mem, used, mutex, crashes >>

\* The mutex is unlocked, though it is not held: ngx_shmtx_unlock then does
\* nothing, since it compares the holder.
NewGroupFails(w) ==
    /\ At(w, "new group") /\ CanLock
    /\ Call(w, [Idle EXCEPT !.pc = "unlock unheld", !.op = "add"])
    /\ UNCHANGED << peers, made, mem, used, mutex, crashes >>

\* Mutant: the mutex is unlocked whoever holds it.
MutUnlockUnheld(w) ==
    /\ At(w, "unlock unheld")
    /\ mutex' = Null
    /\ Finish(w)
    /\ UNCHANGED << peers, made, mem, used, crashes >>

UnlockUnheld(w) ==
    /\ At(w, "unlock unheld")
    /\ mutex' = IF mutex = w THEN Null ELSE mutex
    /\ Finish(w)
    /\ UNCHANGED << peers, made, mem, used, crashes >>

NextGroup(w) ==
    /\ At(w, "next group")
    /\ peers' = [peers EXCEPT ![0].next = run[w].group]
    /\ Goto(w, "unlock")
    /\ UNCHANGED << made, mem, used, mutex, crashes >>

(***************************************************************************)
(* The loops of del and edit, outside the mutex.                           *)
(***************************************************************************)
\* Mutant: names of the same length are taken for equal.
MutMatches(r) == r.want = NoName \/ mem[r.speer].name # NoName

Matches(r) == r.want \in {NoName, mem[r.speer].name}

\* Mutant: a peer that does not match is looked at again.
MutWalk(w) ==
    LET r == run[w] IN
    /\ At(w, "walk")
    /\ IF r.speer = Null THEN Finish(w)
       ELSE Goto(w, IF ~Matches(r) THEN "walk"
                    ELSE IF r.op = "del" THEN "check" ELSE "lock")
    /\ UNCHANGED << peers, made, mem, used, mutex, crashes >>

Walk(w) ==
    LET r == run[w] IN
    /\ At(w, "walk")
    /\ IF r.speer = Null THEN Finish(w)
       ELSE Goto(w, IF ~Matches(r) THEN "next"
                    ELSE IF r.op = "del" THEN "check" ELSE "lock")
    /\ UNCHANGED << peers, made, mem, used, mutex, crashes >>

\* The loop's increment.  A NULL cursor is followed like any other.
Advance(w) ==
    LET r == run[w] IN
    /\ At(w, "next") /\ r.speer # Null
    /\ Call(w, [r EXCEPT !.pc = "walk", !.speer = mem[r.speer].next,
                         !.pspeer = IF r.op = "del" THEN r.speer ELSE @])
    /\ UNCHANGED << peers, made, mem, used, mutex, crashes >>

\* Mutant: the last peer is tested one too late.
MutLeftOne(r) == peers[r.group].number = 0

LeftOne(r) == peers[r.group].number = 1

Check(w) ==
    /\ At(w, "check")
    /\ IF LeftOne(run[w]) THEN Finish(w) ELSE Goto(w, "lock")
    /\ UNCHANGED << peers, made, mem, used, mutex, crashes >>

(***************************************************************************)
(* add allocates and fills a peer before it takes the mutex.  Both of      *)
(* nginx's allocation functions take the mutex for themselves, and give    *)
(* the first free chunk of a page.                                         *)
(***************************************************************************)
Alloc(w) ==
    /\ At(w, "alloc") /\ CanLock
    /\ \E c \in Chunk \ used :
          /\ \A d \in Chunk \ used : c <= d
          /\ used' = used \cup {c}
          /\ mem' = [mem EXCEPT ![c] = [next |-> Null, name |-> NoName,
                                        weight |-> 0]]
          /\ Call(w, [run[w] EXCEPT !.pc = "fill", !.speer = c])
    /\ UNCHANGED << peers, made, mutex, crashes >>

SlabFull(w) ==
    /\ At(w, "alloc") /\ CanLock
    /\ used = Chunk
    /\ Finish(w)
    /\ UNCHANGED << peers, made, mem, used, mutex, crashes >>

\* Mutant: a new peer keeps the weight of zeroed memory.
MutFill(w) ==
    /\ At(w, "fill") /\ CanLock
    /\ mem' = [mem EXCEPT ![run[w].speer].name = run[w].want]
    /\ Goto(w, "lock")
    /\ UNCHANGED << peers, made, used, mutex, crashes >>

Fill(w) ==
    LET r == run[w] IN
    /\ At(w, "fill") /\ CanLock
    /\ mem' = [mem EXCEPT ![r.speer].name = r.want,
                          ![r.speer].weight = r.weight]
    /\ Goto(w, "lock")
    /\ UNCHANGED << peers, made, used, mutex, crashes >>

\* No memory for one of the strings: the peer stays allocated.
FillFails(w) ==
    /\ At(w, "fill") /\ CanLock
    /\ Finish(w)
    /\ UNCHANGED << peers, made, mem, used, mutex, crashes >>

(***************************************************************************)
(* The critical sections, statement by statement.                          *)
(***************************************************************************)
Count(w) ==
    /\ At(w, "count")
    /\ peers' = [peers EXCEPT ![run[w].group].number =
                    Uint(IF run[w].op = "add" THEN @ + 1 ELSE @ - 1)]
    /\ Goto(w, "weigh")
    /\ UNCHANGED << made, mem, used, mutex, crashes >>

\* Mutant: del leaves the weight of its peer in the total.
MutWeight(r, total) ==
    CASE r.op = "add"  -> total + r.weight
      [] r.op = "del"  -> total
      [] r.op = "edit" -> total - mem[r.speer].weight + r.weight

Weight(r, total) ==
    LET old == mem[r.speer].weight IN
    CASE r.op = "add"  -> total + r.weight
      [] r.op = "del"  -> total - old
      [] r.op = "edit" -> total - old + r.weight

Weigh(w) ==
    LET r == run[w] IN
    /\ At(w, "weigh")
    /\ peers' = [peers EXCEPT ![r.group].total_weight = Uint(Weight(r, @))]
    /\ Goto(w, CASE r.op = "add"  -> "point"
                 [] r.op = "del"  -> "unlink"
                 [] r.op = "edit" -> "set")
    /\ UNCHANGED << made, mem, used, mutex, crashes >>

\* Mutant: a new peer does not point to the rest of the list.
MutPoint(w) ==
    /\ At(w, "point")
    /\ Goto(w, "link")
    /\ UNCHANGED << peers, made, mem, used, mutex, crashes >>

Point(w) ==
    /\ At(w, "point")
    /\ mem' = [mem EXCEPT ![run[w].speer].next = peers[run[w].group].peer]
    /\ Goto(w, "link")
    /\ UNCHANGED << peers, made, used, mutex, crashes >>

Link(w) ==
    /\ At(w, "link")
    /\ peers' = [peers EXCEPT ![run[w].group].peer = run[w].speer]
    /\ Goto(w, "unlock")
    /\ UNCHANGED << made, mem, used, mutex, crashes >>

\* Mutant: the head is not treated apart.
MutUnlinkFirst(w) ==
    LET r == run[w] IN
    /\ At(w, "unlink") /\ r.speer = peers[r.group].peer
    /\ mem' = [mem EXCEPT ![r.pspeer].next = mem[r.speer].next]
    /\ Goto(w, "free")
    /\ UNCHANGED << peers, made, used, mutex, crashes >>

UnlinkFirst(w) ==
    LET r == run[w]
        second == mem[r.speer].next IN
    /\ At(w, "unlink") /\ r.speer = peers[r.group].peer
    /\ peers' = [peers EXCEPT ![r.group].peer = second]
    /\ Call(w, [r EXCEPT !.pc = "free", !.pspeer = second])
    /\ UNCHANGED << made, mem, used, mutex, crashes >>

UnlinkOther(w) ==
    LET r == run[w] IN
    /\ At(w, "unlink") /\ r.speer # peers[r.group].peer
    /\ mem' = [mem EXCEPT ![r.pspeer].next = mem[r.speer].next]
    /\ Goto(w, "free")
    /\ UNCHANGED << peers, made, used, mutex, crashes >>

\* nginx reports a chunk that is already free and goes on.
Free(w) ==
    /\ At(w, "free")
    /\ used' = used \ {run[w].speer}
    /\ Goto(w, "unlock")
    /\ UNCHANGED << peers, made, mem, mutex, crashes >>

SetWeight(w) ==
    LET r == run[w] IN
    /\ At(w, "set")
    /\ mem' = [mem EXCEPT ![r.speer].weight = r.weight]
    /\ Goto(w, "unlock")
    /\ UNCHANGED << peers, made, used, mutex, crashes >>

(***************************************************************************)
(* The listing: no mutex at all.                                           *)
(***************************************************************************)
Size(w) ==
    /\ At(w, "size")
    /\ Call(w, [run[w] EXCEPT !.pc = "first",
                              !.size = Uint(@ + peers[0].number)])
    /\ UNCHANGED << peers, made, mem, used, mutex, crashes >>

First(w) ==
    /\ At(w, "first")
    /\ Call(w, [run[w] EXCEPT !.pc = "copy",
                              !.speer = peers[run[w].group].peer])
    /\ UNCHANGED << peers, made, mem, used, mutex, crashes >>

\* Mutant: the copy does not look at the array's size.
MutRoom(r) == r.rows <= r.size

Room(r) == r.rows < r.size

Copy(w) ==
    LET r == run[w] IN
    /\ At(w, "copy") /\ Room(r) /\ r.speer # Null
    /\ Call(w, [r EXCEPT !.rows = @ + 1, !.speer = mem[r.speer].next])
    /\ UNCHANGED << peers, made, mem, used, mutex, crashes >>

\* The backup group's peers go into the same array.
Copied(w) ==
    LET r == run[w]
        next == peers[r.group].next IN
    /\ At(w, "copy") /\ (Room(r) => r.speer = Null)
    /\ IF next = Null THEN Finish(w)
       ELSE Call(w, [r EXCEPT !.pc = "first", !.group = next, !.speer = Null])
    /\ UNCHANGED << peers, made, mem, used, mutex, crashes >>

(***************************************************************************)
(* A worker dies: killed inside its critical section, or by following a    *)
(* NULL pointer.  nginx's master reaps it, unlocks what it held, and       *)
(* starts another one.                                                     *)
(***************************************************************************)
Dead == [Idle EXCEPT !.pc = "dead"]

Crash(w) ==
    /\ mutex = w /\ ~At(w, "dead") /\ crashes < MaxCrashes
    /\ Call(w, Dead)
    /\ crashes' = crashes + 1
    /\ UNCHANGED << peers, made, mem, used, mutex >>

Segv(w) ==
    /\ At(w, "next") /\ run[w].speer = Null
    /\ Call(w, Dead)
    /\ UNCHANGED << peers, made, mem, used, mutex, crashes >>

Respawn(w) ==
    /\ At(w, "dead")
    /\ mutex' = IF mutex = w THEN Null ELSE mutex
    /\ Finish(w)
    /\ UNCHANGED << peers, made, mem, used, crashes >>

CallStep(w) ==
    \/ Walk(w) \/ Advance(w) \/ Check(w) \/ Lock(w) \/ Unlock(w)
    \/ Alloc(w) \/ SlabFull(w) \/ Fill(w) \/ FillFails(w)
    \/ Count(w) \/ Weigh(w) \/ Point(w) \/ Link(w)
    \/ UnlinkFirst(w) \/ UnlinkOther(w) \/ Free(w) \/ SetWeight(w)
    \/ FoundGroup(w) \/ NoGroup(w) \/ NewGroup(w) \/ NewGroupFails(w)
    \/ UnlockUnheld(w) \/ NextGroup(w)
    \/ Size(w) \/ First(w) \/ Copy(w) \/ Copied(w) \/ Segv(w) \/ Respawn(w)

Next == \E w \in Worker : Begin(w) \/ CallStep(w) \/ Crash(w)

Spec == Init /\ [][Next]_vars

\* A call is one synchronous loop and the master always reaps: neither
\* stops by itself.  Requests need not arrive and workers need not die.
FairSpec == Spec /\ \A w \in Worker : WF_vars(CallStep(w))

(***************************************************************************)
(* Properties.                                                             *)
(***************************************************************************)

Section == {"count", "weigh", "point", "link", "unlink", "free", "set",
            "next group", "unlock"}

\* The types of the shared memory and of the calls' local variables: a call
\* in its critical section holds the mutex and has a peer or a new group at
\* hand.
TypeOK ==
    /\ peers \in [Group -> [peer : Chunk \cup {Null}, number : 0 .. UintMod - 1,
                            total_weight : 0 .. UintMod - 1,
                            next : Group \cup {Null}]]
    /\ made \in 0 .. NewGroups
    /\ mem \in [Chunk -> [next : Chunk \cup {Null},
                          name : Name \cup {NoName},
                          weight : Weights \cup {0, 1}]]
    /\ used \subseteq Chunk
    /\ mutex \in Worker \cup {Null}
    /\ \A w \in Worker :
          /\ run[w].group \in 0 .. made
          /\ run[w].speer \in Chunk \cup {Null}
          /\ run[w].pc \in Section =>
                mutex = w /\ (run[w].speer # Null \/ run[w].group > 0)
          /\ mutex = w => run[w].pc \in Section \cup {"dead"}
    /\ crashes \in 0 .. MaxCrashes

\* Whenever nobody holds the mutex, number is off by at most one for each
\* worker that died inside its critical section (in either direction, modulo
\* the width of ngx_uint_t); as long as none has, total_weight is the sum of
\* the weights in the list.
SummaryDrift ==
    mutex = Null => \A g \in Group :
       /\ \E i \in -crashes .. crashes :
             peers[g].number = Uint(Cardinality(Linked(g)) + i)
       /\ crashes = 0 => peers[g].total_weight = Uint(SumOfWeights(g))

\* At every moment, also in the middle of another worker's critical section
\* and after it died there, who walks a list without the mutex (the load
\* balancer, lst, a del or edit that still searches) comes to its end and
\* meets allocated peers of this group with a weight only.
ListSound ==
    /\ \A g \in Group : ListEnds(g)
    /\ AllLinked \subseteq used
    /\ \A c \in AllLinked : mem[c].weight > 0
    /\ \A g, h \in Group : g # h => Linked(g) \cap Linked(h) = {}

\* A group that nginx.conf gave peers has one at every moment ("if upstream
\* has only one server, can not delete"), as long as number can be trusted:
\* a worker that died may have left it one too high.
LastPeerStays ==
    crashes = 0 =>
       /\ peers[0].peer # Null
       /\ Backups # << >> => peers[1].peer # Null

\* A call that has found next NULL and has not assigned its group to it yet.
Making(r) == MakesGroup(r) /\ r.pc \in {"new group", "lock", "next group"}

OneMaker == \A v, w \in Worker : Making(run[v]) /\ Making(run[w]) => v = w

\* A group that has peers is the one that next leads to.
BackupReached ==
    \A g \in Group \ {0} : peers[g].peer # Null => peers[0].next = g

\* However many workers change the lists, and whenever they die: a backup
\* group is put in the place of another one, whose peers are then lost, only
\* if two calls had found next NULL before either of them assigned it.  A
\* worker that dies while it makes a group, a group whose allocation fails
\* and calls that wait with an older next do no such harm.
BackupLostByRaceOnly == []OneMaker => []BackupReached

\* No peer disappears from a list except one that a del holding the mutex
\* asked for, while one change is made at a time; nor when a worker dies at
\* any statement of its change and others go on with what it left.
OnlyAskedUnlinked ==
    [][ \A c \in AllLinked \ AllLinked' :
          \E w \in Worker : /\ run[w].op = "del" /\ mutex = w
                            /\ run[w].speer = c /\ Matches(run[w])
      ]_vars

\* What the call of a worker still has to do, and the groups as CallTable has
\* them: an add has done its work once its peer is in the list.
Done(r) ==
    \/ r.op \notin {"add", "del", "edit"}
    \/ r.op = "add" /\ r.pc = "unlock unheld"
    \/ r.op = "add" /\ r.pc = "unlock" /\ r.speer # Null

Asking(r) ==
    LET q == IF Done(r) THEN Idle ELSE r IN
    [op |-> q.op, want |-> q.want, weight |-> q.weight]

Entries(g) ==
    [c \in Linked(g) |-> [name |-> mem[c].name, weight |-> mem[c].weight]]

Tables  == [g \in Group |-> Entries(g)]
Askings == [w \in Worker |-> Asking(run[w])]

Table == INSTANCE CallTable WITH
            Peer <- Chunk, table <- Tables, asked <- Askings

\* For who walks a list without the mutex every change is made at one
\* statement, by the call that was asked for it and on a peer it was asked
\* for: an add puts its peer in once, complete with name and weight, and no
\* change of another worker is lost or half made, wherever a worker dies.
ChangesAreAtomic == Table!Spec

\* A listing never writes behind the array it sized from number, although
\* the list can grow between the two and again while it is copied.
NoOverrun == \A w \in Worker : run[w].rows <= run[w].size

\* Every call comes to its end, also when it waits for the mutex and the
\* worker that holds it dies.
CallEnds == \A w \in Worker : ~At(w, "idle") ~> At(w, "idle")

=============================================================================
