-------------------------- MODULE ShmWorkersProofs --------------------------
(***************************************************************************)
(* What ShmWorkers guarantees for any number of workers, chunks, groups    *)
(* and deaths: who is in a critical section holds the mutex, and a listing *)
(* stays in its array.                                                     *)
(***************************************************************************)
EXTENDS ShmWorkers, TLAPS

Pcs == Section \cup
       {"idle", "group", "new group", "unlock unheld", "alloc", "fill", "walk",
        "next", "check", "lock", "size", "first", "copy", "dead"}

CallsOf == [pc : Pcs, op : {"none", "add", "del", "edit", "lst"},
            want : Name \cup {NoName}, weight : Weights \cup {0},
            group : Group, speer : Chunk \cup {Null},
            pspeer : Chunk \cup {Null}, size : 0 .. UintMod - 1, rows : Nat]

GroupsOf == [peer : Chunk \cup {Null}, number : 0 .. UintMod - 1,
             total_weight : 0 .. UintMod - 1, next : Group \cup {Null}]

PeersOf == [next : Chunk \cup {Null}, name : Name \cup {NoName},
            weight : Weights \cup {0, 1}]

Types ==
    /\ peers \in [Group -> GroupsOf]
    /\ made \in 0 .. NewGroups
    /\ mem \in [Chunk -> PeersOf]
    /\ used \subseteq Chunk
    /\ mutex \in Worker \cup {Null}
    /\ run \in [Worker -> CallsOf]
    /\ crashes \in 0 .. MaxCrashes

\* What a call that is at pc has at hand.
AtHand(r) ==
    /\ r.pc \in {"fill", "alloc", "new group", "point", "link", "next group"} =>
          r.op = "add"
    /\ r.pc \in {"check", "unlink", "free"} => r.op = "del"
    /\ r.pc = "set" => r.op = "edit"
    /\ r.pc = "count" => r.op \in {"add", "del"}
    /\ r.pc \in {"group", "walk", "next", "lock", "weigh", "unlock"} =>
          r.op \in {"add", "del", "edit"}
    /\ r.pc \in {"walk", "next"} => r.op # "add"
    /\ r.op \in {"add", "edit"} /\ r.pc # "unlock unheld" =>
          r.weight \in Weights
    /\ r.pc = "size" => r.rows = 0
    /\ r.pc \in {"fill", "check", "count", "weigh", "point", "link", "unlink",
                 "free", "set"} => r.speer # Null
    /\ r.pc \in {"group", "new group", "alloc", "next group"} => r.speer = Null
    /\ r.pc \in {"lock", "unlock"} /\ r.speer = Null => r.op = "add"
    /\ (r.pc \in {"lock", "unlock"} /\ r.speer = Null) \/ r.pc = "next group" =>
          r.group > 0

\* Groups that a call or next leads to have been made.
Made ==
    /\ \A w \in Worker : run[w].group <= made
    /\ \A g \in Group : peers[g].next # Null =>
          peers[g].next > 0 /\ peers[g].next <= made

Holder ==
    \A w \in Worker :
       /\ run[w].pc \in Section => mutex = w
       /\ mutex = w => run[w].pc \in Section \cup {"dead"}

SInv ==
    /\ Types
    /\ \A w \in Worker : AtHand(run[w])
    /\ Made /\ Holder /\ NoOverrun

-----------------------------------------------------------------------------
\* What the proofs need of the constants.
LEMMA Constants ==
    /\ Null \notin Chunk /\ Null \notin Worker /\ Null \notin Group
    /\ UintMod \in Nat \ {0} /\ NewGroups \in Nat \ {0} /\ Group = 0 .. NewGroups
    /\ Weights \subseteq Nat \ {0} /\ Wants \subseteq Name \cup {NoName}
BY ShmAssumption DEF Group, Chunk

\* A step of worker w that leaves it with the local variables r.
LEMMA CallStepKeeps ==
    ASSUME SInv, NEW w \in Worker, NEW r \in CallsOf,
           run' = [run EXCEPT ![w] = r],
           AtHand(r), r.group <= made', r.rows <= r.size,
           peers' \in [Group -> GroupsOf], mem' \in [Chunk -> PeersOf],
           used' \subseteq Chunk, crashes' \in 0 .. MaxCrashes,
           made' \in 0 .. NewGroups, made <= made',
           \A g \in Group : peers'[g].next # Null =>
              peers'[g].next > 0 /\ peers'[g].next <= made',
           mutex' \in Worker \cup {Null},
           \A v \in Worker \ {w} : mutex' = v <=> mutex = v,
           r.pc \in Section => mutex' = w,
           mutex' = w => r.pc \in Section \cup {"dead"}
    PROVE  SInv'
<1>1. /\ run' \in [Worker -> CallsOf]
      /\ run'[w] = r /\ \A v \in Worker \ {w} : run'[v] = run[v]
  BY DEF SInv, Types
<1>2. Types'
  BY <1>1 DEF Types
<1>3. \A v \in Worker : AtHand(run'[v])
  BY <1>1 DEF SInv
<1>4. Made'
  <2>1. \A v \in Worker : run[v].group \in Nat /\ run[v].group <= made
    BY Constants DEF SInv, Types, CallsOf, Made
  <2>2. made \in Nat /\ made' \in Nat
    BY Constants DEF SInv, Types
  <2>3. \A v \in Worker : run'[v].group <= made'
    <3> SUFFICES ASSUME NEW v \in Worker PROVE run'[v].group <= made'
      OBVIOUS
    <3>1. CASE v = w
      BY <1>1, <3>1
    <3>2. CASE v # w
      BY <1>1, <2>1, <2>2, <3>2
    <3> QED  BY <3>1, <3>2
  <2> QED  BY <2>3 DEF Made
<1>5. Holder' /\ NoOverrun'
  BY <1>1 DEF SInv, Holder, NoOverrun
<1> QED  BY <1>2, <1>3, <1>4, <1>5 DEF SInv, AtHand

\* The same for a step that changes nothing else.
LEMMA LocalStepKeeps ==
    ASSUME SInv, NEW w \in Worker, NEW r \in CallsOf,
           run' = [run EXCEPT ![w] = r],
           UNCHANGED << peers, made, mem, used, mutex, crashes >>,
           AtHand(r), r.group <= made, r.rows <= r.size,
           r.pc \in Section => mutex = w,
           mutex = w => r.pc \in Section \cup {"dead"}
    PROVE  SInv'
<1>1. Types /\ Made
  BY DEF SInv
<1>2. /\ peers' \in [Group -> GroupsOf] /\ mem' \in [Chunk -> PeersOf]
      /\ used' \subseteq Chunk /\ crashes' \in 0 .. MaxCrashes
      /\ made' \in 0 .. NewGroups /\ made <= made'
      /\ mutex' \in Worker \cup {Null}
  BY <1>1 DEF Types
<1>3. \A g \in Group : peers'[g].next # Null =>
         peers'[g].next > 0 /\ peers'[g].next <= made'
  BY <1>1 DEF Made
<1>4. /\ r.group <= made' /\ (r.pc \in Section => mutex' = w)
      /\ mutex' = w => r.pc \in Section \cup {"dead"}
      /\ \A v \in Worker \ {w} : mutex' = v <=> mutex = v
  OBVIOUS
<1> QED  BY <1>2, <1>3, <1>4, CallStepKeeps

\* The same for a step that may take or give back the mutex.
LEMMA MutexStepKeeps ==
    ASSUME SInv, NEW w \in Worker, NEW r \in CallsOf,
           run' = [run EXCEPT ![w] = r],
           UNCHANGED << peers, made, mem, used >>,
           crashes' \in 0 .. MaxCrashes,
           AtHand(r), r.group <= made, r.rows <= r.size,
           \/ mutex = Null /\ mutex' = w /\ r.pc \in Section
           \/ mutex = w /\ mutex' = Null /\ r.pc \notin Section
           \/ UNCHANGED mutex /\ r.pc = "dead"
    PROVE  SInv'
<1>1. Types /\ Made
  BY DEF SInv
<1>2. /\ peers' \in [Group -> GroupsOf] /\ mem' \in [Chunk -> PeersOf]
      /\ used' \subseteq Chunk /\ made' \in 0 .. NewGroups
      /\ mutex \in Worker \cup {Null}
  BY <1>1 DEF Types
<1>3. made <= made'
  BY <1>1, Constants DEF Types
<1>4. \A g \in Group : peers'[g].next # Null =>
         peers'[g].next > 0 /\ peers'[g].next <= made'
  BY <1>1 DEF Made
<1>5. /\ mutex' \in Worker \cup {Null}
      /\ \A v \in Worker \ {w} : mutex' = v <=> mutex = v
  BY <1>2, Constants
<1>6. /\ r.pc \in Section => mutex' = w
      /\ mutex' = w => r.pc \in Section \cup {"dead"}
  BY Constants DEF Section
<1> QED  BY <1>2, <1>3, <1>4, <1>5, <1>6, CallStepKeeps

\* What is known of the worker that makes a step, and of the shared memory.
LEMMA AtCall ==
    ASSUME SInv, NEW w \in Worker
    PROVE  /\ run[w] \in CallsOf /\ AtHand(run[w])
           /\ run[w].group <= made /\ run[w].rows <= run[w].size
           /\ run[w].pc \in Section => mutex = w
           /\ mutex = w => run[w].pc \in Section \cup {"dead"}
BY DEF SInv, Types, Made, Holder, NoOverrun

LEMMA Memory ==
    ASSUME SInv
    PROVE  /\ made \in Nat /\ 0 <= made /\ 0 \in Group /\ Group \subseteq Nat
           /\ \A g \in Group :
                 /\ peers[g].peer \in Chunk \cup {Null}
                 /\ peers[g].number \in 0 .. UintMod - 1
                 /\ peers[g].next \in Group \cup {Null}
                 /\ peers[g].next # Null =>
                       peers[g].next > 0 /\ peers[g].next <= made
           /\ \A c \in Chunk : mem[c].next \in Chunk \cup {Null}
<1>1. Types /\ Made
  BY DEF SInv
<1>2. made \in Nat /\ 0 <= made /\ 0 \in Group /\ Group \subseteq Nat
  BY <1>1, Constants DEF Types
<1>3. \A g \in Group : peers[g] \in GroupsOf
  BY <1>1 DEF Types
<1>4. \A c \in Chunk : mem[c] \in PeersOf
  BY <1>1 DEF Types
<1>5. \A c \in Chunk : mem[c].next \in Chunk \cup {Null}
  BY <1>4 DEF PeersOf
<1>6. \A g \in Group : /\ peers[g].peer \in Chunk \cup {Null}
                       /\ peers[g].number \in 0 .. UintMod - 1
                       /\ peers[g].next \in Group \cup {Null}
  BY <1>3 DEF GroupsOf
<1> QED  BY <1>1, <1>2, <1>5, <1>6 DEF Made

LEMMA Fields ==
    ASSUME NEW r \in CallsOf
    PROVE  /\ r.pc \in Pcs /\ r.op \in {"none", "add", "del", "edit", "lst"}
           /\ r.want \in Name \cup {NoName} /\ r.weight \in Weights \cup {0}
           /\ r.group \in Group /\ r.group \in Nat
           /\ r.speer \in Chunk \cup {Null} /\ r.pspeer \in Chunk \cup {Null}
           /\ r.size \in 0 .. UintMod - 1 /\ r.size \in Nat /\ r.rows \in Nat
           /\ 0 <= r.size
BY Constants DEF CallsOf

\* A call that has ended.
LEMMA IdleCall ==
    /\ Idle \in CallsOf /\ AtHand(Idle)
    /\ Idle.pc = "idle" /\ Idle.op = "none" /\ Idle.group = 0
    /\ Idle.speer = Null /\ Idle.pspeer = Null
    /\ Idle.size = 0 /\ Idle.rows = 0
<1>1. /\ "idle" \in Pcs /\ "none" \in {"none", "add", "del", "edit", "lst"}
      /\ NoName \in Name \cup {NoName} /\ 0 \in Weights \cup {0}
      /\ Null \in Chunk \cup {Null} /\ 0 \in Nat
  BY DEF Pcs
<1>2. 0 \in Group /\ 0 \in 0 .. UintMod - 1
  BY Constants
<1>3. Idle \in CallsOf
  BY <1>1, <1>2, Zenon DEF Idle, CallsOf
<1>4. /\ Idle.pc = "idle" /\ Idle.op = "none" /\ Idle.group = 0
      /\ Idle.speer = Null /\ Idle.pspeer = Null
      /\ Idle.size = 0 /\ Idle.rows = 0
  BY DEF Idle
<1>5. AtHand(Idle)
  BY <1>4 DEF AtHand
<1> QED  BY <1>3, <1>4, <1>5

\* A worker that has died.
LEMMA DeadCall ==
    /\ Dead \in CallsOf /\ AtHand(Dead) /\ Dead.pc = "dead"
    /\ Dead.group = 0 /\ Dead.rows <= Dead.size
<1>1. /\ Dead \in CallsOf /\ Dead.pc = "dead" /\ Dead.op = "none"
      /\ Dead.group = 0 /\ Dead.rows = 0 /\ Dead.size = 0
  BY IdleCall DEF Dead, CallsOf, Pcs
<1>2. AtHand(Dead)
  BY <1>1 DEF AtHand
<1>3. Dead.rows <= Dead.size
  BY <1>1, Fields
<1> QED  BY <1>1, <1>2, <1>3

\* The cursors start at the head of a group.
LEMMA StartCall ==
    ASSUME NEW q \in CallsOf, NEW g \in Group,
           peers[g].peer \in Chunk \cup {Null}
    PROVE  LET r == Start(q, g) IN
           /\ r \in CallsOf /\ r.pc = "walk" /\ r.op = q.op /\ r.group = g
           /\ r.weight = q.weight /\ r.rows = q.rows /\ r.size = q.size
           /\ r.speer = peers[g].peer
           /\ q.op = "del" => r.pspeer = peers[g].peer
<1> DEFINE h == peers[g].peer
           r == Start(q, g)
           Started(b) == /\ r \in CallsOf /\ r.pc = "walk" /\ r.op = q.op
                         /\ r.group = g /\ r.weight = q.weight
                         /\ r.rows = q.rows /\ r.size = q.size
                         /\ r.speer = h /\ r.pspeer = b
<1>1. "walk" \in Pcs /\ Null \in Chunk \cup {Null} /\ h \in Chunk \cup {Null}
  BY DEF Pcs
<1>2. /\ q.op = "del" => r = [q EXCEPT !.pc = "walk", !.group = g, !.speer = h,
                                       !.pspeer = h]
      /\ q.op # "del" => r = [q EXCEPT !.pc = "walk", !.group = g, !.speer = h,
                                       !.pspeer = Null]
  BY DEF Start
<1> HIDE DEF h, r
<1>3. ASSUME NEW b \in Chunk \cup {Null},
             r = [q EXCEPT !.pc = "walk", !.group = g, !.speer = h, !.pspeer = b]
      PROVE  Started(b)
  BY <1>1, <1>3 DEF CallsOf
<1>4. Started(h) \/ (q.op # "del" /\ Started(Null))
  <2> HIDE DEF Started
  <2> QED  BY <1>1, <1>2, <1>3
<1> QED  BY <1>4 DEF h, r

\* The calls that end: Finish.
LEMMA FinishKeeps ==
    ASSUME SInv, NEW w \in Worker, Finish(w), mutex # w,
           UNCHANGED << peers, made, mem, used, mutex, crashes >>
    PROVE  SInv'
<1>1. run' = [run EXCEPT ![w] = Idle]
  BY DEF Finish, Call
<1>2. Idle.group <= made /\ Idle.rows <= Idle.size /\ Idle.pc \notin Section
  BY IdleCall, Memory DEF Section
<1> QED  BY <1>1, <1>2, IdleCall, LocalStepKeeps

\* A call that only goes on to another statement.
LEMMA GotoKeeps ==
    ASSUME SInv, NEW w \in Worker, NEW pc \in Pcs \ Section, Goto(w, pc),
           mutex # w, AtHand([run[w] EXCEPT !.pc = pc]),
           UNCHANGED << peers, made, mem, used, mutex, crashes >>
    PROVE  SInv'
<1> DEFINE r == [run[w] EXCEPT !.pc = pc]
<1>1. run' = [run EXCEPT ![w] = r]
  BY DEF Goto
<1>2. r \in CallsOf /\ r.group <= made /\ r.rows <= r.size /\ r.pc = pc
  BY AtCall DEF CallsOf
<1> QED  BY <1>1, <1>2, LocalStepKeeps

LEMMA BeginKeeps ==
    ASSUME SInv, NEW w \in Worker, Begin(w)
    PROVE  SInv'
<1>0. /\ run[w].pc = "idle"
      /\ UNCHANGED << peers, made, mem, used, mutex, crashes >>
  BY DEF Begin, At
<1>1. mutex # w /\ made \in Nat /\ 0 \in Group
  BY <1>0, AtCall, Memory DEF Section
<1>2. CASE CallAdd(w)
  <2>1. PICK n \in Name, k \in Weights, pc \in {"alloc", "group"} :
           run' = [run EXCEPT ![w] = [Idle EXCEPT !.pc = pc, !.op = "add",
                                                  !.want = n, !.weight = k]]
    BY <1>2 DEF CallAdd, Call
  <2> DEFINE r == [Idle EXCEPT !.pc = pc, !.op = "add", !.want = n,
                               !.weight = k]
  <2>2. /\ r \in CallsOf /\ r.pc = pc /\ r.op = "add" /\ r.weight = k
        /\ r.group = 0 /\ r.speer = Null /\ r.rows = 0 /\ r.size = 0
    BY IdleCall DEF CallsOf, Pcs
  <2>3. run' = [run EXCEPT ![w] = r]
    BY <2>1
  <2> HIDE DEF r
  <2>4. AtHand(r)
    BY <2>2 DEF AtHand
  <2>5. r.pc \notin Section
    BY <2>2 DEF Section
  <2>6. r.group <= made /\ r.rows <= r.size
    BY <1>1, <2>2, Fields
  <2> QED  BY <1>0, <1>1, <2>2, <2>3, <2>4, <2>5, <2>6, LocalStepKeeps
<1>3. ASSUME NEW r0 \in CallsOf, r0.op \in {"del", "edit"}, r0.group = 0,
             r0.op = "edit" => r0.weight \in Weights, r0.rows = 0,
             r0.pc = "group", r0.speer = Null,
             Call(w, r0) \/ Call(w, Start(r0, 0))
      PROVE  SInv'
  <2>1. CASE Call(w, r0)
    <3>1. AtHand(r0) /\ r0.pc \notin Section
      BY <1>3 DEF AtHand, Section
    <3>2. r0.rows <= r0.size /\ r0.group <= made
      BY <1>1, <1>3 DEF CallsOf
    <3> QED  BY <1>0, <1>1, <1>3, <2>1, <3>1, <3>2, LocalStepKeeps DEF Call
  <2>2. CASE Call(w, Start(r0, 0))
    <3> DEFINE r == Start(r0, 0)
    <3>1. peers[0].peer \in Chunk \cup {Null}
      BY Memory
    <3>2. r \in CallsOf /\ r.op = r0.op /\ r.weight = r0.weight
             /\ r.pc = "walk" /\ r.group = 0 /\ r.rows = 0
      BY <1>3, <3>1, Memory, StartCall
    <3>4. Call(w, r)
      BY <2>2
    <3> HIDE DEF r
    <3>3. AtHand(r)
      BY <1>3, <3>2 DEF AtHand
    <3>5. r.pc \notin Section /\ r.rows <= r.size /\ r.group <= made
      BY <1>1, <3>2, Fields DEF Section
    <3> QED  BY <1>0, <1>1, <3>2, <3>3, <3>4, <3>5, LocalStepKeeps DEF Call
  <2> QED  BY <1>3, <2>1, <2>2
<1>4. CASE CallDel(w)
  <2>1. PICK n \in Wants :
           LET r == [Idle EXCEPT !.pc = "group", !.op = "del", !.want = n] IN
           Call(w, r) \/ Call(w, Start(r, 0))
    BY <1>4 DEF CallDel
  <2> DEFINE r == [Idle EXCEPT !.pc = "group", !.op = "del", !.want = n]
  <2>2. /\ r \in CallsOf /\ r.op = "del" /\ r.group = 0 /\ r.rows = 0
        /\ r.pc = "group" /\ r.speer = Null
    BY IdleCall, Constants DEF CallsOf, Pcs
  <2> QED  BY <1>3, <2>1, <2>2
<1>5. CASE CallEdit(w)
  <2>1. PICK n \in Wants, k \in Weights :
           LET r == [Idle EXCEPT !.pc = "group", !.op = "edit", !.want = n,
                                 !.weight = k] IN
           Call(w, r) \/ Call(w, Start(r, 0))
    BY <1>5 DEF CallEdit
  <2> DEFINE r == [Idle EXCEPT !.pc = "group", !.op = "edit", !.want = n,
                               !.weight = k]
  <2>2. /\ r \in CallsOf /\ r.op = "edit" /\ r.group = 0 /\ r.rows = 0
        /\ r.pc = "group" /\ r.speer = Null /\ r.weight = k
    BY IdleCall, Constants DEF CallsOf, Pcs
  <2> QED  BY <1>3, <2>1, <2>2
<1>6. CASE CallLst(w)
  <2> DEFINE n == IF peers[0].next = Null THEN 0 ELSE peers[peers[0].next].number
             r == [Idle EXCEPT !.pc = "size", !.op = "lst", !.size = n]
  <2>1. n \in 0 .. UintMod - 1
    BY Memory, Constants
  <2>2. run' = [run EXCEPT ![w] = r]
    BY <1>6 DEF CallLst, Call
  <2> HIDE DEF n
  <2>3. /\ r \in CallsOf /\ r.pc = "size" /\ r.op = "lst" /\ r.group = 0
        /\ r.rows = 0
    BY <2>1, IdleCall DEF CallsOf, Pcs
  <2> HIDE DEF r
  <2>4. AtHand(r)
    BY <2>3 DEF AtHand
  <2>5. r.group <= made /\ r.rows <= r.size /\ r.pc \notin Section
    BY <1>1, <2>3, Fields DEF Section
  <2> QED  BY <1>0, <1>1, <2>2, <2>3, <2>4, <2>5, LocalStepKeeps
<1> QED  BY <1>2, <1>4, <1>5, <1>6 DEF Begin

-----------------------------------------------------------------------------
\* A call at another statement.
LEMMA AtFields ==
    ASSUME NEW r \in CallsOf, NEW pc \in Pcs
    PROVE  /\ [r EXCEPT !.pc = pc] \in CallsOf
           /\ [r EXCEPT !.pc = pc].pc = pc
           /\ [r EXCEPT !.pc = pc].op = r.op
           /\ [r EXCEPT !.pc = pc].weight = r.weight
           /\ [r EXCEPT !.pc = pc].group = r.group
           /\ [r EXCEPT !.pc = pc].speer = r.speer
           /\ [r EXCEPT !.pc = pc].rows = r.rows
           /\ [r EXCEPT !.pc = pc].size = r.size
BY DEF CallsOf

\* The cursors of a del or edit at the head of a group that has been made.
LEMMA StartKeeps ==
    ASSUME SInv, NEW w \in Worker, NEW g \in Group, g <= made,
           run[w].pc = "group", run[w].op \in {"del", "edit"},
           Call(w, Start(run[w], g)),
           UNCHANGED << peers, made, mem, used, mutex, crashes >>
    PROVE  SInv'
<1> DEFINE r == Start(run[w], g)
<1>1. peers[g].peer \in Chunk \cup {Null}
  BY Memory
<1>2. run[w] \in CallsOf /\ AtHand(run[w]) /\ mutex # w
      /\ run[w].rows <= run[w].size
  BY AtCall DEF Section
<1>3. /\ r \in CallsOf /\ r.op = run[w].op /\ r.weight = run[w].weight
      /\ r.pc = "walk" /\ r.group = g /\ r.rows = run[w].rows
      /\ r.size = run[w].size
  BY <1>1, <1>2 DEF Start, CallsOf, Pcs
<1>4. run' = [run EXCEPT ![w] = r]
  BY DEF Call
<1> HIDE DEF r
<1>5. AtHand(r)
  BY <1>2, <1>3 DEF AtHand
<1>6. r.pc \notin Section
  BY <1>3 DEF Section
<1> QED  BY <1>2, <1>3, <1>4, <1>5, <1>6, LocalStepKeeps

LEMMA GroupKeeps ==
    ASSUME SInv, NEW w \in Worker, FoundGroup(w) \/ NoGroup(w)
    PROVE  SInv'
<1>1. /\ run[w].pc = "group"
      /\ UNCHANGED << peers, made, mem, used, mutex, crashes >>
  BY DEF FoundGroup, NoGroup, At
<1>2. /\ run[w] \in CallsOf /\ AtHand(run[w]) /\ mutex # w
      /\ run[w].rows <= run[w].size /\ run[w].speer = Null
      /\ run[w].op \in {"add", "del", "edit"}
  BY <1>1, AtCall DEF Section, AtHand
<1>3. CASE FoundGroup(w)
  <2> DEFINE next == peers[0].next
  <2>1. next \in Group /\ next <= made
    BY <1>3, Memory DEF FoundGroup
  <2>2. CASE run[w].op = "add"
    <3> DEFINE r == [run[w] EXCEPT !.pc = "alloc", !.group = next]
    <3>1. run' = [run EXCEPT ![w] = r]
      BY <1>3, <2>2 DEF FoundGroup, Call
    <3>2. /\ r \in CallsOf /\ r.pc = "alloc" /\ r.group = next
          /\ r.op = "add" /\ r.weight = run[w].weight /\ r.speer = Null
          /\ r.rows = run[w].rows /\ r.size = run[w].size
      <4> HIDE DEF next
      <4> QED  BY <1>2, <2>1, <2>2 DEF CallsOf, Pcs
    <3> HIDE DEF r
    <3>3. AtHand(r)
      BY <1>1, <1>2, <2>2, <3>2 DEF AtHand
    <3>4. r.pc \notin Section
      BY <3>2 DEF Section
    <3> QED  BY <1>1, <1>2, <2>1, <3>1, <3>2, <3>3, <3>4, LocalStepKeeps
  <2>3. CASE run[w].op # "add"
    <3>1. Call(w, Start(run[w], next))
      BY <1>3, <2>3 DEF FoundGroup
    <3> QED  BY <1>1, <1>2, <2>1, <2>3, <3>1, StartKeeps
  <2> QED  BY <2>2, <2>3
<1>4. CASE NoGroup(w)
  <2>1. CASE run[w].op = "add"
    <3> DEFINE r == [run[w] EXCEPT !.pc = "new group"]
    <3>1. Goto(w, "new group")
      BY <1>4, <2>1 DEF NoGroup
    <3>2. "new group" \in Pcs \ Section
      BY DEF Pcs, Section
    <3>3. /\ r.pc = "new group" /\ r.op = "add" /\ r.speer = Null
          /\ r.weight = run[w].weight
      BY <1>2, <2>1, <3>2, AtFields
    <3> HIDE DEF r
    <3>4. AtHand(r)
      BY <1>1, <1>2, <2>1, <3>3 DEF AtHand
    <3> QED  BY <1>1, <1>2, <3>1, <3>2, <3>4, GotoKeeps DEF r
  <2>2. CASE run[w].op # "add"
    BY <1>1, <1>2, <1>4, <2>2, FinishKeeps DEF NoGroup
  <2> QED  BY <2>1, <2>2
<1> QED  BY <1>3, <1>4

LEMMA NewGroupKeeps ==
    ASSUME SInv, NEW w \in Worker, NewGroup(w)
    PROVE  SInv'
<1> DEFINE r == [run[w] EXCEPT !.pc = "lock", !.group = made + 1]
<1>1. /\ run[w].pc = "new group" /\ made' = made + 1 /\ made < NewGroups
      /\ run' = [run EXCEPT ![w] = r]
      /\ UNCHANGED << peers, mem, used, mutex, crashes >>
  BY DEF NewGroup, At, Call
<1>2. /\ run[w] \in CallsOf /\ AtHand(run[w]) /\ mutex # w
      /\ run[w].rows <= run[w].size
  BY <1>1, AtCall DEF Section
<1>3. /\ made \in Nat /\ made + 1 > 0 /\ made <= made + 1
      /\ made + 1 \in 0 .. NewGroups /\ made + 1 \in Group
  <2>1. made \in Nat /\ NewGroups \in Nat /\ Group = 0 .. NewGroups
    BY Memory, Constants
  <2>2. made < NewGroups
    BY <1>1
  <2>3. made + 1 > 0 /\ made <= made + 1 /\ made + 1 \in 0 .. NewGroups
    BY <2>1, <2>2
  <2> QED  BY <2>1, <2>3
<1>4. /\ r \in CallsOf /\ r.pc = "lock" /\ r.group = made + 1
      /\ r.op = run[w].op /\ r.weight = run[w].weight
      /\ r.speer = run[w].speer
      /\ r.rows = run[w].rows /\ r.size = run[w].size
  BY <1>2, <1>3 DEF CallsOf, Pcs
<1> HIDE DEF r
<1>5. AtHand(r)
  BY <1>1, <1>2, <1>3, <1>4 DEF AtHand
<1>6. r.pc \notin Section
  BY <1>4 DEF Section
<1>7. Types /\ Made
  BY DEF SInv
<1>8. /\ peers' \in [Group -> GroupsOf] /\ mem' \in [Chunk -> PeersOf]
      /\ used' \subseteq Chunk /\ crashes' \in 0 .. MaxCrashes
      /\ mutex' \in Worker \cup {Null}
      /\ \A v \in Worker \ {w} : mutex' = v <=> mutex = v
  BY <1>1, <1>7 DEF Types
<1>9. \A g \in Group : peers'[g].next # Null =>
         peers'[g].next > 0 /\ peers'[g].next <= made'
  <2> SUFFICES ASSUME NEW g \in Group, peers[g].next # Null
               PROVE  peers[g].next > 0 /\ peers[g].next <= made + 1
    BY <1>1
  <2>1. peers[g].next \in Nat /\ peers[g].next > 0 /\ peers[g].next <= made
    BY Memory
  <2> QED  BY <1>3, <2>1
<1>10. made <= made' /\ made' \in 0 .. NewGroups
  BY <1>1, <1>3
<1>11. r.group <= made'
  <2>1. made + 1 <= made + 1
    BY <1>3
  <2> QED  BY <1>1, <1>4, <2>1
<1>12. r.rows <= r.size
  BY <1>2, <1>4
<1>13. mutex' # w
  BY <1>1, <1>2
<1> QED  BY <1>1, <1>4, <1>5, <1>6, <1>8, <1>9, <1>10, <1>11, <1>12, <1>13, CallStepKeeps

LEMMA NewGroupFailsKeeps ==
    ASSUME SInv, NEW w \in Worker, NewGroupFails(w)
    PROVE  SInv'
<1> DEFINE r == [Idle EXCEPT !.pc = "unlock unheld", !.op = "add"]
<1>1. /\ run[w].pc = "new group" /\ run' = [run EXCEPT ![w] = r]
      /\ UNCHANGED << peers, made, mem, used, mutex, crashes >>
  BY DEF NewGroupFails, At, Call
<1>2. mutex # w
  BY <1>1, AtCall DEF Section
<1>3. /\ r \in CallsOf /\ r.pc = "unlock unheld" /\ r.op = "add"
      /\ r.group = 0 /\ r.rows = 0 /\ r.size = 0
  BY IdleCall DEF CallsOf, Pcs
<1> HIDE DEF r
<1>4. AtHand(r) /\ r.pc \notin Section
  BY <1>3 DEF AtHand, Section
<1>5. r.group <= made /\ r.rows <= r.size
  BY <1>3, Memory, Fields
<1> QED  BY <1>1, <1>2, <1>3, <1>4, <1>5, LocalStepKeeps

LEMMA UnlockUnheldKeeps ==
    ASSUME SInv, NEW w \in Worker, UnlockUnheld(w)
    PROVE  SInv'
<1>1. run[w].pc = "unlock unheld"
  BY DEF UnlockUnheld, At
<1>2. mutex # w
  BY <1>1, AtCall DEF Section
<1> QED  BY <1>2, FinishKeeps DEF UnlockUnheld

\* The loops of del and edit.
LEMMA WalkKeeps ==
    ASSUME SInv, NEW w \in Worker, Walk(w)
    PROVE  SInv'
<1>1. /\ run[w].pc = "walk"
      /\ UNCHANGED << peers, made, mem, used, mutex, crashes >>
  BY DEF Walk, At
<1>2. /\ run[w] \in CallsOf /\ AtHand(run[w]) /\ mutex # w
      /\ run[w].op \in {"del", "edit"}
  BY <1>1, AtCall DEF Section, AtHand
<1>3. CASE run[w].speer = Null
  BY <1>1, <1>2, <1>3, FinishKeeps DEF Walk
<1>4. ASSUME NEW pc \in {"next", "check", "lock"}, Goto(w, pc),
             run[w].speer # Null, pc = "check" => run[w].op = "del"
      PROVE  SInv'
  <2> DEFINE r == [run[w] EXCEPT !.pc = pc]
  <2>1. pc \in Pcs \ Section
    BY DEF Pcs, Section
  <2>2. /\ r.pc = pc /\ r.op = run[w].op /\ r.speer = run[w].speer
        /\ r.weight = run[w].weight /\ r.group = run[w].group
    BY <1>2, <2>1, AtFields
  <2> HIDE DEF r
  <2>3. AtHand(r)
    BY <1>1, <1>2, <1>4, <2>2 DEF AtHand
  <2> QED  BY <1>1, <1>2, <1>4, <2>1, <2>3, GotoKeeps DEF r
<1>5. CASE run[w].speer # Null
  <2>1. Goto(w, IF ~Matches(run[w]) THEN "next"
                ELSE IF run[w].op = "del" THEN "check" ELSE "lock")
    BY <1>5 DEF Walk
  <2> QED  BY <1>4, <1>5, <2>1
<1> QED  BY <1>3, <1>5

LEMMA AdvanceKeeps ==
    ASSUME SInv, NEW w \in Worker, Advance(w)
    PROVE  SInv'
<1> DEFINE next == mem[run[w].speer].next
           back == IF run[w].op = "del" THEN run[w].speer ELSE run[w].pspeer
           r == [run[w] EXCEPT !.pc = "walk", !.speer = next, !.pspeer = back]
<1>1. /\ run[w].pc = "next" /\ run[w].speer # Null
      /\ run' = [run EXCEPT ![w] = r]
      /\ UNCHANGED << peers, made, mem, used, mutex, crashes >>
  BY DEF Advance, At, Call
<1>2. /\ run[w] \in CallsOf /\ AtHand(run[w]) /\ mutex # w
      /\ run[w].op \in {"del", "edit"}
      /\ run[w].group <= made /\ run[w].rows <= run[w].size
  BY <1>1, AtCall DEF Section, AtHand
<1>3. next \in Chunk \cup {Null} /\ back \in Chunk \cup {Null}
  BY <1>1, <1>2, Fields, Memory
<1> HIDE DEF next, back
<1>4. /\ r \in CallsOf /\ r.pc = "walk" /\ r.op = run[w].op
      /\ r.weight = run[w].weight /\ r.group = run[w].group
      /\ r.rows = run[w].rows /\ r.size = run[w].size
  BY <1>2, <1>3 DEF CallsOf, Pcs
<1> HIDE DEF r
<1>5. AtHand(r)
  BY <1>1, <1>2, <1>4 DEF AtHand
<1>6. r.pc \notin Section
  BY <1>4 DEF Section
<1> QED  BY <1>1, <1>2, <1>4, <1>5, <1>6, LocalStepKeeps

LEMMA CheckKeeps ==
    ASSUME SInv, NEW w \in Worker, Check(w)
    PROVE  SInv'
<1> DEFINE r == [run[w] EXCEPT !.pc = "lock"]
<1>1. /\ run[w].pc = "check" /\ (Finish(w) \/ Goto(w, "lock"))
      /\ UNCHANGED << peers, made, mem, used, mutex, crashes >>
  BY DEF Check, At
<1>2. /\ run[w] \in CallsOf /\ AtHand(run[w]) /\ mutex # w
  BY <1>1, AtCall DEF Section
<1>3. "lock" \in Pcs \ Section
  BY DEF Pcs, Section
<1>4. /\ r.pc = "lock" /\ r.op = run[w].op /\ r.speer = run[w].speer
      /\ r.weight = run[w].weight /\ r.group = run[w].group
  BY <1>2, <1>3, AtFields
<1> HIDE DEF r
<1>5. AtHand(r)
  BY <1>1, <1>2, <1>4 DEF AtHand
<1> QED  BY <1>1, <1>2, <1>3, <1>5, FinishKeeps, GotoKeeps DEF r

\* The calls that end or die outside the critical section.
LEMMA EndsKeep ==
    ASSUME SInv, NEW w \in Worker, SlabFull(w) \/ FillFails(w) \/ Segv(w)
    PROVE  SInv'
<1>1. /\ run[w].pc \in {"alloc", "fill", "next"}
      /\ UNCHANGED << peers, made, mem, used, mutex, crashes >>
  BY DEF SlabFull, FillFails, Segv, At
<1>2. mutex # w
  BY <1>1, AtCall DEF Section
<1>3. CASE Finish(w)
  BY <1>1, <1>2, <1>3, FinishKeeps
<1>4. CASE Segv(w)
  <2>1. run' = [run EXCEPT ![w] = Dead]
    BY <1>4 DEF Segv, Call
  <2>2. /\ Dead \in CallsOf /\ Dead.pc = "dead" /\ AtHand(Dead)
        /\ Dead.group <= made /\ Dead.rows <= Dead.size
        /\ Dead.pc \notin Section
    BY DeadCall, Memory DEF Section
  <2> QED  BY <1>1, <1>2, <2>1, <2>2, LocalStepKeeps
<1> QED  BY <1>3, <1>4 DEF SlabFull, FillFails

\* The listing.
LEMMA SizeKeeps ==
    ASSUME SInv, NEW w \in Worker, Size(w)
    PROVE  SInv'
<1> DEFINE size == Uint(run[w].size + peers[0].number)
           r == [run[w] EXCEPT !.pc = "first", !.size = size]
<1>1. /\ run[w].pc = "size" /\ run' = [run EXCEPT ![w] = r]
      /\ UNCHANGED << peers, made, mem, used, mutex, crashes >>
  BY DEF Size, At, Call
<1>2. /\ run[w] \in CallsOf /\ AtHand(run[w]) /\ mutex # w
      /\ run[w].group <= made /\ run[w].rows = 0
  BY <1>1, AtCall DEF Section, AtHand
<1>3. size \in 0 .. UintMod - 1
  <2>1. run[w].size \in Nat /\ peers[0].number \in Nat /\ UintMod \in Nat \ {0}
    BY <1>2, Fields, Memory, Constants
  <2> QED  BY <2>1 DEF Uint
<1> HIDE DEF size
<1>4. /\ r \in CallsOf /\ r.pc = "first" /\ r.op = run[w].op
      /\ r.weight = run[w].weight /\ r.group = run[w].group /\ r.rows = 0
  BY <1>2, <1>3, ZenonT(60) DEF CallsOf, Pcs
<1> HIDE DEF r
<1>5. AtHand(r)
  BY <1>1, <1>2, <1>4 DEF AtHand
<1>6. r.rows <= r.size
  BY <1>4, Fields
<1>7. r.pc \notin Section
  BY <1>4 DEF Section
<1> QED  BY <1>1, <1>2, <1>4, <1>5, <1>6, <1>7, LocalStepKeeps

LEMMA FirstKeeps ==
    ASSUME SInv, NEW w \in Worker, First(w)
    PROVE  SInv'
<1> DEFINE head == peers[run[w].group].peer
           r == [run[w] EXCEPT !.pc = "copy", !.speer = head]
<1>1. /\ run[w].pc = "first" /\ run' = [run EXCEPT ![w] = r]
      /\ UNCHANGED << peers, made, mem, used, mutex, crashes >>
  BY DEF First, At, Call
<1>2. /\ run[w] \in CallsOf /\ AtHand(run[w]) /\ mutex # w
      /\ run[w].group <= made /\ run[w].rows <= run[w].size
  BY <1>1, AtCall DEF Section
<1>3. head \in Chunk \cup {Null}
  BY <1>2, Fields, Memory
<1> HIDE DEF head
<1>4. /\ r \in CallsOf /\ r.pc = "copy" /\ r.op = run[w].op
      /\ r.weight = run[w].weight /\ r.group = run[w].group
      /\ r.rows = run[w].rows /\ r.size = run[w].size
  BY <1>2, <1>3 DEF CallsOf, Pcs
<1> HIDE DEF r
<1>5. AtHand(r)
  BY <1>1, <1>2, <1>4 DEF AtHand
<1>6. r.pc \notin Section
  BY <1>4 DEF Section
<1> QED  BY <1>1, <1>2, <1>4, <1>5, <1>6, LocalStepKeeps

LEMMA CopyKeeps ==
    ASSUME SInv, NEW w \in Worker, Copy(w)
    PROVE  SInv'
<1> DEFINE next == mem[run[w].speer].next
           rows == run[w].rows + 1
           r == [run[w] EXCEPT !.rows = rows, !.speer = next]
<1>1. /\ run[w].pc = "copy" /\ run[w].speer # Null
      /\ run' = [run EXCEPT ![w] = r]
      /\ UNCHANGED << peers, made, mem, used, mutex, crashes >>
  BY DEF Copy, At, Call
<1>2. /\ run[w] \in CallsOf /\ AtHand(run[w]) /\ mutex # w
      /\ run[w].group <= made
  BY <1>1, AtCall DEF Section
<1>3. next \in Chunk \cup {Null}
  BY <1>1, <1>2, Fields, Memory
<1>4. rows \in Nat /\ rows <= run[w].size
  <2>1. run[w].rows \in Nat /\ run[w].size \in Nat
    BY <1>2, Fields
  <2>2. run[w].rows < run[w].size
    BY DEF Copy, Room
  <2> QED  BY <2>1, <2>2
<1> HIDE DEF next, rows
<1>5. /\ r \in CallsOf /\ r.pc = "copy" /\ r.op = run[w].op
      /\ r.weight = run[w].weight /\ r.group = run[w].group
      /\ r.rows = rows /\ r.size = run[w].size
  BY <1>1, <1>2, <1>3, <1>4 DEF CallsOf
<1> HIDE DEF r
<1>6. AtHand(r)
  BY <1>1, <1>2, <1>5 DEF AtHand
<1>7. r.pc \notin Section
  BY <1>5 DEF Section
<1> QED  BY <1>1, <1>2, <1>4, <1>5, <1>6, <1>7, LocalStepKeeps

LEMMA CopiedKeeps ==
    ASSUME SInv, NEW w \in Worker, Copied(w)
    PROVE  SInv'
<1> DEFINE next == peers[run[w].group].next
           r == [run[w] EXCEPT !.pc = "first", !.group = next, !.speer = Null]
<1>1. /\ run[w].pc = "copy"
      /\ UNCHANGED << peers, made, mem, used, mutex, crashes >>
  BY DEF Copied, At
<1>2. /\ run[w] \in CallsOf /\ AtHand(run[w]) /\ mutex # w
      /\ run[w].rows <= run[w].size
  BY <1>1, AtCall DEF Section
<1>3. CASE next = Null
  BY <1>1, <1>2, <1>3, FinishKeeps DEF Copied
<1>4. CASE next # Null
  <2>1. next \in Group /\ next <= made
    BY <1>2, <1>4, Fields, Memory
  <2>2. run' = [run EXCEPT ![w] = r]
    BY <1>4 DEF Copied, Call
  <2> HIDE DEF next
  <2>3. /\ r \in CallsOf /\ r.pc = "first" /\ r.op = run[w].op
        /\ r.weight = run[w].weight /\ r.group = next
        /\ r.rows = run[w].rows /\ r.size = run[w].size
    BY <1>2, <2>1 DEF CallsOf, Pcs
  <2> HIDE DEF r
  <2>4. AtHand(r)
    BY <1>1, <1>2, <2>3 DEF AtHand
  <2>5. r.pc \notin Section
    BY <2>3 DEF Section
  <2> QED  BY <1>1, <1>2, <2>1, <2>2, <2>3, <2>4, <2>5, LocalStepKeeps
<1> QED  BY <1>3, <1>4

-----------------------------------------------------------------------------
\* Taking and giving back the mutex.
LEMMA LockKeeps ==
    ASSUME SInv, NEW w \in Worker, Lock(w)
    PROVE  SInv'
<1> DEFINE pc == CASE run[w].op = "edit" -> "weigh"
                   [] MakesGroup(run[w])  -> "next group"
                   [] OTHER               -> "count"
           r == [run[w] EXCEPT !.pc = pc]
<1>1. /\ run[w].pc = "lock" /\ mutex = Null /\ mutex' = w
      /\ run' = [run EXCEPT ![w] = r]
      /\ UNCHANGED << peers, made, mem, used, crashes >>
  BY DEF Lock, At, CanLock, Goto
<1>2. /\ run[w] \in CallsOf /\ AtHand(run[w])
      /\ run[w].group <= made /\ run[w].rows <= run[w].size
  BY AtCall
<1>3. /\ run[w].op \in {"add", "del", "edit"}
      /\ run[w].speer = Null => run[w].op = "add" /\ run[w].group > 0
  BY <1>1, <1>2 DEF AtHand
<1>4. /\ pc \in {"weigh", "next group", "count"}
      /\ pc = "next group" => run[w].op = "add" /\ run[w].speer = Null
      /\ pc = "count" => run[w].op \in {"add", "del"} /\ run[w].speer # Null
      /\ pc = "weigh" => run[w].op = "edit"
  BY <1>3 DEF MakesGroup
<1> HIDE DEF pc
<1>5. pc \in Pcs /\ pc \in Section
  BY <1>4 DEF Pcs, Section
<1>6. /\ r \in CallsOf /\ r.pc = pc /\ r.op = run[w].op
      /\ r.weight = run[w].weight /\ r.group = run[w].group
      /\ r.speer = run[w].speer /\ r.rows = run[w].rows
      /\ r.size = run[w].size
  BY <1>2, <1>5, AtFields
<1> HIDE DEF r
<1>7. AtHand(r)
  BY <1>1, <1>2, <1>3, <1>4, <1>6 DEF AtHand
<1> QED  BY <1>1, <1>2, <1>5, <1>6, <1>7, MutexStepKeeps DEF SInv, Types

LEMMA UnlockKeeps ==
    ASSUME SInv, NEW w \in Worker, Unlock(w)
    PROVE  SInv'
<1> DEFINE r == AfterUnlock(run[w])
<1>1. /\ run[w].pc = "unlock" /\ mutex' = Null
      /\ run' = [run EXCEPT ![w] = r]
      /\ UNCHANGED << peers, made, mem, used, crashes >>
  BY DEF Unlock, At, Call
<1>2. /\ run[w] \in CallsOf /\ AtHand(run[w]) /\ mutex = w
      /\ run[w].group <= made /\ run[w].rows <= run[w].size
  BY <1>1, AtCall DEF Section
<1>3. run[w].op \in {"add", "del", "edit"}
  BY <1>1, <1>2 DEF AtHand
<1>4. r \in CallsOf /\ AtHand(r) /\ r.group <= made /\ r.rows <= r.size
      /\ r.pc \notin Section
  <2>1. CASE run[w].op = "add" /\ run[w].speer # Null
    <3>1. r = Idle
      BY <2>1 DEF AfterUnlock, MakesGroup
    <3>2. Idle.rows <= Idle.size /\ Idle.group <= made
      BY IdleCall, Memory
    <3>3. Idle.pc \notin Section
      BY IdleCall DEF Section
    <3> QED  BY <3>1, <3>2, <3>3, IdleCall
  <2>2. CASE run[w].op = "add" /\ run[w].speer = Null
    <3> DEFINE q == [run[w] EXCEPT !.pc = "group"]
    <3>1. r = q
      BY <2>2 DEF AfterUnlock, MakesGroup
    <3>2. "group" \in Pcs
      BY DEF Pcs
    <3>3. /\ q \in CallsOf /\ q.pc = "group" /\ q.op = "add"
          /\ q.weight = run[w].weight /\ q.group = run[w].group
          /\ q.speer = Null /\ q.rows = run[w].rows /\ q.size = run[w].size
      BY <1>2, <2>2, <3>2, AtFields
    <3> HIDE DEF q
    <3>4. AtHand(q)
      BY <1>1, <1>2, <2>2, <3>3 DEF AtHand
    <3>5. q.pc \notin Section
      BY <3>3 DEF Section
    <3> HIDE DEF r
    <3> QED  BY <1>2, <3>1, <3>3, <3>4, <3>5
  <2>3. CASE run[w].op = "del"
    <3> DEFINE back == run[w].pspeer
               q == [run[w] EXCEPT !.pc = "next", !.speer = back]
    <3>1. r = q
      BY <2>3 DEF AfterUnlock, MakesGroup
    <3>2. back \in Chunk \cup {Null}
      BY <1>2, Fields
    <3> HIDE DEF back
    <3>3. /\ q \in CallsOf /\ q.pc = "next" /\ q.op = "del"
          /\ q.group = run[w].group /\ q.rows = run[w].rows
          /\ q.size = run[w].size
      BY <1>2, <2>3, <3>2 DEF CallsOf, Pcs
    <3> HIDE DEF q
    <3>4. AtHand(q)
      BY <3>3 DEF AtHand
    <3>5. q.pc \notin Section
      BY <3>3 DEF Section
    <3> HIDE DEF r
    <3> QED  BY <1>2, <3>1, <3>3, <3>4, <3>5
  <2>4. CASE run[w].op = "edit"
    <3> DEFINE q == [run[w] EXCEPT !.pc = "next"]
    <3>1. r = q
      BY <2>4 DEF AfterUnlock, MakesGroup
    <3>2. "next" \in Pcs
      BY DEF Pcs
    <3>3. /\ q \in CallsOf /\ q.pc = "next" /\ q.op = "edit"
          /\ q.weight = run[w].weight /\ q.group = run[w].group
          /\ q.rows = run[w].rows /\ q.size = run[w].size
      BY <1>2, <2>4, <3>2, AtFields
    <3> HIDE DEF q
    <3>4. AtHand(q)
      BY <1>1, <1>2, <2>4, <3>3 DEF AtHand
    <3>5. q.pc \notin Section
      BY <3>3 DEF Section
    <3> HIDE DEF r
    <3> QED  BY <1>2, <3>1, <3>3, <3>4, <3>5
  <2> QED  BY <1>3, <2>1, <2>2, <2>3, <2>4
<1> HIDE DEF r
<1>5. Null # w
  BY Constants
<1> QED  BY <1>1, <1>2, <1>4, <1>5, MutexStepKeeps DEF SInv, Types

-----------------------------------------------------------------------------
\* A step that changes the shared memory.
LEMMA DataStepKeeps ==
    ASSUME SInv, NEW w \in Worker, NEW r \in CallsOf,
           run' = [run EXCEPT ![w] = r],
           peers' \in [Group -> GroupsOf], mem' \in [Chunk -> PeersOf],
           used' \subseteq Chunk,
           \A g \in Group : \/ peers'[g].next = peers[g].next
                            \/ peers'[g].next > 0 /\ peers'[g].next <= made,
           UNCHANGED << made, mutex, crashes >>,
           AtHand(r), r.group <= made, r.rows <= r.size,
           \/ mutex = w /\ r.pc \in Section
           \/ mutex # w /\ r.pc \notin Section
    PROVE  SInv'
<1>1. Types /\ Made
  BY DEF SInv
<1>2. /\ crashes' \in 0 .. MaxCrashes /\ made' \in 0 .. NewGroups
      /\ mutex' \in Worker \cup {Null}
  BY <1>1 DEF Types
<1>3. made <= made'
  BY <1>1, Constants DEF Types
<1>4. \A g \in Group : peers'[g].next # Null =>
         peers'[g].next > 0 /\ peers'[g].next <= made'
  BY <1>1 DEF Made
<1> QED  BY <1>2, <1>3, <1>4, CallStepKeeps

\* A step to the next statement that changes the shared memory.
LEMMA DataGotoKeeps ==
    ASSUME SInv, NEW w \in Worker, NEW pc \in Pcs, Goto(w, pc),
           peers' \in [Group -> GroupsOf], mem' \in [Chunk -> PeersOf],
           used' \subseteq Chunk,
           \A g \in Group : \/ peers'[g].next = peers[g].next
                            \/ peers'[g].next > 0 /\ peers'[g].next <= made,
           UNCHANGED << made, mutex, crashes >>,
           AtHand([run[w] EXCEPT !.pc = pc]),
           \/ run[w].pc \in Section /\ pc \in Section
           \/ run[w].pc \notin Section \cup {"dead"} /\ pc \notin Section
    PROVE  SInv'
<1> DEFINE r == [run[w] EXCEPT !.pc = pc]
<1>1. /\ run[w] \in CallsOf /\ run[w].group <= made
      /\ run[w].rows <= run[w].size
      /\ run[w].pc \in Section => mutex = w
      /\ mutex = w => run[w].pc \in Section \cup {"dead"}
  BY AtCall
<1>2. run' = [run EXCEPT ![w] = r]
  BY DEF Goto
<1>3. /\ r \in CallsOf /\ r.pc = pc /\ r.group = run[w].group
      /\ r.rows = run[w].rows /\ r.size = run[w].size
  BY <1>1, AtFields
<1>4. AtHand(r)
  OBVIOUS
<1> HIDE DEF r
<1>5. \/ mutex = w /\ r.pc \in Section
      \/ mutex # w /\ r.pc \notin Section
  BY <1>1, <1>3
<1> QED  BY <1>1, <1>2, <1>3, <1>4, <1>5, DataStepKeeps

\* The field of a group, or of a chunk, that a step assigns.
LEMMA SetGroup ==
    ASSUME SInv, NEW g \in Group
    PROVE  /\ \A p \in Chunk \cup {Null} :
                 [peers EXCEPT ![g].peer = p] \in [Group -> GroupsOf]
           /\ \A n \in 0 .. UintMod - 1 :
                 [peers EXCEPT ![g].number = n] \in [Group -> GroupsOf]
           /\ \A n \in 0 .. UintMod - 1 :
                 [peers EXCEPT ![g].total_weight = n] \in [Group -> GroupsOf]
           /\ \A h \in Group :
                 [peers EXCEPT ![g].next = h] \in [Group -> GroupsOf]
<1>1. peers \in [Group -> GroupsOf] /\ peers[g] \in GroupsOf
  BY DEF SInv, Types
<1>2. /\ \A p \in Chunk \cup {Null} : [peers[g] EXCEPT !.peer = p] \in GroupsOf
      /\ \A n \in 0 .. UintMod - 1 :
            [peers[g] EXCEPT !.number = n] \in GroupsOf
      /\ \A n \in 0 .. UintMod - 1 :
            [peers[g] EXCEPT !.total_weight = n] \in GroupsOf
      /\ \A h \in Group : [peers[g] EXCEPT !.next = h] \in GroupsOf
  BY <1>1 DEF GroupsOf
<1> QED  BY <1>1, <1>2

LEMMA KeepsNext ==
    ASSUME SInv, NEW g \in Group, NEW h \in Group
    PROVE  /\ \A p : [peers EXCEPT ![g].peer = p][h].next = peers[h].next
           /\ \A n : [peers EXCEPT ![g].number = n][h].next = peers[h].next
           /\ \A n : [peers EXCEPT ![g].total_weight = n][h].next
                        = peers[h].next
<1>1. peers \in [Group -> GroupsOf] /\ peers[g] \in GroupsOf
  BY DEF SInv, Types
<1> QED  BY <1>1 DEF GroupsOf

LEMMA SetChunk ==
    ASSUME SInv, NEW c \in Chunk
    PROVE  /\ \A p \in Chunk \cup {Null} :
                 [mem EXCEPT ![c].next = p] \in [Chunk -> PeersOf]
           /\ \A n \in Weights :
                 [mem EXCEPT ![c].weight = n] \in [Chunk -> PeersOf]
           /\ \A n \in Weights, a \in Name \cup {NoName} :
                 [mem EXCEPT ![c].name = a, ![c].weight = n]
                    \in [Chunk -> PeersOf]
<1>1. mem \in [Chunk -> PeersOf] /\ mem[c] \in PeersOf
  BY DEF SInv, Types
<1>2. /\ \A p \in Chunk \cup {Null} : [mem[c] EXCEPT !.next = p] \in PeersOf
      /\ \A n \in Weights : [mem[c] EXCEPT !.weight = n] \in PeersOf
      /\ \A a \in Name \cup {NoName} : [mem[c] EXCEPT !.name = a] \in PeersOf
  BY <1>1 DEF PeersOf
<1>3. ASSUME NEW n \in Weights, NEW a \in Name \cup {NoName}
      PROVE  [mem EXCEPT ![c].name = a, ![c].weight = n] \in [Chunk -> PeersOf]
  <2> DEFINE named == [mem EXCEPT ![c].name = a]
  <2>1. named \in [Chunk -> PeersOf] /\ named[c] \in PeersOf
    BY <1>1, <1>2
  <2> HIDE DEF named
  <2>2. [named[c] EXCEPT !.weight = n] \in PeersOf
    BY <2>1 DEF PeersOf
  <2>3. [named EXCEPT ![c].weight = n] \in [Chunk -> PeersOf]
    BY <2>1, <2>2
  <2> QED  BY <2>3 DEF named
<1> QED  BY <1>1, <1>2, <1>3

\* The statements of the critical sections.
LEMMA CountKeeps ==
    ASSUME SInv, NEW w \in Worker, Count(w)
    PROVE  SInv'
<1> DEFINE n == Uint(IF run[w].op = "add" THEN peers[run[w].group].number + 1
                     ELSE peers[run[w].group].number - 1)
           r == [run[w] EXCEPT !.pc = "weigh"]
<1>1. /\ run[w].pc = "count" /\ Goto(w, "weigh")
      /\ peers' = [peers EXCEPT ![run[w].group].number = n]
      /\ UNCHANGED << made, mem, used, mutex, crashes >>
  BY DEF Count, At
<1>2. run[w] \in CallsOf /\ AtHand(run[w]) /\ run[w].group \in Group
  BY AtCall, Fields
<1>3. n \in 0 .. UintMod - 1
  <2>1. peers[run[w].group].number \in Nat /\ UintMod \in Nat \ {0}
    BY <1>2, Memory, Constants
  <2> QED  BY <2>1 DEF Uint
<1> HIDE DEF n
<1>4. AtHand(r)
  <2>1. "weigh" \in Pcs
    BY DEF Pcs, Section
  <2>2. /\ r.pc = "weigh" /\ r.op = run[w].op /\ r.speer = run[w].speer
        /\ r.weight = run[w].weight /\ r.group = run[w].group
    BY <1>2, <2>1, AtFields
  <2> HIDE DEF r
  <2> QED  BY <1>1, <1>2, <2>2 DEF AtHand
<1>5. /\ peers' \in [Group -> GroupsOf]
      /\ \A g \in Group : peers'[g].next = peers[g].next
  BY <1>1, <1>2, <1>3, SetGroup, KeepsNext
<1>6. mem' \in [Chunk -> PeersOf] /\ used' \subseteq Chunk
  BY <1>1 DEF SInv, Types
<1>7. "weigh" \in Pcs /\ run[w].pc \in Section /\ "weigh" \in Section
  BY <1>1 DEF Pcs, Section
<1> QED  BY <1>1, <1>4, <1>5, <1>6, <1>7, DataGotoKeeps

LEMMA WeighKeeps ==
    ASSUME SInv, NEW w \in Worker, Weigh(w)
    PROVE  SInv'
<1> DEFINE n == Uint(Weight(run[w], peers[run[w].group].total_weight))
           pc == CASE run[w].op = "add"  -> "point"
                   [] run[w].op = "del"  -> "unlink"
                   [] run[w].op = "edit" -> "set"
           r == [run[w] EXCEPT !.pc = pc]
<1>1. /\ run[w].pc = "weigh" /\ Goto(w, pc)
      /\ peers' = [peers EXCEPT ![run[w].group].total_weight = n]
      /\ UNCHANGED << made, mem, used, mutex, crashes >>
  BY DEF Weigh, At
<1>2. /\ run[w] \in CallsOf /\ AtHand(run[w]) /\ run[w].group \in Group
      /\ run[w].op \in {"add", "del", "edit"} /\ run[w].speer \in Chunk
  BY <1>1, AtCall, Fields DEF AtHand
<1>3. n \in 0 .. UintMod - 1
  <2>1. peers[run[w].group] \in GroupsOf /\ mem[run[w].speer] \in PeersOf
    BY <1>2 DEF SInv, Types
  <2>2. /\ peers[run[w].group].total_weight \in 0 .. UintMod - 1
        /\ mem[run[w].speer].weight \in Weights \cup {0, 1}
    BY <2>1 DEF GroupsOf, PeersOf
  <2>3. /\ peers[run[w].group].total_weight \in Int
        /\ mem[run[w].speer].weight \in Int /\ run[w].weight \in Int
        /\ UintMod \in Nat \ {0}
    <3>1. /\ Weights \cup {0} \subseteq Int /\ Weights \cup {0, 1} \subseteq Int
          /\ 0 .. UintMod - 1 \subseteq Int /\ UintMod \in Nat \ {0}
      BY Constants
    <3>2. run[w].weight \in Weights \cup {0}
      BY <1>2, Fields
    <3> QED  BY <2>2, <3>1, <3>2
  <2>4. Weight(run[w], peers[run[w].group].total_weight) \in Int
    BY <1>2, <2>3 DEF Weight
  <2> QED  BY <2>3, <2>4 DEF Uint
<1> HIDE DEF n
<1>4. /\ pc \in {"point", "unlink", "set"}
      /\ pc = "point" => run[w].op = "add"
      /\ pc = "unlink" => run[w].op = "del"
      /\ pc = "set" => run[w].op = "edit"
  BY <1>2
<1> HIDE DEF pc
<1>5. pc \in Pcs /\ run[w].pc \in Section /\ pc \in Section
  BY <1>1, <1>4 DEF Pcs, Section
<1>6. AtHand(r)
  <2>1. /\ r.pc = pc /\ r.op = run[w].op /\ r.speer = run[w].speer
        /\ r.weight = run[w].weight /\ r.group = run[w].group
    BY <1>2, <1>5, AtFields
  <2> HIDE DEF r
  <2> QED  BY <1>1, <1>2, <1>4, <2>1 DEF AtHand
<1>7. /\ peers' \in [Group -> GroupsOf]
      /\ \A g \in Group : peers'[g].next = peers[g].next
  BY <1>1, <1>2, <1>3, SetGroup, KeepsNext
<1>8. mem' \in [Chunk -> PeersOf] /\ used' \subseteq Chunk
  BY <1>1 DEF SInv, Types
<1> QED  BY <1>1, <1>5, <1>6, <1>7, <1>8, DataGotoKeeps

LEMMA LinkKeeps ==
    ASSUME SInv, NEW w \in Worker, Link(w)
    PROVE  SInv'
<1> DEFINE r == [run[w] EXCEPT !.pc = "unlock"]
<1>1. /\ run[w].pc = "link" /\ Goto(w, "unlock")
      /\ peers' = [peers EXCEPT ![run[w].group].peer = run[w].speer]
      /\ UNCHANGED << made, mem, used, mutex, crashes >>
  BY DEF Link, At
<1>2. /\ run[w] \in CallsOf /\ AtHand(run[w]) /\ run[w].group \in Group
      /\ run[w].speer \in Chunk \cup {Null}
  BY AtCall, Fields
<1>3. AtHand(r)
  <2>1. "unlock" \in Pcs
    BY DEF Pcs, Section
  <2>2. /\ r.pc = "unlock" /\ r.op = run[w].op /\ r.speer = run[w].speer
        /\ r.weight = run[w].weight /\ r.group = run[w].group
    BY <1>2, <2>1, AtFields
  <2> HIDE DEF r
  <2> QED  BY <1>1, <1>2, <2>2 DEF AtHand
<1>4. /\ peers' \in [Group -> GroupsOf]
      /\ \A g \in Group : peers'[g].next = peers[g].next
  BY <1>1, <1>2, SetGroup, KeepsNext
<1>5. mem' \in [Chunk -> PeersOf] /\ used' \subseteq Chunk
  BY <1>1 DEF SInv, Types
<1>6. "unlock" \in Pcs /\ run[w].pc \in Section /\ "unlock" \in Section
  BY <1>1 DEF Pcs, Section
<1> QED  BY <1>1, <1>3, <1>4, <1>5, <1>6, DataGotoKeeps

LEMMA NextGroupKeeps ==
    ASSUME SInv, NEW w \in Worker, NextGroup(w)
    PROVE  SInv'
<1> DEFINE r == [run[w] EXCEPT !.pc = "unlock"]
<1>1. /\ run[w].pc = "next group" /\ Goto(w, "unlock")
      /\ peers' = [peers EXCEPT ![0].next = run[w].group]
      /\ UNCHANGED << made, mem, used, mutex, crashes >>
  BY DEF NextGroup, At
<1>2. /\ run[w] \in CallsOf /\ AtHand(run[w]) /\ run[w].group \in Group
      /\ run[w].group > 0 /\ run[w].group <= made /\ 0 \in Group
  BY <1>1, AtCall, Fields, Memory DEF AtHand
<1>3. AtHand(r)
  <2>1. "unlock" \in Pcs
    BY DEF Pcs, Section
  <2>2. /\ r.pc = "unlock" /\ r.op = run[w].op /\ r.speer = run[w].speer
        /\ r.weight = run[w].weight /\ r.group = run[w].group
    BY <1>2, <2>1, AtFields
  <2> HIDE DEF r
  <2> QED  BY <1>1, <1>2, <2>2 DEF AtHand
<1>4. peers' \in [Group -> GroupsOf]
  BY <1>1, <1>2, SetGroup
<1>5. \A g \in Group : \/ peers'[g].next = peers[g].next
                       \/ peers'[g].next > 0 /\ peers'[g].next <= made
  <2>1. peers \in [Group -> GroupsOf] /\ peers[0] \in GroupsOf
    BY <1>2 DEF SInv, Types
  <2>2. [peers[0] EXCEPT !.next = run[w].group].next = run[w].group
    BY <2>1 DEF GroupsOf
  <2> QED  BY <1>1, <1>2, <2>1, <2>2
<1>6. mem' \in [Chunk -> PeersOf] /\ used' \subseteq Chunk
  BY <1>1 DEF SInv, Types
<1>7. "unlock" \in Pcs /\ run[w].pc \in Section /\ "unlock" \in Section
  BY <1>1 DEF Pcs, Section
<1> QED  BY <1>1, <1>3, <1>4, <1>5, <1>6, <1>7, DataGotoKeeps

LEMMA FillKeeps ==
    ASSUME SInv, NEW w \in Worker, Fill(w)
    PROVE  SInv'
<1> DEFINE r == [run[w] EXCEPT !.pc = "lock"]
<1>1. /\ run[w].pc = "fill" /\ Goto(w, "lock")
      /\ mem' = [mem EXCEPT ![run[w].speer].name = run[w].want,
                          ![run[w].speer].weight = run[w].weight]
      /\ UNCHANGED << peers, made, used, mutex, crashes >>
  BY DEF Fill, At
<1>2. /\ run[w] \in CallsOf /\ AtHand(run[w])
      /\ run[w].speer \in Chunk /\ run[w].weight \in Weights
      /\ run[w].want \in Name \cup {NoName}
  BY <1>1, AtCall, Fields DEF AtHand
<1>3. AtHand(r)
  <2>1. "lock" \in Pcs
    BY DEF Pcs, Section
  <2>2. /\ r.pc = "lock" /\ r.op = run[w].op /\ r.speer = run[w].speer
        /\ r.weight = run[w].weight /\ r.group = run[w].group
    BY <1>2, <2>1, AtFields
  <2> HIDE DEF r
  <2> QED  BY <1>1, <1>2, <2>2 DEF AtHand
<1>4. mem' \in [Chunk -> PeersOf] /\ used' \subseteq Chunk
  BY <1>1, <1>2, SetChunk DEF SInv, Types
<1>5. /\ peers' \in [Group -> GroupsOf]
      /\ \A g \in Group : peers'[g].next = peers[g].next
  BY <1>1 DEF SInv, Types
<1>6. "lock" \in Pcs
  BY DEF Pcs, Section
<1>7. run[w].pc \notin Section \cup {"dead"} /\ "lock" \notin Section
  BY <1>1 DEF Section
<1> QED  BY <1>1, <1>3, <1>4, <1>5, <1>6, <1>7, DataGotoKeeps

LEMMA PointKeeps ==
    ASSUME SInv, NEW w \in Worker, Point(w)
    PROVE  SInv'
<1> DEFINE r == [run[w] EXCEPT !.pc = "link"]
<1>1. /\ run[w].pc = "point" /\ Goto(w, "link")
      /\ mem' = [mem EXCEPT ![run[w].speer].next = peers[run[w].group].peer]
      /\ UNCHANGED << peers, made, used, mutex, crashes >>
  BY DEF Point, At
<1>2. /\ run[w] \in CallsOf /\ AtHand(run[w])
      /\ run[w].speer \in Chunk
      /\ peers[run[w].group].peer \in Chunk \cup {Null}
  BY <1>1, AtCall, Fields, Memory DEF AtHand
<1>3. AtHand(r)
  <2>1. "link" \in Pcs
    BY DEF Pcs, Section
  <2>2. /\ r.pc = "link" /\ r.op = run[w].op /\ r.speer = run[w].speer
        /\ r.weight = run[w].weight /\ r.group = run[w].group
    BY <1>2, <2>1, AtFields
  <2> HIDE DEF r
  <2> QED  BY <1>1, <1>2, <2>2 DEF AtHand
<1>4. mem' \in [Chunk -> PeersOf] /\ used' \subseteq Chunk
  BY <1>1, <1>2, SetChunk DEF SInv, Types
<1>5. /\ peers' \in [Group -> GroupsOf]
      /\ \A g \in Group : peers'[g].next = peers[g].next
  BY <1>1 DEF SInv, Types
<1>6. "link" \in Pcs
  BY DEF Pcs, Section
<1>7. run[w].pc \in Section /\ "link" \in Section
  BY <1>1 DEF Section
<1> QED  BY <1>1, <1>3, <1>4, <1>5, <1>6, <1>7, DataGotoKeeps

LEMMA SetWeightKeeps ==
    ASSUME SInv, NEW w \in Worker, SetWeight(w)
    PROVE  SInv'
<1> DEFINE r == [run[w] EXCEPT !.pc = "unlock"]
<1>1. /\ run[w].pc = "set" /\ Goto(w, "unlock")
      /\ mem' = [mem EXCEPT ![run[w].speer].weight = run[w].weight]
      /\ UNCHANGED << peers, made, used, mutex, crashes >>
  BY DEF SetWeight, At
<1>2. /\ run[w] \in CallsOf /\ AtHand(run[w])
      /\ run[w].speer \in Chunk /\ run[w].weight \in Weights
  BY <1>1, AtCall, Fields DEF AtHand
<1>3. AtHand(r)
  <2>1. "unlock" \in Pcs
    BY DEF Pcs, Section
  <2>2. /\ r.pc = "unlock" /\ r.op = run[w].op /\ r.speer = run[w].speer
        /\ r.weight = run[w].weight /\ r.group = run[w].group
    BY <1>2, <2>1, AtFields
  <2> HIDE DEF r
  <2> QED  BY <1>1, <1>2, <2>2 DEF AtHand
<1>4. mem' \in [Chunk -> PeersOf] /\ used' \subseteq Chunk
  BY <1>1, <1>2, SetChunk DEF SInv, Types
<1>5. /\ peers' \in [Group -> GroupsOf]
      /\ \A g \in Group : peers'[g].next = peers[g].next
  BY <1>1 DEF SInv, Types
<1>6. "unlock" \in Pcs
  BY DEF Pcs, Section
<1>7. run[w].pc \in Section /\ "unlock" \in Section
  BY <1>1 DEF Section
<1> QED  BY <1>1, <1>3, <1>4, <1>5, <1>6, <1>7, DataGotoKeeps

LEMMA UnlinkOtherKeeps ==
    ASSUME SInv, NEW w \in Worker, UnlinkOther(w)
    PROVE  SInv'
<1> DEFINE r == [run[w] EXCEPT !.pc = "free"]
<1>1. /\ run[w].pc = "unlink" /\ Goto(w, "free")
      /\ mem' = [mem EXCEPT ![run[w].pspeer].next = mem[run[w].speer].next]
      /\ UNCHANGED << peers, made, used, mutex, crashes >>
  BY DEF UnlinkOther, At
<1>2. /\ run[w] \in CallsOf /\ AtHand(run[w])
      /\ run[w].speer \in Chunk /\ run[w].pspeer \in Chunk \cup {Null}
      /\ mem[run[w].speer].next \in Chunk \cup {Null}
  BY <1>1, AtCall, Fields, Memory DEF AtHand
<1>3. AtHand(r)
  <2>1. "free" \in Pcs
    BY DEF Pcs, Section
  <2>2. /\ r.pc = "free" /\ r.op = run[w].op /\ r.speer = run[w].speer
        /\ r.weight = run[w].weight /\ r.group = run[w].group
    BY <1>2, <2>1, AtFields
  <2> HIDE DEF r
  <2> QED  BY <1>1, <1>2, <2>2 DEF AtHand
<1>4. mem' \in [Chunk -> PeersOf] /\ used' \subseteq Chunk
  <2>1. CASE run[w].pspeer \in Chunk
    BY <1>1, <1>2, <2>1, SetChunk DEF SInv, Types
  <2>2. CASE run[w].pspeer = Null
    <3>1. mem' = mem
      BY <1>1, <2>2, Constants DEF SInv, Types
    <3> QED  BY <1>1, <3>1 DEF SInv, Types
  <2> QED  BY <1>2, <2>1, <2>2
<1>5. /\ peers' \in [Group -> GroupsOf]
      /\ \A g \in Group : peers'[g].next = peers[g].next
  BY <1>1 DEF SInv, Types
<1>6. "free" \in Pcs
  BY DEF Pcs, Section
<1>7. run[w].pc \in Section /\ "free" \in Section
  BY <1>1 DEF Section
<1> QED  BY <1>1, <1>3, <1>4, <1>5, <1>6, <1>7, DataGotoKeeps

LEMMA FreeKeeps ==
    ASSUME SInv, NEW w \in Worker, Free(w)
    PROVE  SInv'
<1> DEFINE r == [run[w] EXCEPT !.pc = "unlock"]
<1>1. /\ run[w].pc = "free" /\ Goto(w, "unlock")
      /\ used' = used \ {run[w].speer}
      /\ UNCHANGED << peers, made, mem, mutex, crashes >>
  BY DEF Free, At
<1>2. /\ run[w] \in CallsOf /\ AtHand(run[w])
      /\ run[w].op = "del" /\ run[w].speer # Null
  BY <1>1, AtCall DEF AtHand
<1>3. AtHand(r)
  <2>1. "unlock" \in Pcs
    BY DEF Pcs, Section
  <2>2. /\ r.pc = "unlock" /\ r.op = run[w].op /\ r.speer = run[w].speer
        /\ r.weight = run[w].weight /\ r.group = run[w].group
    BY <1>2, <2>1, AtFields
  <2> HIDE DEF r
  <2> QED  BY <1>1, <1>2, <2>2 DEF AtHand
<1>4. mem' \in [Chunk -> PeersOf] /\ used' \subseteq Chunk
  BY <1>1 DEF SInv, Types
<1>5. /\ peers' \in [Group -> GroupsOf]
      /\ \A g \in Group : peers'[g].next = peers[g].next
  BY <1>1 DEF SInv, Types
<1>6. "unlock" \in Pcs
  BY DEF Pcs, Section
<1>7. run[w].pc \in Section /\ "unlock" \in Section
  BY <1>1 DEF Section
<1> QED  BY <1>1, <1>3, <1>4, <1>5, <1>6, <1>7, DataGotoKeeps

LEMMA UnlinkFirstKeeps ==
    ASSUME SInv, NEW w \in Worker, UnlinkFirst(w)
    PROVE  SInv'
<1> DEFINE second == mem[run[w].speer].next
           r == [run[w] EXCEPT !.pc = "free", !.pspeer = second]
<1>1. /\ run[w].pc = "unlink" /\ run' = [run EXCEPT ![w] = r]
      /\ peers' = [peers EXCEPT ![run[w].group].peer = second]
      /\ UNCHANGED << made, mem, used, mutex, crashes >>
  BY DEF UnlinkFirst, At, Call
<1>2. /\ run[w] \in CallsOf /\ AtHand(run[w]) /\ run[w].group \in Group
      /\ mutex = w /\ run[w].group <= made /\ run[w].rows <= run[w].size
      /\ run[w].op = "del" /\ run[w].speer \in Chunk
  BY <1>1, AtCall, Fields DEF AtHand, Section
<1>3. second \in Chunk \cup {Null}
  BY <1>2, Memory
<1> HIDE DEF second
<1>4. /\ r \in CallsOf /\ r.pc = "free" /\ r.op = run[w].op
      /\ r.weight = run[w].weight /\ r.group = run[w].group
      /\ r.speer = run[w].speer /\ r.rows = run[w].rows
      /\ r.size = run[w].size
  BY <1>2, <1>3 DEF CallsOf, Pcs, Section
<1> HIDE DEF r
<1>5. AtHand(r)
  BY <1>1, <1>2, <1>4, Constants DEF AtHand
<1>6. /\ peers' \in [Group -> GroupsOf]
      /\ \A g \in Group : peers'[g].next = peers[g].next
  BY <1>1, <1>2, <1>3, SetGroup, KeepsNext
<1>7. mem' \in [Chunk -> PeersOf] /\ used' \subseteq Chunk
  BY <1>1 DEF SInv, Types
<1>8. r.pc \in Section
  BY <1>4 DEF Section
<1> QED  BY <1>1, <1>2, <1>4, <1>5, <1>6, <1>7, <1>8, DataStepKeeps

\* A peer is allocated.
LEMMA AllocKeeps ==
    ASSUME SInv, NEW w \in Worker, Alloc(w)
    PROVE  SInv'
<1>1. PICK c \in Chunk :
         /\ used' = used \cup {c}
         /\ mem' = [mem EXCEPT ![c] = [next |-> Null, name |-> NoName,
                                       weight |-> 0]]
         /\ Call(w, [run[w] EXCEPT !.pc = "fill", !.speer = c])
  BY DEF Alloc
<1> DEFINE r == [run[w] EXCEPT !.pc = "fill", !.speer = c]
<1>2. /\ run[w].pc = "alloc" /\ run' = [run EXCEPT ![w] = r]
      /\ UNCHANGED << peers, made, mutex, crashes >>
  BY <1>1 DEF Alloc, At, Call
<1>3. /\ run[w] \in CallsOf /\ AtHand(run[w]) /\ mutex # w
      /\ run[w].op = "add" /\ run[w].group <= made
      /\ run[w].rows <= run[w].size
  BY <1>2, AtCall DEF AtHand, Section
<1>4. /\ r \in CallsOf /\ r.pc = "fill" /\ r.op = run[w].op
      /\ r.weight = run[w].weight /\ r.group = run[w].group
      /\ r.speer = c /\ r.rows = run[w].rows /\ r.size = run[w].size
  BY <1>3 DEF CallsOf, Pcs
<1> HIDE DEF r
<1>5. AtHand(r)
  BY <1>2, <1>3, <1>4, Constants DEF AtHand
<1>6. /\ peers' \in [Group -> GroupsOf]
      /\ \A g \in Group : peers'[g].next = peers[g].next
  BY <1>2 DEF SInv, Types
<1>7. mem' \in [Chunk -> PeersOf] /\ used' \subseteq Chunk
  <2>1. [next |-> Null, name |-> NoName, weight |-> 0] \in PeersOf
    BY DEF PeersOf
  <2> QED  BY <1>1, <2>1 DEF SInv, Types
<1>8. r.pc \notin Section
  BY <1>4 DEF Section
<1> QED  BY <1>2, <1>3, <1>4, <1>5, <1>6, <1>7, <1>8, DataStepKeeps

-----------------------------------------------------------------------------
\* A worker dies in its critical section, and the master puts another in its
\* place.
LEMMA CrashKeeps ==
    ASSUME SInv, NEW w \in Worker, Crash(w)
    PROVE  SInv'
<1>1. /\ run' = [run EXCEPT ![w] = Dead] /\ crashes' = crashes + 1
      /\ crashes < MaxCrashes
      /\ UNCHANGED << peers, made, mem, used, mutex >>
  BY DEF Crash, Call
<1>2. crashes' \in 0 .. MaxCrashes
  <2>1. MaxCrashes \in Nat
    BY ShmAssumption
  <2>2. crashes \in 0 .. MaxCrashes
    BY DEF SInv, Types
  <2> QED  BY <1>1, <2>1, <2>2
<1>3. Dead.group <= made
  BY DeadCall, Memory
<1> QED  BY <1>1, <1>2, <1>3, DeadCall, MutexStepKeeps

LEMMA RespawnKeeps ==
    ASSUME SInv, NEW w \in Worker, Respawn(w)
    PROVE  SInv'
<1>1. /\ run[w].pc = "dead" /\ run' = [run EXCEPT ![w] = Idle]
      /\ mutex' = IF mutex = w THEN Null ELSE mutex
      /\ UNCHANGED << peers, made, mem, used, crashes >>
  BY DEF Respawn, At, Finish, Call
<1>2. /\ Idle.group <= made /\ Idle.rows <= Idle.size
      /\ Idle.pc \notin Section
  BY IdleCall, Memory DEF Section
<1>3. CASE mutex = w
  BY <1>1, <1>2, <1>3, IdleCall, MutexStepKeeps DEF SInv, Types
<1>4. CASE mutex # w
  BY <1>1, <1>2, <1>4, IdleCall, LocalStepKeeps
<1> QED  BY <1>3, <1>4

-----------------------------------------------------------------------------
LEMMA InitHolds == Init => SInv
<1> SUFFICES ASSUME Init PROVE SInv
  OBVIOUS
<1> DEFINE n == Len(Configured)
           b == Len(Backups)
           primary == [peer |-> 1, number |-> n, total_weight |-> n,
                       next |-> IF b = 0 THEN Null ELSE 1]
           backup  == [NoPeers EXCEPT !.peer = n + 1, !.number = b,
                                      !.total_weight = b]
<1>1. /\ n \in Nat \ {0} /\ b \in Nat /\ n + b <= Chunks /\ Chunks \in Nat
      /\ n \in 0 .. UintMod - 1 /\ b \in 0 .. UintMod - 1
      /\ 1 \in Chunk /\ (b > 0 => n + 1 \in Chunk)
      /\ 0 \in 0 .. UintMod - 1
  <2>1. /\ Configured \in Seq(Name) /\ Backups \in Seq(Name)
        /\ n > 0 /\ n + b <= Chunks /\ Chunks \in Nat
        /\ UintMod \in Nat /\ UintMod > Chunks
    BY ShmAssumption
  <2>2. n \in Nat /\ b \in Nat
    BY <2>1
  <2> HIDE DEF n, b
  <2> QED  BY <2>1, <2>2 DEF Chunk
<1>2. NewGroups \in Nat \ {0} /\ 0 \in Group /\ 1 \in Group
  BY Constants
<1>3. peers = [g \in Group |-> IF g = 0 THEN primary
                               ELSE IF g = 1 /\ b > 0 THEN backup
                               ELSE NoPeers]
  BY DEF Init
<1>4. /\ made = IF b = 0 THEN 0 ELSE 1
      /\ used = 1 .. n + b /\ mutex = Null /\ crashes = 0
      /\ run = [w \in Worker |-> Idle]
  BY DEF Init
<1>5. mem = [c \in Chunk |->
               IF c > n + b
               THEN [next |-> Null, name |-> NoName, weight |-> 0]
               ELSE [next |-> IF c \in {n, n + b} THEN Null ELSE c + 1,
                     name |-> (Configured \o Backups)[c], weight |-> 1]]
  BY DEF Init
<1>6. \A c \in Chunk : c <= n + b => (Configured \o Backups)[c] \in Name
  <2>1. Configured \o Backups \in Seq(Name)
        /\ Len(Configured \o Backups) = n + b
    BY ShmAssumption
  <2> QED  BY <1>1, <2>1 DEF Chunk
<1> HIDE DEF n, b
<1>7. primary \in GroupsOf
  BY <1>1, <1>2 DEF GroupsOf
<1>8. NoPeers \in GroupsOf /\ NoPeers.next = Null
  BY <1>1 DEF GroupsOf, NoPeers
<1>9. ASSUME b > 0 PROVE backup \in GroupsOf /\ backup.next = Null
  <2>1. n + 1 \in Chunk /\ b \in 0 .. UintMod - 1
    BY <1>1, <1>9
  <2> QED  BY <1>8, <2>1 DEF GroupsOf
<1>10. primary.next # Null => b > 0 /\ primary.next = 1
  BY <1>1
<1> HIDE DEF primary, backup
<1>11. peers \in [Group -> GroupsOf]
  <2>1. \A g \in Group : (IF g = 0 THEN primary
                          ELSE IF g = 1 /\ b > 0 THEN backup
                          ELSE NoPeers) \in GroupsOf
    BY <1>7, <1>8, <1>9
  <2> QED  BY <1>3, <2>1
<1>12. mem \in [Chunk -> PeersOf]
  <2> SUFFICES ASSUME NEW c \in Chunk
               PROVE  (IF c > n + b
                       THEN [next |-> Null, name |-> NoName, weight |-> 0]
                       ELSE [next |-> IF c \in {n, n + b} THEN Null ELSE c + 1,
                             name |-> (Configured \o Backups)[c], weight |-> 1])
                         \in PeersOf
    BY <1>5
  <2>1. CASE c > n + b
    BY <2>1 DEF PeersOf
  <2>2. CASE ~(c > n + b)
    <3> DEFINE next == IF c \in {n, n + b} THEN Null ELSE c + 1
               name == (Configured \o Backups)[c]
    <3>1. c \in Nat /\ c <= n + b
      BY <1>1, <2>2 DEF Chunk
    <3>2. next \in Chunk \cup {Null}
      BY <1>1, <3>1 DEF Chunk
    <3>3. name \in Name
      BY <1>6, <3>1
    <3> HIDE DEF next, name
    <3>4. [next |-> next, name |-> name, weight |-> 1] \in PeersOf
      BY <3>2, <3>3 DEF PeersOf
    <3> QED  BY <2>2, <3>4 DEF next, name
  <2> QED  BY <2>1, <2>2
<1>13. Types
  <2>1. made \in 0 .. NewGroups /\ crashes \in 0 .. MaxCrashes
    <3>1. MaxCrashes \in Nat
      BY ShmAssumption
    <3> QED  BY <1>2, <1>4, <3>1
  <2>2. used \subseteq Chunk
    BY <1>1, <1>4 DEF Chunk
  <2>3. run \in [Worker -> CallsOf]
    BY <1>4, IdleCall
  <2> QED  BY <1>4, <1>11, <1>12, <2>1, <2>2, <2>3 DEF Types
<1>14. \A w \in Worker : run[w] = Idle
  BY <1>4
<1>15. Made
  <2>1. 0 <= made
    BY <1>4
  <2>2. \A w \in Worker : run[w].group <= made
    BY <1>14, <2>1, IdleCall
  <2>3. \A g \in Group : peers[g].next # Null => b > 0 /\ peers[g].next = 1
    BY <1>3, <1>8, <1>9, <1>10
  <2>4. b > 0 => made = 1
    BY <1>1, <1>4
  <2> QED  BY <2>2, <2>3, <2>4 DEF Made
<1>16. Holder
  BY <1>4, <1>14, IdleCall, Constants DEF Holder, Section
<1>17. NoOverrun
  BY <1>14, IdleCall DEF NoOverrun
<1> QED  BY <1>13, <1>14, <1>15, <1>16, <1>17, IdleCall DEF SInv

LEMMA NextKeeps == SInv /\ [Next]_vars => SInv'
<1> SUFFICES ASSUME SInv, [Next]_vars PROVE SInv'
  OBVIOUS
<1>1. CASE UNCHANGED vars
  BY <1>1 DEF vars, SInv, Types, Made, Holder, NoOverrun
<1>2. ASSUME NEW w \in Worker, Begin(w) \/ CallStep(w) \/ Crash(w)
      PROVE  SInv'
  <2>1. CASE Begin(w)
    BY <2>1, BeginKeeps
  <2>2. CASE Crash(w)
    BY <2>2, CrashKeeps
  <2>3. CASE Walk(w) \/ Advance(w) \/ Check(w) \/ Lock(w) \/ Unlock(w)
    BY <2>3, WalkKeeps, AdvanceKeeps, CheckKeeps, LockKeeps, UnlockKeeps
  <2>4. CASE \/ Alloc(w) \/ Fill(w)
             \/ SlabFull(w) \/ FillFails(w) \/ Segv(w) \/ Respawn(w)
    BY <2>4, AllocKeeps, FillKeeps, EndsKeep, RespawnKeeps
  <2>5. CASE \/ Count(w) \/ Weigh(w) \/ Point(w) \/ Link(w)
             \/ UnlinkFirst(w) \/ UnlinkOther(w) \/ Free(w) \/ SetWeight(w)
    BY <2>5, CountKeeps, WeighKeeps, PointKeeps, LinkKeeps,
       UnlinkFirstKeeps, UnlinkOtherKeeps, FreeKeeps, SetWeightKeeps
  <2>6. CASE \/ FoundGroup(w) \/ NoGroup(w) \/ NewGroup(w)
             \/ NewGroupFails(w) \/ UnlockUnheld(w) \/ NextGroup(w)
    BY <2>6, GroupKeeps, NewGroupKeeps, NewGroupFailsKeeps,
       UnlockUnheldKeeps, NextGroupKeeps
  <2>7. CASE Size(w) \/ First(w) \/ Copy(w) \/ Copied(w)
    BY <2>7, SizeKeeps, FirstKeeps, CopyKeeps, CopiedKeeps
  <2> QED
    BY <1>2, <2>1, <2>2, <2>3, <2>4, <2>5, <2>6, <2>7 DEF CallStep
<1> QED  BY <1>1, <1>2 DEF Next

\* What every reachable state satisfies.
THEOREM Invariant == Spec => []SInv
<1> QED  BY InitHolds, NextKeeps, PTL DEF Spec

\* Whatever the workers do, also when they die: a worker is in its critical
\* section only while it holds the mutex, who holds it is in there or dead
\* (so no two are, and nobody leaves without ngx_shmtx_unlock), and the
\* memory and the calls keep their types.
THEOREM Typed == Spec => []TypeOK
<1>1. SInv => TypeOK
  <2> SUFFICES ASSUME SInv PROVE TypeOK
    OBVIOUS
  <2>1. \A w \in Worker : run[w].group \in 0 .. made
    <3> SUFFICES ASSUME NEW w \in Worker PROVE run[w].group \in 0 .. made
      OBVIOUS
    <3>1. run[w].group \in Nat /\ run[w].group <= made /\ made \in Nat
      BY AtCall, Fields, Memory
    <3> QED  BY <3>1
  <2>2. \A w \in Worker : run[w].speer \in Chunk \cup {Null}
    BY AtCall, Fields
  <2>3. ASSUME NEW w \in Worker, run[w].pc \in Section
        PROVE  run[w].speer # Null \/ run[w].group > 0
    BY <2>3, AtCall DEF AtHand, Section
  <2> QED
    BY <2>1, <2>2, <2>3 DEF SInv, Types, Holder, TypeOK, GroupsOf, PeersOf
<1> QED  BY <1>1, Invariant, PTL

\* lst without the mutex: however many workers change the list meanwhile, a
\* listing never writes behind the array that it sized from number.
THEOREM ListingFits == Spec => []NoOverrun
<1>1. SInv => NoOverrun
  BY DEF SInv
<1> QED  BY <1>1, Invariant, PTL

=============================================================================
