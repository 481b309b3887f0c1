---------------------------- MODULE UpsPeersCalls ----------------------------
(***************************************************************************)
(* What one call of add, del or edit has done when it returns, for lists   *)
(* and servers of any length.                                              *)
(***************************************************************************)
EXTENDS UpsPeersProofs

-----------------------------------------------------------------------------
(***************************************************************************)
(* The inductive invariant: what the loops have done so far.               *)
(***************************************************************************)

\* A group that next does not lead to has no peers, and no list is
\* remembered between two calls.
Empties ==
    /\ \A u \in Upstream : ~next[u] => list[<<u, TRUE>>] = << >>
    /\ pc = "idle" => old = << >>

\* The addresses before the cursor are the head of the list, in reverse.
AddSoFar ==
    pc = "add" =>
       /\ cur \in 1 .. Len(call.addrs) + 1 /\ count = cur - 1
       /\ Len(list[grp]) = Len(old) + count
       /\ \A j \in 1 .. Len(old) : list[grp][count + j] = old[j]
       /\ \A i \in 1 .. count :
             /\ list[grp][count + 1 - i].name = call.addrs[i]
             /\ list[grp][count + 1 - i].server = call.server

\* Of the peers before the cursor only the head can be one that was asked for.
DelSoFar ==
    pc = "del" =>
       \A i \in 1 .. Len(list[grp]) :
          i < cur /\ Asked(call, list[grp][i]) =>
             i = 1 /\ count > 0 /\ Asked(call, old[1])

\* The peers that were asked for before the cursor.
AskedUpTo(n) == { i \in 1 .. n : Asked(call, old[i]) }

Touched ==
    /\ Len(list[grp]) = Len(old)
    /\ \A i \in 1 .. Len(old) :
          LET p == list[grp][i]
          IN  IF Asked(call, old[i]) /\ i < cur
              THEN /\ p.name = old[i].name /\ p.server = old[i].server
                   /\ p.weight = IF GetInt(call.set.weight) > 0
                                 THEN call.set.weight ELSE old[i].weight
              ELSE p = old[i]

EditSoFar ==
    pc = "edit" =>
       /\ Touched
       /\ cur \in 1 .. Len(old) + 1
       /\ count = Cardinality(AskedUpTo(cur - 1))

Promises ==
    AddIsReported /\ DelLeavesOnlyHead /\ DelKeepsOthers /\ EditTouchesOnlyAsked

CInv ==
    /\ IInv /\ Empties
    /\ AddSoFar /\ DelSoFar /\ EditSoFar
    /\ Promises

-----------------------------------------------------------------------------
\* The loops ask for the peers that the entry asks for.
LEMMA SelectedIsAsked ==
    ASSUME NEW c, c.op \in {"del", "edit"}, NEW p
    PROVE  Selected(c, p) <=> Asked(c, p)
BY DEF Selected, Asked

LEMMA InitCInv == ASSUME Init PROVE CInv
<1>1. IInv
  BY InitIInv
<1>2. Empties
  BY DEF Init, Empties
<1>3. AddSoFar /\ DelSoFar /\ EditSoFar /\ Promises
  BY DEF Init, AddSoFar, DelSoFar, EditSoFar, Promises, AddIsReported,
         DelLeavesOnlyHead, DelKeepsOthers, EditTouchesOnlyAsked, Done
<1> QED  BY <1>1, <1>2, <1>3 DEF CInv

\* A call that ends without a loop and whose group could be found is one for
\* a backup group that is not there.
LEMMA AnswerCInv ==
    ASSUME CInv, pc = "idle", NEW c \in Calls, NEW r \in Int, Answer(c, r),
           Found(c) => NoBackup(c) /\ (c.op = "add" <=> r # E_SUCCESS),
           r <= 0
    PROVE  Empties' /\ AddSoFar' /\ DelSoFar' /\ EditSoFar' /\ Promises'
<1>1. /\ pc' = "done" /\ call' = c /\ ret' = r /\ list' = list /\ next' = next
      /\ cur' = cur /\ count' = count /\ old' = old
  BY DEF Answer, peers
<1>2. cur = 1 /\ old = << >>
  BY DEF CInv, IInv, Progress, Empties
<1>3. Empties' /\ AddSoFar' /\ DelSoFar' /\ EditSoFar'
  BY <1>1 DEF CInv, Empties, AddSoFar, DelSoFar, EditSoFar
<1>4. CASE ~Found(c)
  <2>1. ~Found(call)'
    BY <1>1, <1>4 DEF Found, Parsed
  <2>2. Promises'
    BY <1>1, <2>1 DEF Promises, AddIsReported, DelLeavesOnlyHead,
                      DelKeepsOthers, EditTouchesOnlyAsked, Done
  <2> QED  BY <1>3, <2>2
<1>5. CASE Found(c)
  <2>1. grp' = <<c.to.ups, TRUE>> /\ c.to.ups \in Upstream /\ ~next[c.to.ups]
    BY <1>1, <1>5, CallFields DEF grp, Found, NoBackup
  <2>2. list'[grp'] = << >>
    BY <1>1, <2>1 DEF CInv, Empties
  <2>3. AddIsReported'
    <3> SUFFICES ASSUME Done("add")' PROVE AddIsReported'
      BY DEF AddIsReported
    <3>1. c.op = "add" /\ r <= 0 /\ c \in AddCalls
      BY <1>1, CallFields DEF Done
    <3>2. c.addrs # << >> /\ c.addrs \in Seq(Name)
      BY <1>5, <3>1, SystemAssumption DEF Found, Parsed, AddCalls
    <3>3. Len(c.addrs) \in Nat /\ Len(c.addrs) > 0
      BY <3>2
    <3>4. SubSeq(<< >>, 1, 0) = << >>
      OBVIOUS
    <3> QED  BY <1>1, <1>2, <2>2, <3>1, <3>3, <3>4 DEF AddIsReported
  <2>4. DelLeavesOnlyHead'
    BY <2>2 DEF DelLeavesOnlyHead
  <2>5. EditTouchesOnlyAsked'
    <3> SUFFICES ASSUME Done("edit")' PROVE EditTouchesOnlyAsked'
      BY <1>1 DEF EditTouchesOnlyAsked
    <3>1. r = 0
      BY <1>1, <1>5 DEF Done, E_SUCCESS
    <3>2. { i \in 1 .. Len(old') : Asked(call', old'[i]) } = {}
      BY <1>1, <1>2
    <3>3. Cardinality({}) = 0
      BY FS_EmptySet
    <3> QED  BY <1>1, <1>2, <2>2, <3>1, <3>2, <3>3 DEF EditTouchesOnlyAsked
  <2>6. DelKeepsOthers'
    <3> SUFFICES ASSUME Done("del")' PROVE DelKeepsOthers'
      BY <1>1 DEF DelKeepsOthers
    <3> DEFINE at == [i \in 1 .. 0 |-> i]
    <3>1. count = 0
      BY DEF CInv, IInv, Progress
    <3>2. at \in [1 .. 0 -> 1 .. 0] /\ Remains(call', << >>, << >>, at)
      BY <1>1, <1>2 DEF Remains
    <3> HIDE DEF at
    <3>3. list'[grp'] = << >> /\ old' = << >> /\ count' = 0 /\ Len(<< >>) = 0
      BY <1>1, <1>2, <2>2, <3>1
    <3>4. /\ at \in [1 .. Len(list'[grp']) -> 1 .. Len(old')]
          /\ Remains(call', list'[grp'], old', at)
      BY <3>2, <3>3
    <3>5. Len(list'[grp']) + count' = Len(old')
      BY <3>3
    <3> QED  BY <3>4, <3>5 DEF DelKeepsOthers
  <2> QED  BY <1>3, <2>3, <2>4, <2>5, <2>6 DEF Promises
<1> QED  BY <1>4, <1>5

LEMMA EnterCInv ==
    ASSUME CInv, pc = "idle", NEW c \in Calls, Enter(c) \/ EnterNewBackup(c)
    PROVE  Empties' /\ AddSoFar' /\ DelSoFar' /\ EditSoFar' /\ Promises'
<1>1. /\ Found(c) /\ EnterLoop(c) /\ list' = list
      /\ pc' = c.op /\ call' = c /\ old' = list[<<c.to.ups, c.to.backup>>]
      /\ cur' = cur /\ count' = count
  BY DEF Enter, EnterNewBackup, EnterLoop
<1>2. /\ cur = 1 /\ count = 0 /\ grp' = <<c.to.ups, c.to.backup>>
      /\ c.op \in {"add", "del", "edit"}
      /\ c.to.ups \in Upstream /\ c.to.backup \in BOOLEAN
  BY <1>1, CallFields DEF CInv, IInv, Progress, grp, Found
<1>3. /\ list'[grp'] = old' /\ old' \in Seq(Peer) /\ Len(old') \in Nat
  BY <1>1, <1>2 DEF CInv, IInv, TypeOK, Group
<1>4. Empties'
  <2>1. \A u \in Upstream : next[u] => next'[u]
    BY <1>2 DEF Enter, EnterNewBackup, CInv, IInv, TypeOK
  <2> QED  BY <1>1, <1>2, <2>1 DEF CInv, Empties
<1>5. AddSoFar'
  <2> SUFFICES ASSUME c.op = "add" PROVE AddSoFar'
    BY <1>1 DEF AddSoFar
  <2>1. Len(c.addrs) \in Nat
    BY <1>2, CallFields, SystemAssumption DEF AddCalls
  <2> QED  BY <1>1, <1>2, <1>3, <2>1 DEF AddSoFar
<1>6. DelSoFar'
  BY <1>1, <1>2 DEF DelSoFar
<1>7. EditSoFar'
  <2>1. AskedUpTo(cur - 1)' = {} /\ Cardinality({}) = 0
    BY <1>1, <1>2, FS_EmptySet DEF AskedUpTo
  <2>2. Touched'
    BY <1>1, <1>2, <1>3 DEF Touched
  <2> QED  BY <1>1, <1>2, <1>3, <2>1, <2>2 DEF EditSoFar, AskedUpTo
<1>8. Promises'
  <2>1. EditTouchesOnlyAsked'
    BY <1>1, <1>2, <1>3 DEF EditTouchesOnlyAsked, Done
  <2>2. DelKeepsOthers'
    <3> DEFINE at == [i \in 1 .. Len(old') |-> i]
    <3>1. at \in [1 .. Len(old') -> 1 .. Len(old')] /\ Remains(call', old', old', at)
      BY <1>3 DEF Remains
    <3> HIDE DEF at
    <3>2. /\ at \in [1 .. Len(list'[grp']) -> 1 .. Len(old')]
          /\ Remains(call', list'[grp'], old', at)
      BY <1>3, <3>1
    <3>3. Len(list'[grp']) + count' = Len(old')
      BY <1>1, <1>2, <1>3
    <3> QED  BY <3>2, <3>3 DEF DelKeepsOthers
  <2> QED
    BY <1>1, <1>2, <2>1, <2>2 DEF Promises, AddIsReported, DelLeavesOnlyHead, Done
<1> QED  BY <1>4, <1>5, <1>6, <1>7, <1>8

LEMMA BeginCInv ==
    ASSUME CInv, Begin
    PROVE  Empties' /\ AddSoFar' /\ DelSoFar' /\ EditSoFar' /\ Promises'
<1>1. pc = "idle"
  BY DEF Begin, Start
<1>2. PICK c \in Calls :
         \/ NotCompiledIn(c) \/ BadUrl(c) \/ NoMainConf(c) \/ NotFound(c)
         \/ Enter(c) \/ EnterNewBackup(c) \/ NewBackupFails(c)
  BY DEF Begin, Start
<1>3. CASE Enter(c) \/ EnterNewBackup(c)
  BY <1>1, <1>3, EnterCInv
<1>4. CASE NotCompiledIn(c) \/ BadUrl(c) \/ NoMainConf(c)
  <2>1. ~Found(c)
    BY <1>4 DEF NotCompiledIn, BadUrl, NoMainConf, Found, Parsed
  <2>2. PICK r \in {E_FUNC_NA, E_PARSE_URL, E_NO_UPS} : Answer(c, r)
    BY <1>4 DEF NotCompiledIn, BadUrl, NoMainConf
  <2>3. r \in Int /\ r <= 0
    BY DEF E_FUNC_NA, E_PARSE_URL, E_NO_UPS
  <2> QED  BY <1>1, <2>1, <2>2, <2>3, AnswerCInv
<1>5. CASE NotFound(c)
  <2>1. E_SUCCESS \in Int /\ E_SUCCESS <= 0
    BY DEF E_SUCCESS
  <2> QED  BY <1>1, <1>5, <2>1, AnswerCInv DEF NotFound
<1>6. CASE NewBackupFails(c)
  <2>1. E_SLAB_CALLOC \in Int /\ E_SLAB_CALLOC <= 0
        /\ E_SLAB_CALLOC # E_SUCCESS
    BY DEF E_SUCCESS, E_SLAB_CALLOC
  <2> QED  BY <1>1, <1>6, <2>1, AnswerCInv DEF NewBackupFails
<1> QED  BY <1>2, <1>3, <1>4, <1>5, <1>6


-----------------------------------------------------------------------------
\* The loops.

\* A loop changes the list of its own group, and next leads to that one.
LEMMA EmptiesKept ==
    ASSUME CInv, pc \in {"add", "del", "edit"}, pc' # "idle", next' = next,
           NEW s, list' = [list EXCEPT ![grp] = s]
    PROVE  Empties'
<1>1. ~NoBackup(call) /\ grp = <<call.to.ups, call.to.backup>>
  BY DEF CInv, IInv, Running, grp
<1> SUFFICES ASSUME NEW u \in Upstream, ~next[u]
             PROVE  list'[<<u, TRUE>>] = << >>
  BY DEF Empties
<1>2. grp # <<u, TRUE>>
  BY <1>1 DEF NoBackup
<1>3. list'[<<u, TRUE>>] = list[<<u, TRUE>>]
  BY <1>2 DEF CInv, IInv, TypeOK, Group
<1> QED  BY <1>3 DEF CInv, Empties

\* The list after an iteration of a loop.
LEMMA NewList ==
    ASSUME CInv, pc \in {"add", "del", "edit"}, call' = call,
           NEW s, list' = [list EXCEPT ![grp] = s]
    PROVE  grp' = grp /\ list'[grp'] = s
<1>1. grp \in Group /\ grp' = grp
  BY LoopPlace DEF CInv, IInv, grp
<1> QED  BY <1>1 DEF CInv, IInv, TypeOK

LEMMA AddPeerCInv ==
    ASSUME CInv, AddPeer
    PROVE  Empties' /\ AddSoFar' /\ DelSoFar' /\ EditSoFar' /\ Promises'
<1> DEFINE s == list[grp]
           t == Cons(NewPeer, s)
<1>1. /\ pc = "add" /\ pc' = "add" /\ call' = call /\ old' = old
      /\ next' = next /\ cur' = cur + 1 /\ count' = count + 1
      /\ list' = [list EXCEPT ![grp] = t]
  BY DEF AddPeer, NextIteration
<1>2. s \in Seq(Peer) /\ Len(s) \in Nat /\ old \in Seq(Peer)
      /\ Len(old) \in Nat /\ call \in AddCalls
  BY <1>1, LoopPlace, CallFields DEF CInv, IInv, TypeOK
<1>3. Len(call.addrs) \in Nat /\ cur \in 1 .. Len(call.addrs)
      /\ count = cur - 1
  BY <1>1, <1>2, SystemAssumption DEF AddPeer, AddAtEnd, CInv, AddSoFar, AddCalls
<1>4. NewPeer \in Peer /\ NewPeer.name = call.addrs[cur]
      /\ NewPeer.server = call.server
  BY <1>2, <1>3, NewPeerIsPeer DEF NewPeer
<1> HIDE DEF s
<1>5. /\ Len(t) = Len(s) + 1 /\ t[1] = NewPeer
      /\ \A i \in 1 .. Len(s) : t[i + 1] = s[i]
  BY <1>2, <1>4 DEF Cons
<1>6. grp' = grp /\ list'[grp'] = t
  BY <1>1, NewList
<1>7. Empties'
  BY <1>1, EmptiesKept
<1> HIDE DEF t
<1>8. /\ Len(s) = Len(old) + count
      /\ \A j \in 1 .. Len(old) : s[count + j] = old[j]
      /\ \A i \in 1 .. count : /\ s[count + 1 - i].name = call.addrs[i]
                               /\ s[count + 1 - i].server = call.server
  BY <1>1 DEF CInv, AddSoFar, s
<1>9. AddSoFar'
  <2>1. \A j \in 1 .. Len(old) : t[count + 1 + j] = old[j]
    <3> TAKE j \in 1 .. Len(old)
    <3>1. count + j \in 1 .. Len(s) /\ count + 1 + j = (count + j) + 1
      BY <1>2, <1>3, <1>8
    <3> QED  BY <1>5, <1>8, <3>1
  <2>2. ASSUME NEW i \in 1 .. count + 1
        PROVE  /\ t[count + 2 - i].name = call.addrs[i]
               /\ t[count + 2 - i].server = call.server
    <3>1. CASE i = count + 1
      <4>1. count + 2 - i = 1 /\ i = cur
        BY <1>3, <3>1
      <4> QED  BY <1>4, <1>5, <4>1
    <3>2. CASE i # count + 1
      <4>1. i \in 1 .. count /\ count + 1 - i \in 1 .. Len(s)
            /\ count + 2 - i = (count + 1 - i) + 1
        BY <1>2, <1>3, <1>8, <3>2
      <4> QED  BY <1>5, <1>8, <4>1
    <3> QED  BY <3>1, <3>2
  <2>3. /\ cur' \in 1 .. Len(call.addrs) + 1 /\ count' = cur' - 1
        /\ Len(t) = Len(old) + count'
    BY <1>1, <1>2, <1>3, <1>5, <1>8
  <2>4. ASSUME NEW i \in 1 .. count'
        PROVE  /\ t[count' + 1 - i].name = call.addrs[i]
               /\ t[count' + 1 - i].server = call.server
    <3>1. i \in 1 .. count + 1 /\ count' + 1 - i = count + 2 - i
      BY <1>1, <1>3
    <3> QED  BY <2>2, <3>1
  <2>5. \A j \in 1 .. Len(old) : t[count' + j] = old[j]
    BY <1>1, <2>1
  <2> QED  BY <1>1, <1>6, <2>3, <2>4, <2>5 DEF AddSoFar
<1>10. DelSoFar' /\ EditSoFar' /\ Promises'
  BY <1>1 DEF DelSoFar, EditSoFar, Promises, AddIsReported, DelLeavesOnlyHead,
              DelKeepsOthers, EditTouchesOnlyAsked, Done
<1> QED  BY <1>7, <1>9, <1>10

\* The end of a loop: the list is what the loop has made of it.
LEMMA FinishKeeps ==
    ASSUME CInv, pc \in {"add", "del", "edit"}, NEW r, Finish(r)
    PROVE  /\ pc' = "done" /\ ret' = r /\ call' = call /\ grp' = grp
           /\ list' = list /\ old' = old /\ cur' = cur /\ count' = count
           /\ call.op = pc /\ call \in Calls
           /\ Empties' /\ AddSoFar' /\ DelSoFar' /\ EditSoFar'
<1>1. /\ pc' = "done" /\ ret' = r /\ call' = call /\ grp' = grp
      /\ list' = list /\ old' = old /\ cur' = cur /\ count' = count
      /\ next' = next
  BY DEF Finish, peers, grp
<1>2. call.op = pc /\ call \in Calls
  BY LoopPlace DEF CInv, IInv
<1>3. Empties' /\ AddSoFar' /\ DelSoFar' /\ EditSoFar'
  BY <1>1 DEF CInv, Empties, AddSoFar, DelSoFar, EditSoFar
<1> QED  BY <1>1, <1>2, <1>3

\* An error leaves some of the addresses out, a count none.
LEMMA AddEndsCInv ==
    ASSUME CInv, pc = "add", NEW r \in Int, Finish(r),
           IF r > 0 THEN count = r /\ count = Len(call.addrs)
                    ELSE count < Len(call.addrs)
    PROVE  Empties' /\ AddSoFar' /\ DelSoFar' /\ EditSoFar' /\ Promises'
<1>1. /\ pc' = "done" /\ ret' = r /\ call' = call /\ grp' = grp
      /\ list' = list /\ old' = old /\ count' = count
      /\ call.op = "add" /\ call \in AddCalls
      /\ Empties' /\ AddSoFar' /\ DelSoFar' /\ EditSoFar'
  BY FinishKeeps, CallFields
<1> DEFINE s == list[grp]
<1>2. /\ cur \in 1 .. Len(call.addrs) + 1 /\ count = cur - 1
      /\ Len(s) = Len(old) + count
      /\ \A j \in 1 .. Len(old) : s[count + j] = old[j]
      /\ \A i \in 1 .. count : /\ s[count + 1 - i].name = call.addrs[i]
                               /\ s[count + 1 - i].server = call.server
  BY DEF CInv, AddSoFar
<1>3. s \in Seq(Peer) /\ old \in Seq(Peer) /\ Len(old) \in Nat
      /\ Len(call.addrs) \in Nat
  BY <1>1, LoopPlace, SystemAssumption DEF CInv, IInv, TypeOK, AddCalls
<1> HIDE DEF s
<1>4. count \in 0 .. Len(call.addrs) /\ Len(s) - Len(old) = count
  BY <1>2, <1>3
<1>5. SubSeq(s, count + 1, count + Len(old)) = old
  BY <1>2, <1>3, <1>4
<1>6. AddIsReported'
  <2>1. \A i \in 1 .. count : /\ s[count + 1 - i].name = call.addrs[i]
                              /\ s[count + 1 - i].server = call.server
    BY <1>2
  <2>2. IF r > 0 THEN count = r /\ count = Len(call.addrs)
                 ELSE count < Len(call.addrs)
    OBVIOUS
  <2> QED  BY <1>1, <1>4, <1>5, <2>1, <2>2 DEF AddIsReported, s
<1>7. DelLeavesOnlyHead' /\ DelKeepsOthers' /\ EditTouchesOnlyAsked'
  BY <1>1 DEF DelLeavesOnlyHead, DelKeepsOthers, EditTouchesOnlyAsked, Done
<1> QED  BY <1>1, <1>6, <1>7 DEF Promises

LEMMA AddFailsCInv ==
    ASSUME CInv, AddFails
    PROVE  Empties' /\ AddSoFar' /\ DelSoFar' /\ EditSoFar' /\ Promises'
<1>1. PICK r \in {E_SLAB_CALLOC, E_SLAB_ALLOC} : Finish(r)
  BY DEF AddFails
<1>2. r \in Int /\ ~(r > 0)
  BY DEF E_SLAB_CALLOC, E_SLAB_ALLOC
<1>3. pc = "add" /\ call \in AddCalls
  BY LoopPlace, CallFields DEF AddFails, CInv, IInv
<1>4. Len(call.addrs) \in Nat
  BY <1>3, SystemAssumption DEF AddCalls
<1>5. count < Len(call.addrs)
  BY <1>3, <1>4 DEF AddFails, AddAtEnd, CInv, AddSoFar
<1> QED  BY <1>1, <1>2, <1>3, <1>5, AddEndsCInv

LEMMA AddReturnsCInv ==
    ASSUME CInv, AddReturns
    PROVE  Empties' /\ AddSoFar' /\ DelSoFar' /\ EditSoFar' /\ Promises'
<1>1. pc = "add" /\ call \in AddCalls /\ call.addrs # << >> /\ Finish(count)
  BY LoopPlace, CallFields DEF AddReturns, CInv, IInv, Found, Parsed
<1>2. Len(call.addrs) \in Nat \ {0}
  BY <1>1, SystemAssumption DEF AddCalls
<1>3. count = Len(call.addrs)
  BY <1>1, <1>2 DEF AddReturns, AddAtEnd, CInv, AddSoFar
<1> QED  BY <1>1, <1>2, <1>3, AddEndsCInv

\* No peer that was asked for is passed over, except a new head.
LEMMA DelSkipsCInv ==
    ASSUME CInv, DelSkips
    PROVE  Empties' /\ AddSoFar' /\ DelSoFar' /\ EditSoFar' /\ Promises'
<1>1. /\ pc = "del" /\ pc' = "del" /\ call' = call /\ old' = old /\ grp' = grp
      /\ list' = list /\ next' = next /\ cur' = cur + 1 /\ count' = count
  BY DEF DelSkips, NextIteration, peers, grp
<1>2. call.op = "del" /\ cur \in Nat
  BY <1>1, LoopPlace DEF CInv, IInv, TypeOK
<1>3. ~Asked(call, list[grp][cur])
  BY <1>2, SelectedIsAsked DEF DelSkips, here
<1>4. DelSoFar'
  <2> SUFFICES ASSUME NEW i \in 1 .. Len(list[grp]),
                      i < cur + 1, Asked(call, list[grp][i])
               PROVE  i = 1 /\ count > 0 /\ Asked(call, old[1])
    BY <1>1 DEF DelSoFar
  <2>1. i < cur
    BY <1>2, <1>3
  <2> QED  BY <1>1, <2>1 DEF CInv, DelSoFar
<1>5. Empties'
  BY <1>1 DEF CInv, Empties
<1>6. DelKeepsOthers'
  BY <1>1 DEF CInv, Promises, DelKeepsOthers
<1>7. AddSoFar' /\ EditSoFar' /\ Promises'
  BY <1>1, <1>6 DEF AddSoFar, EditSoFar, Promises, AddIsReported, DelLeavesOnlyHead,
              EditTouchesOnlyAsked, Done
<1> QED  BY <1>4, <1>5, <1>7

LEMMA DelUnlinksCInv ==
    ASSUME CInv, DelUnlinks
    PROVE  Empties' /\ AddSoFar' /\ DelSoFar' /\ EditSoFar' /\ Promises'
<1> DEFINE s == list[grp]
           t == RemoveAt(s, cur)
<1>1. /\ pc = "del" /\ call' = call /\ old' = old /\ next' = next
      /\ cur' = CursorAfterUnlink /\ count' = count + 1
      /\ list' = [list EXCEPT ![grp] = t] /\ pc' \in {"del", "crashed"}
  BY DEF DelUnlinks
<1>2. /\ s \in Seq(Peer) /\ Len(s) \in Nat /\ Weighted(s) /\ call.op = "del"
      /\ cur \in 1 .. Len(s) /\ count \in Nat
  BY <1>1, LoopPlace DEF DelUnlinks, InList, CInv, IInv, TypeOK
<1> HIDE DEF s
<1>3. /\ Len(t) = Len(s) - 1
      /\ \A i \in 1 .. Len(s) - 1 : t[i] = IF i < cur THEN s[i] ELSE s[i + 1]
  BY <1>2, TotalRemoveAt
<1>4. grp' = grp /\ list'[grp'] = t
  BY <1>1, NewList
<1>5. Empties'
  BY <1>1, EmptiesKept
<1> HIDE DEF t
<1>6. Asked(call, s[cur])
  BY <1>2, SelectedIsAsked DEF DelUnlinks, here, s
<1>7. DelSoFar'
  <2> SUFFICES ASSUME NEW i \in 1 .. Len(t), i < cur', Asked(call, t[i])
               PROVE  i = 1 /\ count' > 0 /\ Asked(call, old[1])
    BY <1>1, <1>4 DEF DelSoFar
  <2>1. count' > 0
    BY <1>1, <1>2
  <2>2. CASE cur = 1
    <3>1. i = 1
      BY <1>1, <2>2 DEF CursorAfterUnlink
    <3>2. s = old
      BY <1>1, <2>2 DEF CInv, IInv, Progress, s
    <3> QED  BY <1>6, <2>1, <2>2, <3>1, <3>2
  <2>3. CASE cur # 1
    <3>1. i < cur /\ i \in 1 .. Len(s) /\ t[i] = s[i]
      BY <1>1, <1>2, <1>3, <2>3 DEF CursorAfterUnlink
    <3> QED  BY <1>1, <2>1, <3>1 DEF CInv, DelSoFar, s
  <2> QED  BY <2>2, <2>3
<1>8. DelKeepsOthers'
  <2>1. PICK at \in [1 .. Len(s) -> 1 .. Len(old)] : Remains(call, s, old, at)
    BY <1>1 DEF CInv, Promises, DelKeepsOthers, s
  <2> DEFINE ta == [i \in 1 .. Len(t) |-> IF i < cur THEN at[i] ELSE at[i + 1]]
  <2>2. ta \in [1 .. Len(t) -> 1 .. Len(old)]
    BY <1>2, <1>3
  <2>3. ASSUME NEW i \in 1 .. Len(t) PROVE t[i] = old[ta[i]]
    <3>1. i \in 1 .. Len(s) /\ i + 1 \in 1 .. Len(s)
      BY <1>2, <1>3
    <3> QED  BY <1>3, <2>1, <3>1 DEF Remains
  <2>4. ASSUME NEW i \in 1 .. Len(t), NEW j \in 1 .. Len(t), i < j
        PROVE  ta[i] < ta[j]
    <3>1. /\ i \in 1 .. Len(s) /\ i + 1 \in 1 .. Len(s)
          /\ j \in 1 .. Len(s) /\ j + 1 \in 1 .. Len(s)
          /\ j < cur => i < cur
      BY <1>2, <1>3, <2>4
    <3>2. \A m, n \in 1 .. Len(s) : m < n => at[m] < at[n]
      BY <2>1 DEF Remains
    <3>3. CASE i < cur /\ j < cur
      BY <2>4, <3>1, <3>2, <3>3
    <3>4. CASE i < cur /\ ~(j < cur)
      <4>1. i < j + 1
        BY <1>2, <2>4
      <4> QED  BY <3>1, <3>2, <3>4, <4>1
    <3>5. CASE ~(i < cur) /\ ~(j < cur)
      <4>1. i + 1 < j + 1
        BY <1>2, <2>4
      <4> QED  BY <3>1, <3>2, <3>5, <4>1
    <3> QED  BY <3>1, <3>3, <3>4, <3>5
  <2>5. ASSUME NEW k \in 1 .. Len(old), ~Asked(call, old[k])
        PROVE  \E i \in 1 .. Len(t) : ta[i] = k
    <3>1. PICK i \in 1 .. Len(s) : at[i] = k
      BY <2>1, <2>5 DEF Remains
    <3>2. s[i] = old[k] /\ i # cur
      BY <1>6, <2>1, <2>5, <3>1 DEF Remains
    <3>3. CASE i < cur
      <4>1. i \in 1 .. Len(t)
        BY <1>2, <1>3, <3>3
      <4> QED  BY <3>1, <3>3, <4>1
    <3>4. CASE ~(i < cur)
      <4>1. i - 1 \in 1 .. Len(t) /\ ~(i - 1 < cur) /\ (i - 1) + 1 = i
        BY <1>2, <1>3, <3>2, <3>4
      <4> QED  BY <3>1, <4>1
    <3> QED  BY <3>3, <3>4
  <2>6. DOMAIN ta = 1 .. Len(t)
    OBVIOUS
  <2> HIDE DEF ta
  <2>7. Remains(call, t, old, ta)
    BY <2>3, <2>4, <2>5, <2>6 DEF Remains
  <2>8. Len(t) + count' = Len(old)
    <3>1. Len(s) + count = Len(old)
      BY <1>1 DEF CInv, Promises, DelKeepsOthers, s
    <3> QED  BY <1>1, <1>2, <1>3, <3>1
  <2> QED  BY <1>1, <1>4, <2>2, <2>7, <2>8 DEF DelKeepsOthers
<1>9. AddSoFar' /\ EditSoFar' /\ Promises'
  BY <1>1, <1>8, <1>2 DEF AddSoFar, EditSoFar, Promises, AddIsReported, DelLeavesOnlyHead,
              EditTouchesOnlyAsked, Done
<1> QED  BY <1>5, <1>7, <1>9

LEMMA DelEndsCInv ==
    ASSUME CInv, DelRefuses \/ DelReturns
    PROVE  Empties' /\ AddSoFar' /\ DelSoFar' /\ EditSoFar' /\ Promises'
<1>1. PICK r : /\ Finish(r)
               /\ r = E_UPS_LEFT_ONE \/ (r = count /\ ~InList)
  BY DEF DelRefuses, DelReturns
<1>2. pc = "del"
  BY DEF DelRefuses, DelReturns
<1>3. /\ pc' = "done" /\ ret' = r /\ call' = call /\ grp' = grp
      /\ list' = list /\ old' = old /\ call.op = "del"
      /\ Empties' /\ AddSoFar' /\ DelSoFar' /\ EditSoFar'
  BY <1>1, <1>2, FinishKeeps
<1>4. DelLeavesOnlyHead'
  <2> SUFFICES ASSUME r >= 0, NEW i \in 1 .. Len(list[grp]),
                      Asked(call, list[grp][i])
               PROVE  i = 1 /\ r > 0 /\ Asked(call, old[1])
    BY <1>3 DEF DelLeavesOnlyHead
  <2>1. r = count /\ ~(cur <= Len(list[grp]))
    BY <1>1 DEF E_UPS_LEFT_ONE, InList
  <2>2. list[grp] \in Seq(Peer) /\ Len(list[grp]) \in Nat /\ cur \in Nat
    BY <1>2, LoopPlace DEF CInv, IInv, TypeOK
  <2>3. i < cur
    BY <2>1, <2>2
  <2> QED  BY <1>2, <2>1, <2>3 DEF CInv, DelSoFar
<1>5. DelKeepsOthers'
  <2>1. count' = count
    BY <1>1, <1>2, FinishKeeps
  <2> QED  BY <1>2, <1>3, <2>1 DEF CInv, Promises, DelKeepsOthers
<1>6. AddIsReported' /\ EditTouchesOnlyAsked'
  BY <1>3 DEF AddIsReported, EditTouchesOnlyAsked, Done
<1> QED  BY <1>3, <1>4, <1>5, <1>6 DEF Promises

\* The peers asked for, one peer further.
LEMMA AskedOneMore ==
    ASSUME NEW n \in Nat
    PROVE  /\ IsFiniteSet(AskedUpTo(n))
           /\ Cardinality(AskedUpTo(n + 1)) =
                 Cardinality(AskedUpTo(n))
                   + (IF Asked(call, old[n + 1]) THEN 1 ELSE 0)
<1>1. IsFiniteSet(1 .. n)
  BY FS_Interval
<1>2. IsFiniteSet(AskedUpTo(n))
  BY <1>1, FS_Subset DEF AskedUpTo
<1>3. CASE Asked(call, old[n + 1])
  <2>1. AskedUpTo(n + 1) = AskedUpTo(n) \cup {n + 1} /\ n + 1 \notin AskedUpTo(n)
    BY <1>3 DEF AskedUpTo
  <2> QED  BY <1>2, <1>3, <2>1, FS_AddElement
<1>4. CASE ~Asked(call, old[n + 1])
  <2>1. AskedUpTo(n + 1) = AskedUpTo(n)
    BY <1>4 DEF AskedUpTo
  <2>2. Cardinality(AskedUpTo(n)) \in Nat
    BY <1>2, FS_CardinalityType
  <2> QED  BY <1>2, <1>4, <2>1, <2>2
<1> QED  BY <1>3, <1>4

\* The peer at the cursor is still as it was.
LEMMA EditPlace ==
    ASSUME CInv, pc = "edit", InList
    PROVE  /\ list[grp] \in Seq(Peer) /\ old \in Seq(Peer)
           /\ call.op = "edit" /\ call \in EditCalls
           /\ Len(old) \in Nat /\ Len(list[grp]) = Len(old)
           /\ cur \in 1 .. Len(old) /\ here = old[cur] /\ here \in Peer
           /\ count = Cardinality(AskedUpTo(cur - 1))
           /\ Selected(call, here) <=> Asked(call, old[cur])
<1>1. /\ list[grp] \in Seq(Peer) /\ old \in Seq(Peer)
      /\ call.op = "edit" /\ call \in EditCalls
      /\ Len(old) \in Nat
  BY LoopPlace, CallFields DEF CInv, IInv, TypeOK
<1>2. /\ Len(list[grp]) = Len(old) /\ cur \in 1 .. Len(old)
      /\ count = Cardinality(AskedUpTo(cur - 1))
  BY <1>1 DEF CInv, EditSoFar, Touched, InList
<1>3. here = old[cur]
  BY <1>1, <1>2 DEF CInv, EditSoFar, Touched, here
<1>4. old[cur] \in Peer
  BY <1>1, <1>2, ElementOfSeq
<1> QED  BY <1>1, <1>2, <1>3, <1>4, SelectedIsAsked

\* An iteration of edit's loop: the peer at the cursor is changed and counted
\* if it was asked for.
LEMMA EditIteration ==
    ASSUME CInv, pc = "edit", InList, pc' = "edit", call' = call, old' = old,
           cur' = cur + 1, Touched', Empties',
           count' = count + (IF Asked(call, old[cur]) THEN 1 ELSE 0)
    PROVE  Empties' /\ AddSoFar' /\ DelSoFar' /\ EditSoFar' /\ Promises'
<1>1. /\ cur \in 1 .. Len(old) /\ Len(old) \in Nat
      /\ count = Cardinality(AskedUpTo(cur - 1))
  BY EditPlace
<1>2. AskedUpTo(cur - 1)' = AskedUpTo(cur)
  <2>1. cur' - 1 = cur
    BY <1>1
  <2> QED  BY <2>1 DEF AskedUpTo
<1>3. count' = Cardinality(AskedUpTo(cur))
  <2>1. cur - 1 \in Nat /\ (cur - 1) + 1 = cur
    BY <1>1
  <2> QED  BY <1>1, <2>1, AskedOneMore
<1>4. EditSoFar'
  BY <1>1, <1>2, <1>3 DEF EditSoFar, AskedUpTo
<1>5. Promises'
  BY DEF Touched, Promises, AddIsReported, DelLeavesOnlyHead,
         DelKeepsOthers, EditTouchesOnlyAsked, Done
<1> QED  BY <1>4, <1>5 DEF AddSoFar, DelSoFar

LEMMA EditSkipsCInv ==
    ASSUME CInv, EditSkips
    PROVE  Empties' /\ AddSoFar' /\ DelSoFar' /\ EditSoFar' /\ Promises'
<1>1. /\ pc = "edit" /\ pc' = "edit" /\ call' = call /\ old' = old
      /\ grp' = grp /\ list' = list /\ next' = next
      /\ cur' = cur + 1 /\ count' = count /\ InList
  BY DEF EditSkips, NextIteration, peers, grp
<1>2. /\ Len(old) \in Nat /\ cur \in 1 .. Len(old) /\ count \in Nat
      /\ ~Asked(call, old[cur])
  BY EditPlace DEF EditSkips, CInv, IInv, TypeOK
<1>3. Touched'
  <2> SUFFICES ASSUME NEW i \in 1 .. Len(old)
               PROVE (i < cur + 1 /\ Asked(call, old[i]))
                       <=> (i < cur /\ Asked(call, old[i]))
    BY <1>1, <1>2 DEF CInv, EditSoFar, Touched
  <2> QED  BY <1>2
<1>4. Empties'
  BY <1>1 DEF CInv, Empties
<1> QED  BY <1>1, <1>2, <1>3, <1>4, EditIteration

LEMMA EditSetsCInv ==
    ASSUME CInv, EditSets
    PROVE  Empties' /\ AddSoFar' /\ DelSoFar' /\ EditSoFar' /\ Promises'
<1> DEFINE s == list[grp]
           e == Edited(here)
           t == ReplaceAt(s, cur, e)
<1>1. /\ pc = "edit" /\ pc' = "edit" /\ call' = call /\ old' = old
      /\ next' = next /\ cur' = cur + 1 /\ count' = count + 1 /\ InList
      /\ list' = [list EXCEPT ![grp] = t]
  BY DEF EditSets, NextIteration
<1>2. /\ s \in Seq(Peer) /\ Weighted(s) /\ Len(old) \in Nat /\ Len(s) = Len(old)
      /\ cur \in 1 .. Len(old) /\ here = old[cur] /\ here \in Peer
      /\ call \in EditCalls /\ Asked(call, old[cur])
  BY EditPlace, PeersWeighted DEF EditSets
<1>3. /\ e \in Peer /\ e.name = here.name /\ e.server = here.server
      /\ e.weight \in Int
  <2>1. e \in Peer /\ e.name = here.name /\ e.server = here.server
    BY <1>2, EditedIsPeer
  <2> QED  BY <2>1 DEF Peer
<1>4. e.weight = IF GetInt(call.set.weight) > 0 THEN call.set.weight
                 ELSE old[cur].weight
  <2>1. GetInt(call.set.weight) > 0 => GetInt(call.set.weight) = call.set.weight
    BY DEF GetInt
  <2>2. e.weight = IF GetInt(call.set.weight) > 0
                   THEN GetInt(call.set.weight) ELSE here.weight
    BY <1>2 DEF Edited, Peer
  <2> QED  BY <1>2, <2>1, <2>2
<1> HIDE DEF s, e
<1>5. /\ Len(t) = Len(s)
      /\ \A i \in 1 .. Len(s) : t[i] = IF i = cur THEN e ELSE s[i]
  BY <1>2, <1>3, TotalReplaceAt
<1>6. grp' = grp /\ list'[grp'] = t
  BY <1>1, NewList
<1>7. Empties'
  BY <1>1, EmptiesKept
<1> HIDE DEF t
<1>8. Touched'
  <2> SUFFICES ASSUME NEW i \in 1 .. Len(old)
               PROVE  IF Asked(call, old[i]) /\ i < cur + 1
                      THEN /\ t[i].name = old[i].name
                           /\ t[i].server = old[i].server
                           /\ t[i].weight = IF GetInt(call.set.weight) > 0
                                            THEN call.set.weight
                                            ELSE old[i].weight
                      ELSE t[i] = old[i]
    BY <1>1, <1>2, <1>5, <1>6 DEF Touched
  <2>1. CASE i = cur
    BY <1>2, <1>3, <1>4, <1>5, <2>1
  <2>2. CASE i # cur
    <3>1. (i < cur + 1 <=> i < cur) /\ t[i] = s[i]
      BY <1>2, <1>5, <2>2
    <3> QED  BY <1>1, <3>1 DEF CInv, EditSoFar, Touched, s
  <2> QED  BY <2>1, <2>2
<1> QED  BY <1>1, <1>2, <1>7, <1>8, EditIteration

LEMMA EditReturnsCInv ==
    ASSUME CInv, EditReturns
    PROVE  Empties' /\ AddSoFar' /\ DelSoFar' /\ EditSoFar' /\ Promises'
<1>1. pc = "edit" /\ ~InList /\ Finish(count)
  BY DEF EditReturns
<1>2. /\ pc' = "done" /\ ret' = count /\ call' = call /\ grp' = grp
      /\ list' = list /\ old' = old /\ cur' = cur /\ call.op = "edit"
      /\ Empties' /\ AddSoFar' /\ DelSoFar' /\ EditSoFar'
  BY <1>1, FinishKeeps
<1>3. /\ Touched /\ cur \in 1 .. Len(old) + 1 /\ Len(old) \in Nat
      /\ count = Cardinality(AskedUpTo(cur - 1))
  BY <1>1, LenProperties DEF CInv, IInv, TypeOK, EditSoFar
<1>4. cur - 1 = Len(old)
  BY <1>1, <1>3 DEF InList, Touched
<1>5. EditTouchesOnlyAsked'
  BY <1>2, <1>3, <1>4 DEF EditTouchesOnlyAsked, Touched, AskedUpTo
<1>6. AddIsReported' /\ DelLeavesOnlyHead' /\ DelKeepsOthers'
  BY <1>2 DEF AddIsReported, DelLeavesOnlyHead, DelKeepsOthers, Done
<1> QED  BY <1>2, <1>5, <1>6 DEF Promises

LEMMA ResumeCInv ==
    ASSUME CInv, Resume
    PROVE  Empties' /\ AddSoFar' /\ DelSoFar' /\ EditSoFar' /\ Promises'
<1>1. pc' = "idle" /\ old' = << >> /\ list' = list /\ next' = next
  BY DEF Resume, peers
<1>2. Empties'
  BY <1>1 DEF CInv, Empties
<1> QED
  BY <1>1, <1>2 DEF AddSoFar, DelSoFar, EditSoFar, Promises, AddIsReported,
     DelLeavesOnlyHead, DelKeepsOthers, EditTouchesOnlyAsked, Done

LEMMA StutterCInv ==
    ASSUME CInv, UNCHANGED vars
    PROVE  Empties' /\ AddSoFar' /\ DelSoFar' /\ EditSoFar' /\ Promises'
<1>1. /\ list' = list /\ next' = next /\ pc' = pc /\ call' = call
      /\ cur' = cur /\ count' = count /\ ret' = ret /\ old' = old
      /\ grp' = grp
  BY DEF vars, peers, grp
<1> QED
  BY <1>1 DEF CInv, Empties, AddSoFar, DelSoFar, EditSoFar, Touched, AskedUpTo,
     Promises, AddIsReported, DelLeavesOnlyHead, DelKeepsOthers,
     EditTouchesOnlyAsked, Done

LEMMA NextCInv == ASSUME CInv, [Next]_vars PROVE CInv'
<1>1. IInv'
  BY NextIInv DEF CInv
<1>2. Empties' /\ AddSoFar' /\ DelSoFar' /\ EditSoFar' /\ Promises'
  <2>1. CASE Begin
    BY <2>1, BeginCInv
  <2>2. CASE AddPeer \/ AddFails \/ AddReturns
    BY <2>2, AddPeerCInv, AddFailsCInv, AddReturnsCInv
  <2>3. CASE DelSkips \/ DelRefuses \/ DelUnlinks \/ DelReturns
    BY <2>3, DelSkipsCInv, DelUnlinksCInv, DelEndsCInv
  <2>4. CASE EditSkips \/ EditSets \/ EditReturns
    BY <2>4, EditSkipsCInv, EditSetsCInv, EditReturnsCInv
  <2>5. CASE Resume
    BY <2>5, ResumeCInv
  <2>6. CASE UNCHANGED vars
    BY <2>6, StutterCInv
  <2> QED  BY <2>1, <2>2, <2>3, <2>4, <2>5, <2>6 DEF Next, Step
<1> QED  BY <1>1, <1>2 DEF CInv

-----------------------------------------------------------------------------
\* What the loops have done so far is what they should have.
THEOREM CallInvariance == Spec => []CInv
<1>1. Init => CInv
  BY InitCInv
<1>2. CInv /\ [Next]_vars => CInv'
  BY NextCInv
<1> QED  BY <1>1, <1>2, PTL DEF Spec

\* add.c puts a server's addresses before the list, and its return value
\* tells whether all of them are there.
THEOREM AddCorrectness == Spec => []AddIsReported
<1>1. CInv => AddIsReported
  BY DEF CInv, Promises
<1> QED  BY <1>1, CallInvariance, PTL

\* del.c leaves at most the head of what was asked for, and only if it
\* deleted a head.
THEOREM DelCorrectness == Spec => []DelLeavesOnlyHead
<1>1. CInv => DelLeavesOnlyHead
  BY DEF CInv, Promises
<1> QED  BY <1>1, CallInvariance, PTL

\* del.c takes away no peer that was not asked for, and keeps the others in
\* their order.
THEOREM DelIsExact == Spec => []DelKeepsOthers
<1>1. CInv => DelKeepsOthers
  BY DEF CInv, Promises
<1> QED  BY <1>1, CallInvariance, PTL

\* mdf.c changes the peers that were asked for and no others, keeps their
\* names, and returns their number.
THEOREM EditCorrectness == Spec => []EditTouchesOnlyAsked
<1>1. CInv => EditTouchesOnlyAsked
  BY DEF CInv, Promises
<1> QED  BY <1>1, CallInvariance, PTL

-----------------------------------------------------------------------------
(***************************************************************************)
(* The slab pools: what the lists hold changes by what an iteration takes  *)
(* from the pool or gives back to it.                                      *)
(***************************************************************************)

\* The footprints of the peers of a list.
Prints(s) == [i \in 1 .. Len(s) |-> [weight |-> Footprint(s[i])]]

LEMMA PrintsOf ==
    ASSUME NEW s \in Seq(Peer)
    PROVE  /\ Prints(s) \in Seq([weight : Int]) /\ Len(Prints(s)) = Len(s)
           /\ \A i \in 1 .. Len(s) :
                 Prints(s)[i] = [weight |-> Footprint(s[i])]
           /\ Weighted(Prints(s))
           /\ Chunks(s) = Total(Prints(s)) /\ Chunks(s) \in Int
<1>1. Len(s) \in Nat /\ DOMAIN s = 1 .. Len(s)
  OBVIOUS
<1>2. \A i \in 1 .. Len(s) : [weight |-> Footprint(s[i])] \in [weight : Int]
  BY DEF Footprint, PeerChunks
<1>3. /\ Prints(s) \in Seq([weight : Int]) /\ Len(Prints(s)) = Len(s)
      /\ \A i \in 1 .. Len(s) : Prints(s)[i] = [weight |-> Footprint(s[i])]
  <2>1. Prints(s) \in [1 .. Len(s) -> [weight : Int]]
    BY <1>2 DEF Prints
  <2> QED  BY <1>1, <2>1, IsASeq, LenProperties DEF Prints
<1>4. Weighted(Prints(s))
  BY <1>2, <1>3 DEF Weighted
<1>5. Chunks(s) = Total(Prints(s))
  BY <1>1 DEF Chunks, Prints
<1> QED  BY <1>3, <1>4, <1>5, TotalInt

LEMMA ChunksCons ==
    ASSUME NEW s \in Seq(Peer), NEW e \in Peer
    PROVE  Chunks(Cons(e, s)) = Chunks(s) + Footprint(e)
<1> DEFINE t == Cons(e, s)
           w == [weight |-> Footprint(e)]
           r == Cons(w, Prints(s))
<1>1. /\ t \in Seq(Peer) /\ Len(t) = Len(s) + 1 /\ t[1] = e
      /\ \A i \in 2 .. Len(s) + 1 : t[i] = s[i - 1]
  BY DEF Cons
<1>2. w \in [weight : Int] /\ w.weight = Footprint(e)
  BY DEF Footprint, PeerChunks
<1>3. /\ r \in Seq([weight : Int]) /\ Len(r) = Len(s) + 1 /\ r[1] = w
      /\ \A i \in 2 .. Len(s) + 1 : r[i] = Prints(s)[i - 1]
  <2> HIDE DEF w
  <2> QED  BY <1>2, PrintsOf DEF Cons
<1> HIDE DEF t, r
<1>4. Prints(t) = r
  <2>1. \A i \in 1 .. Len(s) + 1 : Prints(t)[i] = r[i]
    <3> TAKE i \in 1 .. Len(s) + 1
    <3>1. Prints(t)[i] = [weight |-> Footprint(t[i])]
      BY <1>1, PrintsOf
    <3>2. CASE i = 1
      BY <1>1, <1>3, <3>1, <3>2
    <3>3. CASE i # 1
      <4>1. i \in 2 .. Len(s) + 1 /\ i - 1 \in 1 .. Len(s)
        BY <3>3
      <4> QED  BY <1>1, <1>3, <3>1, <4>1, PrintsOf
    <3> QED  BY <3>2, <3>3
  <2>2. Prints(t) \in Seq([weight : Int]) /\ Len(Prints(t)) = Len(s) + 1
    BY <1>1, PrintsOf
  <2> QED  BY <1>3, <2>1, <2>2, SeqEqual
<1>5. Total(r) = Total(Prints(s)) + w.weight
  <2> HIDE DEF w
  <2> QED  BY <1>2, PrintsOf, TotalCons DEF r
<1>6. Chunks(t) = Total(Prints(t))
  BY <1>1, PrintsOf
<1> QED  BY <1>2, <1>4, <1>5, <1>6, PrintsOf DEF t

LEMMA ChunksRemoveAt ==
    ASSUME NEW s \in Seq(Peer), NEW k \in 1 .. Len(s)
    PROVE  Chunks(RemoveAt(s, k)) = Chunks(s) - Footprint(s[k])
<1> DEFINE t == RemoveAt(s, k)
           p == Prints(s)
           r == RemoveAt(p, k)
<1>1. /\ t \in Seq(Peer) /\ Len(t) = Len(s) - 1
      /\ \A i \in 1 .. Len(s) - 1 : t[i] = IF i < k THEN s[i] ELSE s[i + 1]
  BY PeersWeighted, TotalRemoveAt
<1>2. /\ p \in Seq([weight : Int]) /\ Len(p) = Len(s) /\ Weighted(p)
      /\ \A i \in 1 .. Len(s) : p[i] = [weight |-> Footprint(s[i])]
      /\ Chunks(s) = Total(p)
  BY PrintsOf
<1> HIDE DEF p
<1>3. /\ r \in Seq([weight : Int]) /\ Len(r) = Len(s) - 1
      /\ \A i \in 1 .. Len(s) - 1 : r[i] = IF i < k THEN p[i] ELSE p[i + 1]
      /\ Total(r) = Total(p) - p[k].weight
  <2>1. k \in 1 .. Len(p)
    BY <1>2
  <2>2. \A i \in 1 .. Len(p) - 1 : r[i] = IF i < k THEN p[i] ELSE p[i + 1]
    BY <1>2, <2>1, TotalRemoveAt
  <2>3. /\ r \in Seq([weight : Int]) /\ Len(r) = Len(p) - 1
        /\ Total(r) = Total(p) - p[k].weight
    BY <1>2, <2>1, TotalRemoveAt
  <2> QED  BY <1>2, <2>2, <2>3
<1> HIDE DEF t, r
<1>4. Prints(t) = r
  <2>1. \A i \in 1 .. Len(s) - 1 : Prints(t)[i] = r[i]
    <3> TAKE i \in 1 .. Len(s) - 1
    <3>1. Prints(t)[i] = [weight |-> Footprint(t[i])]
      BY <1>1, PrintsOf
    <3>2. i \in 1 .. Len(s) /\ i + 1 \in 1 .. Len(s)
      OBVIOUS
    <3> QED  BY <1>1, <1>2, <1>3, <3>1, <3>2
  <2>2. Prints(t) \in Seq([weight : Int]) /\ Len(Prints(t)) = Len(s) - 1
    BY <1>1, PrintsOf
  <2>3. /\ Len(Prints(t)) = Len(r)
        /\ \A i \in 1 .. Len(Prints(t)) : Prints(t)[i] = r[i]
    BY <1>3, <2>1, <2>2
  <2> QED  BY <1>3, <2>2, <2>3, SeqEqual
<1>5. Chunks(t) = Total(r)
  BY <1>1, <1>4, PrintsOf
<1>6. p[k].weight = Footprint(s[k])
  <2>1. p[k] = [weight |-> Footprint(s[k])]
    BY <1>2
  <2> QED  BY <2>1
<1> QED  BY <1>2, <1>3, <1>5, <1>6 DEF t

LEMMA ChunksReplaceAt ==
    ASSUME NEW s \in Seq(Peer), NEW k \in 1 .. Len(s), NEW e \in Peer,
           e.pooled = s[k].pooled
    PROVE  Chunks(ReplaceAt(s, k, e)) = Chunks(s)
<1> DEFINE t == ReplaceAt(s, k, e)
<1>1. /\ t \in Seq(Peer) /\ Len(t) = Len(s)
      /\ \A i \in 1 .. Len(s) : t[i] = IF i = k THEN e ELSE s[i]
  BY DEF ReplaceAt
<1> HIDE DEF t
<1>2. \A i \in 1 .. Len(s) : Prints(t)[i] = Prints(s)[i]
  <2> TAKE i \in 1 .. Len(s)
  <2>1. Footprint(t[i]) = Footprint(s[i])
    BY <1>1 DEF Footprint
  <2>2. /\ Prints(t)[i] = [weight |-> Footprint(t[i])]
        /\ Prints(s)[i] = [weight |-> Footprint(s[i])]
    BY <1>1, PrintsOf
  <2> QED  BY <2>1, <2>2
<1>3. Prints(t) = Prints(s)
  <2>1. /\ Prints(t) \in Seq([weight : Int]) /\ Len(Prints(t)) = Len(s)
        /\ Prints(s) \in Seq([weight : Int]) /\ Len(Prints(s)) = Len(s)
    BY <1>1, PrintsOf
  <2> QED  BY <1>2, <2>1, SeqEqual
<1> QED  BY <1>1, <1>3, PrintsOf DEF t

LEMMA GroupsFinite ==
    ASSUME NEW z PROVE IsFiniteSet(Group) /\ IsFiniteSet(GroupsIn(z))
<1>1. IsFiniteSet(BOOLEAN)
  <2>1. BOOLEAN = {TRUE} \cup {FALSE}
    OBVIOUS
  <2>2. IsFiniteSet({TRUE}) /\ IsFiniteSet({FALSE})
    BY FS_Singleton
  <2>3. IsFiniteSet({TRUE} \cup {FALSE})
    BY <2>2, FS_Union, Zenon
  <2> QED  BY <2>1, <2>3, Zenon
<1>2. IsFiniteSet(Group)
  BY <1>1, SystemAssumption, FS_Product DEF Group
<1> QED  BY <1>2, FS_Subset DEF GroupsIn

\* The chunks of the backup groups that calls have made.
Made(z) == Cardinality({ g \in GroupsIn(z) : g[2] /\ next[g[1]] })

LEMMA HeldType ==
    ASSUME TypeOK, NEW z
    PROVE  Held(z) \in Int /\ Made(z) \in Int
<1>1. \A g \in GroupsIn(z) : Chunks(list[g]) \in Int /\ g \in Group
  BY PrintsOf DEF GroupsIn, TypeOK
<1>2. SumFunctionOnSet([g \in Group |-> Chunks(list[g])], GroupsIn(z)) \in Int
  <2> DEFINE f == [g \in Group |-> Chunks(list[g])]
  <2>1. \A g \in GroupsIn(z) : f[g] \in Int
    BY <1>1
  <2> HIDE DEF f
  <2>2. SumFunctionOnSet(f, GroupsIn(z)) \in Int
    BY <2>1, GroupsFinite, SumEquation
  <2> QED  BY <2>2 DEF f
<1>3. Made(z) \in Int
  BY GroupsFinite, FS_Subset, FS_CardinalityType DEF Made
<1> QED  BY <1>2, <1>3 DEF Held, Made

\* A loop changes what its zone holds by what its list holds.
LEMMA HeldOfList ==
    ASSUME TypeOK, TypeOK', grp \in Group, next' = next,
           NEW s \in Seq(Peer), list' = [list EXCEPT ![grp] = s],
           NEW z \in Zone
    PROVE  Held(z)' = IF z = zone
                      THEN Held(z) - Chunks(list[grp]) + Chunks(s)
                      ELSE Held(z)
<1> DEFINE f == [g \in Group |-> Chunks(list[g])]
           h == [g \in Group |-> Chunks(list'[g])]
           S == GroupsIn(z)
<1>1. \A g \in S : g \in Group
  BY DEF GroupsIn
<1>2. \A g \in S : f[g] \in Int /\ h[g] \in Int
  BY <1>1, PrintsOf DEF TypeOK
<1>3. \A g \in S \ {grp} : h[g] = f[g]
  BY <1>1 DEF TypeOK
<1>4. f[grp] = Chunks(list[grp]) /\ h[grp] = Chunks(s)
  BY DEF TypeOK
<1>5. grp \in S <=> z = zone
  BY DEF GroupsIn, grp, zone
<1>6. /\ Held(z) = SumFunctionOnSet(f, S) + Made(z)
      /\ Held(z)' = SumFunctionOnSet(h, S) + Made(z)
  BY DEF Held, Made
<1>7. Made(z) \in Int /\ IsFiniteSet(S)
  BY HeldType, GroupsFinite
<1> HIDE DEF f, h, S
<1>8. CASE grp \in S
  <2>a. ASSUME NEW a \in S, \A x \in S \ {a} : h[x] = f[x]
        PROVE  /\ SumFunctionOnSet(f, S) \in Int
               /\ SumFunctionOnSet(h, S) = SumFunctionOnSet(f, S) - f[a] + h[a]
    BY <1>2, <1>7, <2>a, SumChange
  <2>1. /\ SumFunctionOnSet(f, S) \in Int
        /\ SumFunctionOnSet(h, S) = SumFunctionOnSet(f, S) - f[grp] + h[grp]
    BY <1>3, <1>8, <2>a
  <2>2. f[grp] \in Int /\ h[grp] \in Int
    BY <1>2, <1>8
  <2> QED  BY <1>4, <1>5, <1>6, <1>7, <1>8, <2>1, <2>2
<1>9. CASE grp \notin S
  <2>1. \A g \in S : f[g] \in Int /\ h[g] = f[g]
    BY <1>2, <1>3, <1>9
  <2>2. SumFunctionOnSet(f, S) = SumFunctionOnSet(h, S)
    BY <1>7, <2>1, SumSame
  <2> QED  BY <1>5, <1>6, <1>9, <2>2
<1> QED  BY <1>8, <1>9

\* What a pool has, what its lists hold and what it lost.
Owned(z) == room[z] + Held(z) + lost[z]

LEMMA HeldSame ==
    ASSUME NEW z, list' = list, next' = next PROVE Held(z)' = Held(z)
BY DEF Held

LEMMA NewBackupKeeps ==
    ASSUME IInv, IInv', NEW c \in Calls, EnterNewBackup(c), NEW z \in Zone
    PROVE  Owned(z)' = Owned(z)
<1> DEFINE u == c.to.ups
           g0 == <<u, TRUE>>
           A == { g \in GroupsIn(z) : g[2] /\ next[g[1]] }
           B == { g \in GroupsIn(z) : g[2] /\ next'[g[1]] }
           sum == SumFunctionOnSet([g \in Group |-> Chunks(list[g])],
                                   GroupsIn(z))
<1>1. /\ u \in Upstream /\ ~next[u] /\ next' = [next EXCEPT ![u] = TRUE]
      /\ room' = [room EXCEPT ![ZoneOf[u]] = @ - 1]
      /\ list' = list /\ lost' = lost /\ ZoneOf[u] \in Zone
  BY SystemAssumption DEF EnterNewBackup, EnterLoop, Found, NoBackup
<1>2. /\ Held(z) = sum + Cardinality(A) /\ Held(z)' = sum + Cardinality(B)
      /\ Held(z) \in Int /\ Cardinality(A) \in Int
  BY <1>1, HeldType DEF Held, IInv, Made
<1>3. /\ room \in [Zone -> Nat] /\ lost \in [Zone -> Nat]
      /\ next \in [Upstream -> BOOLEAN]
  BY DEF IInv, TypeOK
<1>4. IsFiniteSet(A)
  BY GroupsFinite, FS_Subset
<1>5. CASE z = ZoneOf[u]
  <2>1. g0 \notin A
    BY <1>1, <1>3
  <2>a. g0 \in B
    BY <1>1, <1>3, <1>5 DEF GroupsIn, Group
  <2>b. \A g \in B : g[1] # u => g \in A
    BY <1>1, <1>3 DEF GroupsIn, Group
  <2>c. ASSUME NEW g \in B, g[1] = u PROVE g = g0
    <3>1. g \in Upstream \X BOOLEAN /\ g[2]
      BY DEF GroupsIn, Group
    <3>2. PICK v \in Upstream, b \in BOOLEAN : g = <<v, b>>
      BY <3>1
    <3>3. b = TRUE /\ v = u
      BY <2>c, <3>1, <3>2
    <3> QED  BY <3>2, <3>3
  <2>d. \A g \in A : g \in B
    BY <1>1, <1>3 DEF GroupsIn, Group
  <2>e. B = A \cup {g0}
    <3> HIDE DEF A, B, g0
    <3> QED  BY <2>a, <2>b, <2>c, <2>d
  <2> HIDE DEF A, B
  <2>2. Cardinality(B) = Cardinality(A) + 1
    BY <1>4, <2>1, <2>e, FS_AddElement
  <2>3. sum \in Int
    BY HeldType, PrintsOf, GroupsFinite, SumEquation DEF IInv, TypeOK, GroupsIn
  <2>4. room'[z] = room[z] - 1 /\ lost'[z] = lost[z]
    BY <1>1, <1>3, <1>5
  <2> HIDE DEF sum
  <2> QED  BY <1>2, <1>3, <2>2, <2>3, <2>4 DEF Owned
<1>6. CASE z # ZoneOf[u]
  <2>1. B = A
    BY <1>1, <1>3, <1>6 DEF GroupsIn, Group
  <2>2. room'[z] = room[z] /\ lost'[z] = lost[z]
    BY <1>1, <1>3, <1>6
  <2> HIDE DEF A, B, sum
  <2> QED  BY <1>2, <2>1, <2>2 DEF Owned
<1> QED  BY <1>5, <1>6

LEMMA BeginKeeps ==
    ASSUME IInv, IInv', Begin, NEW z \in Zone
    PROVE  Owned(z)' = Owned(z)
<1>1. PICK c \in Calls :
         \/ NotCompiledIn(c) \/ BadUrl(c) \/ NoMainConf(c) \/ NotFound(c)
         \/ Enter(c) \/ EnterNewBackup(c) \/ NewBackupFails(c)
  BY DEF Begin, Start
<1>2. CASE EnterNewBackup(c)
  BY <1>2, NewBackupKeeps
<1>3. CASE ~EnterNewBackup(c)
  <2>1. list' = list /\ next' = next /\ room' = room /\ lost' = lost
    BY <1>1, <1>3 DEF NotCompiledIn, BadUrl, NoMainConf, NotFound, Enter,
       NewBackupFails, Answer, EnterLoop, peers, slab
  <2> QED  BY <2>1, HeldSame DEF Owned
<1> QED  BY <1>2, <1>3

\* An iteration: the list it makes holds as much more as the pool has less.
LEMMA IterationKeeps ==
    ASSUME IInv, IInv', pc \in {"add", "del", "edit"}, next' = next,
           NEW s \in Seq(Peer), list' = [list EXCEPT ![grp] = s],
           NEW n \in Int, Chunks(s) + n = Chunks(list[grp]) + room[zone],
           room' = [room EXCEPT ![zone] = n], lost' = lost,
           NEW z \in Zone
    PROVE  Owned(z)' = Owned(z)
<1>1. /\ grp \in Group /\ zone \in Zone /\ list[grp] \in Seq(Peer)
      /\ room \in [Zone -> Nat] /\ lost \in [Zone -> Nat]
  BY LoopPlace DEF IInv, TypeOK
<1>2. Chunks(list[grp]) \in Int /\ Chunks(s) \in Int
  BY <1>1, PrintsOf
<1>3. Held(z)' = IF z = zone THEN Held(z) - Chunks(list[grp]) + Chunks(s)
                 ELSE Held(z)
  BY <1>1, HeldOfList DEF IInv
<1>4. Held(z) \in Int
  BY HeldType DEF IInv
<1>5. room'[z] = IF z = zone THEN n ELSE room[z]
  BY <1>1
<1>6. room[z] \in Int /\ lost'[z] = lost[z] /\ lost[z] \in Int
  BY <1>1
<1>7. CASE z = zone
  <2>1. /\ Owned(z) = room[z] + Held(z) + lost[z]
        /\ Owned(z)' = room'[z] + Held(z)' + lost'[z]
    BY DEF Owned
  <2>2. /\ Held(z)' = (Held(z) - Chunks(list[grp])) + Chunks(s)
        /\ room'[z] = (Chunks(list[grp]) + room[z]) - Chunks(s)
    BY <1>2, <1>3, <1>5, <1>6, <1>7
  <2>3. PICK a \in Int, b \in Int, c \in Int, d \in Int, e \in Int :
           /\ a = Chunks(list[grp]) /\ b = room[z] /\ c = Chunks(s)
           /\ d = Held(z) /\ e = lost[z]
    BY <1>2, <1>4, <1>6
  <2>4. /\ Held(z)' = (d - a) + c /\ room'[z] = (a + b) - c /\ lost'[z] = e
        /\ Owned(z) = b + d + e
    BY <1>6, <2>1, <2>2, <2>3
  <2>5. Owned(z)' = ((a + b) - c) + ((d - a) + c) + e
    BY <2>1, <2>4, Zenon
  <2>6. ((a + b) - c) + ((d - a) + c) + e = b + d + e
    OBVIOUS
  <2> QED  BY <2>4, <2>5, <2>6, Zenon
<1>8. CASE z # zone
  BY <1>3, <1>4, <1>5, <1>6, <1>8 DEF Owned
<1> QED  BY <1>7, <1>8

LEMMA StepKeeps ==
    ASSUME IInv, IInv', Step, NEW z \in Zone
    PROVE  Owned(z)' = Owned(z)
<1>1. CASE AddPeer
  <2> DEFINE s == Cons(NewPeer, list[grp])
  <2>1. /\ pc = "add" /\ call \in AddCalls /\ list[grp] \in Seq(Peer)
        /\ zone \in Zone /\ room \in [Zone -> Nat]
    BY <1>1, LoopPlace, CallFields DEF AddPeer, IInv, TypeOK
  <2>2. NewPeer \in Peer
    <3>1. cur \in 1 .. Len(call.addrs)
      BY <1>1, <2>1, SystemAssumption DEF AddPeer, AddAtEnd, AddCalls, IInv,
         TypeOK
    <3> QED  BY <2>1, <3>1, NewPeerIsPeer
  <2>3. Footprint(NewPeer) = 4
    BY DEF Footprint, NewPeer, PeerChunks
  <2>4. s \in Seq(Peer)
    BY <2>1, <2>2 DEF Cons
  <2>5. Chunks(s) = Chunks(list[grp]) + 4 /\ Chunks(list[grp]) \in Int
    BY <2>1, <2>2, <2>3, ChunksCons, PrintsOf
  <2>6. /\ next' = next /\ lost' = lost /\ list' = [list EXCEPT ![grp] = s]
        /\ room' = [room EXCEPT ![zone] = @ - 4]
    BY <1>1 DEF AddPeer, PeerChunks
  <2> HIDE DEF s
  <2> DEFINE n == room[zone] - 4
  <2>8. room' = [room EXCEPT ![zone] = n]
    BY <2>6
  <2>9. room[zone] \in Int
    BY <2>1
  <2>7. n \in Int /\ Chunks(s) + n = Chunks(list[grp]) + room[zone]
    BY <2>5, <2>9
  <2> HIDE DEF n
  <2> QED  BY <2>1, <2>4, <2>6, <2>7, <2>8, IterationKeeps
<1>2. CASE AddFails
  <2>1. PICK k \in 0 .. 3 :
           /\ room' = [room EXCEPT ![zone] = @ - k]
           /\ lost' = [lost EXCEPT ![zone] = @ + k]
           /\ list' = list /\ next' = next
    BY <1>2 DEF AddFails, Finish, peers
  <2>2. /\ zone \in Zone /\ Held(z) \in Int /\ Held(z)' = Held(z)
        /\ room \in [Zone -> Nat] /\ lost \in [Zone -> Nat]
    BY <1>2, <2>1, LoopPlace, HeldType, HeldSame DEF AddFails, IInv, TypeOK
  <2> QED  BY <2>1, <2>2 DEF Owned
<1>3. CASE DelUnlinks
  <2> DEFINE s == RemoveAt(list[grp], cur)
  <2>1. /\ pc = "del" /\ list[grp] \in Seq(Peer) /\ cur \in 1 .. Len(list[grp])
    BY <1>3, LoopPlace DEF DelUnlinks, InList, IInv, TypeOK
  <2>2. s \in Seq(Peer)
    BY <2>1, PeersWeighted, TotalRemoveAt
  <2>3. Chunks(s) = Chunks(list[grp]) - Freed(here)
    BY <2>1, ChunksRemoveAt DEF Freed, Footprint, here
  <2>4. Freed(here) \in Int
    BY DEF Freed, PeerChunks
  <2>5. /\ next' = next /\ lost' = lost /\ list' = [list EXCEPT ![grp] = s]
        /\ room' = [room EXCEPT ![zone] = @ + Freed(here)]
    BY <1>3 DEF DelUnlinks
  <2>6. Chunks(list[grp]) \in Int /\ room[zone] \in Int
    <3>1. zone \in Zone /\ room \in [Zone -> Nat]
      BY <2>1, LoopPlace DEF IInv, TypeOK
    <3> QED  BY <2>1, <3>1, PrintsOf
  <2> HIDE DEF s
  <2> DEFINE n == room[zone] + Freed(here)
  <2>7. /\ n \in Int /\ Chunks(s) + n = Chunks(list[grp]) + room[zone]
        /\ room' = [room EXCEPT ![zone] = n]
    BY <2>3, <2>4, <2>5, <2>6
  <2> HIDE DEF n
  <2> QED  BY <2>1, <2>2, <2>5, <2>7, IterationKeeps
<1>4. CASE EditSets
  <2> DEFINE s == ReplaceAt(list[grp], cur, Edited(here))
  <2>1. /\ pc = "edit" /\ list[grp] \in Seq(Peer) /\ call \in EditCalls
        /\ cur \in 1 .. Len(list[grp]) /\ room \in [Zone -> Nat]
        /\ zone \in Zone
    <3>1. pc = "edit" /\ cur \in 1 .. Len(list[grp])
      BY <1>4 DEF EditSets, InList, IInv, TypeOK
    <3>2. room \in [Zone -> Nat]
      BY DEF IInv, TypeOK
    <3> QED  BY <3>1, <3>2, LoopPlace, CallFields DEF IInv
  <2>2. here \in Peer /\ Edited(here) \in Peer
    BY <2>1, ElementOfSeq, EditedIsPeer DEF here
  <2>3. Edited(here).pooled = here.pooled
    BY <2>2 DEF Edited, Peer
  <2>4. s \in Seq(Peer) /\ Chunks(s) = Chunks(list[grp])
    BY <2>1, <2>2, <2>3, ChunksReplaceAt DEF ReplaceAt, here
  <2>5. Chunks(list[grp]) \in Int
    BY <2>1, PrintsOf
  <2>6. /\ next' = next /\ lost' = lost /\ list' = [list EXCEPT ![grp] = s]
        /\ room' = room
    BY <1>4 DEF EditSets, slab
  <2> HIDE DEF s
  <2> DEFINE n == room[zone]
  <2>7. /\ n \in Int /\ Chunks(s) + n = Chunks(list[grp]) + room[zone]
        /\ room' = [room EXCEPT ![zone] = n]
    BY <2>1, <2>4, <2>5, <2>6
  <2> HIDE DEF n
  <2> QED  BY <2>1, <2>4, <2>6, <2>7, IterationKeeps
<1>5. CASE \/ AddReturns \/ DelSkips \/ DelRefuses \/ DelReturns
           \/ EditSkips \/ EditReturns
  <2>1. list' = list /\ next' = next /\ room' = room /\ lost' = lost
    BY <1>5 DEF AddReturns, DelSkips, DelRefuses, DelReturns, EditSkips,
       EditReturns, Finish, peers, slab
  <2> QED  BY <2>1, HeldSame DEF Owned
<1> QED  BY <1>1, <1>2, <1>3, <1>4, <1>5 DEF Step

\* add.c, del.c and mdf.c never free a chunk of the slab pool twice, and lose
\* none but those of an allocation failure.
THEOREM SlabCorrectness == Spec => SlabConserved
<1>1. ASSUME IInv, IInv', [Next]_vars, NEW z \in Zone
      PROVE  Owned(z)' = Owned(z)
  <2>1. CASE Resume \/ UNCHANGED vars
    <3>1. list' = list /\ next' = next /\ room' = room /\ lost' = lost
      BY <2>1 DEF Resume, vars, peers, slab
    <3> QED  BY <3>1, HeldSame DEF Owned
  <2> QED  BY <1>1, <2>1, BeginKeeps, StepKeeps DEF Next
<1>2. IInv /\ IInv' /\ [Next]_vars
        => [\A z \in Zone : room'[z] + Held(z)' + lost'[z]
                              = room[z] + Held(z) + lost[z]]_vars
  BY <1>1 DEF Owned
<1> QED  BY <1>2, Invariance, PTL DEF Spec, SlabConserved

=============================================================================
