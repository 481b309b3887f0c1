----------------------------- MODULE CallTable -----------------------------
(***************************************************************************)
(* What the functions that change a zone promise to each of the workers    *)
(* that call them at the same time, whatever their steps: a call of add    *)
(* puts one peer into one group, or none; a call of del takes out peers    *)
(* that match, one at a time; a call of edit gives peers that match        *)
(* another weight.  Each of these happens at once, nothing else changes a  *)
(* group, and a call may be cut short at any time, with what it has done   *)
(* so far done completely.                                                 *)
(***************************************************************************)
EXTENDS Naturals, Functions

CONSTANTS
    Worker,  \* who calls
    Group,   \* the groups of peers
    Peer,    \* the peers there can be
    Name,    \* their names
    NoName   \* the name that a call gives which asks for every peer

VARIABLES
    table,   \* table[g]: the name and weight of each peer of g
    asked    \* what each worker's call still has to do

vars == << table, asked >>

Asks == [op : {"add", "del", "edit"}, want : Name \cup {NoName}, weight : Nat]
Nothing == [op |-> "none", want |-> NoName, weight |-> 0]

Present == UNION { DOMAIN table[g] : g \in Group }
Wanted(w, p, g) == asked[w].want \in {NoName, table[g][p].name}

Init ==
    /\ \A g, h \in Group : g # h => DOMAIN table[g] \cap DOMAIN table[h] = {}
    /\ asked = [w \in Worker |-> Nothing]

Ask(w) ==
    /\ asked[w] = Nothing
    /\ asked'[w] \in Asks
    /\ asked' = [asked EXCEPT ![w] = asked'[w]]
    /\ UNCHANGED table

\* The call has found the last peer that matches, has failed, or its worker
\* has died.
Stop(w) == asked' = [asked EXCEPT ![w] = Nothing]

GiveUp(w) == Stop(w) /\ UNCHANGED table

\* The only change a call of add makes.
Add(w) ==
    /\ asked[w].op = "add"
    /\ \E g \in Group, p \in Peer \ Present :
          table' = [table EXCEPT ![g] =
                      [q \in DOMAIN @ \cup {p} |->
                         IF q = p THEN [name   |-> asked[w].want,
                                        weight |-> asked[w].weight]
                         ELSE @[q]]]
    /\ Stop(w)

Del(w) ==
    /\ asked[w].op = "del"
    /\ \E g \in Group : \E p \in DOMAIN table[g] :
          /\ Wanted(w, p, g)
          /\ table' = [table EXCEPT ![g] = Restrict(@, DOMAIN @ \ {p})]
    /\ UNCHANGED asked

Edit(w) ==
    /\ asked[w].op = "edit"
    /\ \E g \in Group : \E p \in DOMAIN table[g] :
          /\ Wanted(w, p, g)
          /\ table' = [table EXCEPT ![g][p].weight = asked[w].weight]
    /\ UNCHANGED asked

Next == \E w \in Worker : Ask(w) \/ GiveUp(w) \/ Add(w) \/ Del(w) \/ Edit(w)

Spec == Init /\ [][Next]_vars

=============================================================================
