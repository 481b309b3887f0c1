----------------------------- MODULE PeerTable -----------------------------
(***************************************************************************)
(* What the module promises about the upstreams it manages, whatever the   *)
(* steps of its functions: each upstream has a table of primary peers and  *)
(* may be given one of backup peers; a table changes by one peer at a time;*)
(* a peer keeps its name and server for as long as it is in the table; a   *)
(* table that has a peer always keeps one; and the summary that "lst" and  *)
(* the load balancer read is that of the table in every state.             *)
(***************************************************************************)
EXTENDS PeerLists

CONSTANT Upstream

VARIABLES
    table,     \* table[<<u, b>>]: the primary or backup peers of u
    hasBackup, \* hasBackup[u]: u has a backup table
    number,    \* the summary: the number of peers of a table
    weight     \* the summary: the sum of their weights

vars == <<table, hasBackup, number, weight>>

Group == Upstream \X BOOLEAN

Exists(g) == g[2] => hasBackup[g[1]]

Summarised ==
    /\ number = [g \in Group |-> Len(table[g])]
    /\ weight = [g \in Group |-> Total(table[g])]

Init ==
    /\ \A u \in Upstream : table[<<u, FALSE>>] # << >>
    /\ hasBackup = [u \in Upstream |-> table[<<u, TRUE>>] # << >>]
    /\ Summarised

\* A new peer stands before the others.
Grow(g) == Exists(g) /\ table'[g] # << >> /\ Tail(table'[g]) = table[g]

\* One peer leaves, never the last one.
Shrink(g) ==
    /\ Len(table[g]) > 1
    /\ \E i \in 1 .. Len(table[g]) : table'[g] = RemoveAt(table[g], i)

\* One peer's settings change.
Change(g) ==
    \E i \in 1 .. Len(table[g]) :
       /\ table'[g] = ReplaceAt(table[g], i, table'[g][i])
       /\ table'[g][i].name = table[g][i].name
       /\ table'[g][i].server = table[g][i].server

ChangeTable ==
    \E g \in Group :
       /\ Grow(g) \/ Shrink(g) \/ Change(g)
       /\ \A h \in Group \ {g} : table'[h] = table[h]
       /\ Summarised'
       /\ UNCHANGED hasBackup

AddBackupTable ==
    \E u \in Upstream :
       /\ ~hasBackup[u]
       /\ hasBackup' = [hasBackup EXCEPT ![u] = TRUE]
       /\ UNCHANGED <<table, number, weight>>

Next == ChangeTable \/ AddBackupTable

Spec == Init /\ [][Next]_vars

=============================================================================
