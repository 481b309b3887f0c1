----------------------------- MODULE MethodTable -----------------------------
(***************************************************************************)
(* The two tables of the module: services, which is sorted when the        *)
(* configuration is read and searched by bsearch for every document, and   *)
(* msg_list, which gives a code its text.                                  *)
(***************************************************************************)
EXTENDS Integers, Sequences, Functions

CONSTANTS
    Strings,  \* the strings "method" may be, in the order of strcmp
    NoMethod  \* what tbl_bsearch returns for a string that is not a key

Keys == {"lst", "add", "del", "edit"}

ASSUME TableAssumption ==
    /\ Strings \in Seq(STRING)
    /\ \A i, j \in DOMAIN Strings : Strings[i] = Strings[j] => i = j
    /\ \A k \in Keys : \E i \in DOMAIN Strings : Strings[i] = k
    /\ NoMethod \notin Keys

strcmp(a, b) ==
    LET Place(s) == CHOOSE i \in DOMAIN Strings : Strings[i] = s
    IN  Place(a) - Place(b)

-----------------------------------------------------------------------------
\* A method is named by the key of its entry.
services == << "lst", "add", "del", "edit" >>

tbl_sort(tbl) ==
    LET from == CHOOSE p \in Bijection(DOMAIN tbl, DOMAIN tbl) :
                   \A i, j \in DOMAIN tbl :
                      i < j => strcmp(tbl[p[i]], tbl[p[j]]) <= 0
    IN  [i \in DOMAIN tbl |-> tbl[from[i]]]

\* Mutant: the table stays in the order it is written in.
MutTable == services

\* The table that json_rpc searches.  Each "ups_mgr" of the configuration
\* sorts it once more.
Table == tbl_sort(services)

\* The C library's bsearch: what it finds in the entries s[1] .. s[2]-1,
\* counted from 0, which it halves at idx.
idx(s) == (s[1] + s[2]) \div 2

bsearch(tbl, key) ==
    LET Search[s \in (0 .. Len(tbl)) \X (0 .. Len(tbl))] ==
            IF s[1] >= s[2] THEN NoMethod
            ELSE IF strcmp(key, tbl[idx(s) + 1]) < 0 THEN Search[<< s[1], idx(s) >>]
            ELSE IF strcmp(key, tbl[idx(s) + 1]) > 0 THEN Search[<< idx(s) + 1, s[2] >>]
            ELSE tbl[idx(s) + 1]
    IN  Search

tbl_bsearch(tbl, key) == bsearch(tbl, key)[<< 0, Len(tbl) >>]

-----------------------------------------------------------------------------
E_SUCCESS         == 0
E_INVALID_REQUEST == -1
E_INVALID_METHOD  == -2
E_NO_MEM          == -3
E_NO_ALLOW        == -1008

\* The last entry is the one that is found for every other code.
msg_list ==
    << << -1, "Invalid request" >>, << -2, "Invalid method" >>,
       << -1000, "Upstream left one peer" >>,
       << -1001, "Push array return null" >>,
       << -1002, "Pushn array return null" >>,
       << -1003, "Array Create return null" >>, << -1004, "Parse url error" >>,
       << -1005, "Slab alloc error" >>, << -1006, "Slab calloc error" >>,
       << -1007, "function not compile in" >>, << -1008, "Not allow" >>,
       << -1009, "No upstream found" >>, << 0, "success" >> >>

\* The text of the first of the entries is that is for the code, or the last.
FirstOf(is, proto) ==
    LET lp == CHOOSE i \in is :
                 /\ msg_list[i][1] \in {0, proto}
                 /\ \A j \in is : j < i => msg_list[j][1] \notin {0, proto}
    IN  msg_list[lp][2]

\* Mutant: the search starts behind the first entry.
MutErrmsg(proto) == FirstOf(2 .. Len(msg_list), proto)

ups_errmsg(proto) == FirstOf(1 .. Len(msg_list), proto)

=============================================================================
