----------------------------- MODULE MCUpsPeers -----------------------------
(***************************************************************************)
(* Small instances of UpsPeers for TLC.  web is an http upstream and dns a *)
(* stream one; bare is an http upstream without a zone.                    *)
(***************************************************************************)
EXTENDS UpsPeers

CONSTANTS web, bare, dns, http, stream, z1, n1, n2, s1, s2

MCKindOf == [u \in Upstream |-> IF u = dns THEN stream ELSE http]
MCZoneOf == [u \in Upstream |-> IF u = bare THEN NoZone ELSE z1]

Conf1(n, s, w, d) ==
    [name |-> n, server |-> s, weight |-> w, effective_weight |-> w,
     max_conns |-> 0, max_fails |-> 1, fail_timeout |-> 10, down |-> d,
     pooled |-> FALSE]

\* The lists of an upstream with the given primary and backup peers; the
\* other upstreams have one peer.
Lists(u, primary, backup) ==
    [g \in Group |-> CASE g = <<u, FALSE>> -> primary
                       [] g = <<u, TRUE>>  -> backup
                       [] g[1] # u /\ ~g[2] -> << Conf1(n1, s1, 1, 0) >>
                       [] OTHER -> << >>]

a == Conf1(n1, s1, 1, 0)
b == Conf1(n2, s1, 3, 0)
d == Conf1(n2, s1, 4, 1)

\* Two neighbours that one entry asks for.
ListConfigs == { Lists(web, << b, b >>, << >>) }

EditConfigs == { Lists(web, << a, b, d >>, << >>) }

\* With a peer whose strings nginx has copied into the zone.
BackupConfigs == { Lists(web, << a >>, << [a EXCEPT !.pooled = TRUE] >>) }

\* ngx_parse_url may refuse, find one address, or two.
Addresses == { << n1, n2 >> }
BadAddress == { << >> }
AnyAddress == { << >>, << n1 >> }

NegativeOrNone == {NoVal, -1}
AnyNumber == {NoVal, -1, 0, 2}

=============================================================================
