---------------------------- MODULE MCHttpRequest ----------------------------
(***************************************************************************)
(* A small instance of HttpRequest for TLC.                                *)
(***************************************************************************)
EXTENDS HttpRequest

\* The methods between other strings, in the order of strcmp.
MCStrings == << "", "add", "addx", "del", "edit", "lst", "zzz" >>

=============================================================================
