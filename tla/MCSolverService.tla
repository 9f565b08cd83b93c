-------------------------- MODULE MCSolverService --------------------------
(* Small instances of SolverService for TLC: requests that pass every check *)
(* and requests that fail one, and the symbols of URLs and attributes.      *)
EXTENDS SolverService

CONSTANTS r1, r2, r3, t1, t2

Https == <<"https", ":", "/", "/">>

Turnstile(url, sitekey) == [kind |-> "turnstile", url |-> url, sitekey |-> sitekey]
Iuam(url) == [kind |-> "iuam", url |-> url, sitekey |-> None]

(* One client may leave; the requests of the others may fail at any check. *)
MCAsks ==
    r1 :> {Turnstile(Https, <<"x", "-">>)} @@
    r2 :> {Turnstile(Https \o <<"host", "/">>, <<"x", "-">>),
           Turnstile(Https \o <<"host">>, <<"x", "<">>),
           Iuam(Https),
           Iuam(<<"host">>)} @@
    r3 :> {Iuam(Https \o <<"host">>), Turnstile(Https \o <<"host">>, <<"x">>)}

MCSymbols == {"https", ":", "/", "host", "x", "-", "<"}

MCUrlSymbols == {"https", ":", "/", "host", "?", "#"}

MCTextSymbols == {"&", "<", "\"", "'", "amp", ";"}
=============================================================================
