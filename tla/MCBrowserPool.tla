--------------------------- MODULE MCBrowserPool ---------------------------
(* Small instances of BrowserPool for TLC: requests r1 ..., a probe h1. *)
EXTENDS BrowserPool

CONSTANTS r1, r2, r3, r4, h1
=============================================================================
