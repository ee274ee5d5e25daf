--------------------------- MODULE MCGIFDownloader ---------------------------
(* Four requests, three of them for the same URL, and one slot.             *)
EXTENDS GIFDownloader, TLC

CONSTANTS r1, r2, r3, r4, u, v

MCRequest == {r1, r2, r3, r4}
MCUrl == (r1 :> u) @@ (r2 :> u) @@ (r3 :> u) @@ (r4 :> v)
=============================================================================
