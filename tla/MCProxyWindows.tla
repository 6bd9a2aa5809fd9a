-------------------------- MODULE MCProxyWindows ---------------------------
EXTENDS ProxyWindows

CONSTANTS a, b, own, frame

(* The proxy's window fits the largest; the others cover its middle, a     *)
(* corner of it or all of it.                                              *)
MCPlaces == {Rect(0, 0, 3, 3), Rect(1, 1, 1, 1), Rect(2, 1, 2, 2)}
=============================================================================
