---------------------------- MODULE MCPollSelect ----------------------------
(* Small instances of PollSelect for TLC.                                  *)
EXTENDS PollSelect, TLC

CONSTANTS t1, t2, a, b, in, hup

(* Two threads; the second polls the same object twice, once for nothing   *)
(* but hangups.                                                            *)
MCObjTwo  == (t1 :> (0 :> a @@ 1 :> b)) @@ (t2 :> (0 :> b @@ 1 :> b))
MCWantTwo == (t1 :> (0 :> {in} @@ 1 :> {in})) @@ (t2 :> (0 :> {} @@ 1 :> {in}))

(* One thread with two entries.                                            *)
MCObjOne  == t1 :> (0 :> a @@ 1 :> b)
MCWantOne == t1 :> (0 :> {in} @@ 1 :> {})

(* Select used as a sleep: no entries at all.                              *)
MCObjNone  == t1 :> <<>>
MCWantNone == t1 :> <<>>
=============================================================================
