---- MODULE MCTranscode ----
(* Requests are interchangeable.  What follows a cut is not explored: the  *)
(* properties say nothing of it.  Nor are two requests at a time once      *)
(* something has stopped.                                                  *)
EXTENDS Transcode, TLC

Symm == Permutations(Requests)
OneRequest == \A r, q \in Requests : req[r] # Idle /\ req[q] # Idle => r = q
Instance == ~cut /\ (stops = 0 \/ OneRequest)
====
