----------------------------- MODULE MCHandshake -----------------------------
(* A session on a machine that has no bundle yet, with a credential that has *)
(* to be renewed and a backend that does not answer at first: the way from   *)
(* here leads through the other beginnings, as the backend recovers and      *)
(* attempts are made.                                                        *)
EXTENDS Handshake

MCInit == Init /\ mood = "silent" /\ cred = "expired" /\ bundle = 0

MCSpec == MCInit /\ [][Next]_vars /\ Fairness
=============================================================================
