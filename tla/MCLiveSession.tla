---------------------------- MODULE MCLiveSession ----------------------------
(* A small instance of LiveSession. *)
EXTENDS LiveInvariant, TLC

CONSTANTS s1, s2, s3, k1, k2, k3, c1, c2

\* s1 subscribes k1 and s2 subscribes k2, which share a client; s3 the same
\* as s1, or k3, which has another client.
MCMarketOf ==
  [s \in Subs |-> CASE s = s2 -> k2
                     [] s = s3 /\ k3 \in Markets -> k3
                     [] OTHER -> k1]
MCClientOf == [k \in Markets |-> IF k = k3 THEN c2 ELSE c1]
=============================================================================
