------------------------------ MODULE MCDaemon ------------------------------
(***************************************************************************)
(* Three builds: the newer one has a migration more than the older one,    *)
(* and one was edited after its release.                                   *)
(***************************************************************************)
EXTENDS DaemonProps, TLC

CONSTANTS d1, d2, d3, d4, p1, p2, old, new, edited

McSql == old :> <<"a">> @@ new :> <<"a", "b">> @@ edited :> <<"c", "b">>

Symmetry == Permutations({d1, d2, d3, d4} \cap Pid) \cup Permutations({p1, p2})

(* The daemons in the order of their ports and builds.  Every initial      *)
(* state is one of these but for the names of the daemons, and liveness is *)
(* not checked with SYMMETRY.                                              *)
Rank(d) ==
  (IF port[d] = p1 THEN 0 ELSE 3)
  + (CHOOSE k \in 1..3 : <<old, new, edited>>[k] = build[d])

McInit ==
  /\ Init
  /\ \A j, k \in 1..3 : j < k => Rank(<<d1, d2, d3>>[j]) <= Rank(<<d1, d2, d3>>[k])

McSpec == McInit /\ [][Next]_vars /\ Fairness
=============================================================================
