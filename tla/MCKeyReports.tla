---------------------------- MODULE MCKeyReports ----------------------------
(* Model-checking instance of KeyReports: the voice button, a key that the   *)
(* Report Map explains and one that it does not share a report; a fourth key *)
(* has a report of its own.                                                  *)
EXTENDS KeyReports

CONSTANTS p1, p2, search, up, odd, power

MCPathOf == [k \in {search, up, odd, power} |-> IF k = power THEN p2 ELSE p1]
=============================================================================
