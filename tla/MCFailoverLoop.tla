--------------------------- MODULE MCFailoverLoop ---------------------------
(* FailoverLoop on small instances. *)
EXTENDS FailoverLoop

CONSTANTS a1, a2, a3

\* One account in pool mode with a retry, the others without.
MCRetryLimit == [a \in Accounts |-> IF a = a1 THEN 1 ELSE 0]
=============================================================================
