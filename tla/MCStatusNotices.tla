--------------------------- MODULE MCStatusNotices ---------------------------
(* A member who may leave and come back, the flags that show as one access   *)
(* level, and two workers; an observation may leave a flag open.             *)
EXTENDS StatusNotices, TLC

CONSTANTS u1, u2, w1, w2, d1, a

Is(m, g, decisive) ==
  [f \in {"member", "guest"} |-> [value |-> IF f = "member" THEN m ELSE g, decisive |-> decisive]]
MCObservations ==
  {Is("yes", "no", TRUE), Is("no", "yes", TRUE), Is("unset", "yes", FALSE)}

ASSUME StatusNoticesConstants == ConstantsOK
=============================================================================
