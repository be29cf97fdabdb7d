----------------------------- MODULE MCIotCloud -----------------------------
(* Intervals for IotCloud.cfg and IotWeb.cfg.                               *)
EXTENDS IotCloud

\* all of them reach beyond the error timer
LongIntervals == [r \in Req |-> IF r = 1 THEN 3 ELSE 4]
=============================================================================
