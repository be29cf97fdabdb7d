----------------------------- MODULE MCHistory -----------------------------
(* Readers for History.cfg and HistoryRows.cfg: one connection reads both     *)
(* histories, another one days, so that both may use HistorySums.             *)
EXTENDS History

MinutesOf == {"r"}
DaysOf == {"r", "q"}
=============================================================================
