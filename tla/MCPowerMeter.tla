---------------------------- MODULE MCPowerMeter ----------------------------
(* Instances of PowerMeter for TLC.                                        *)
EXTENDS PowerMeter

\* A device whose FRAM was cleared and one in use for some days.
NewDevice == Zeroes
InUse == [Zeroes EXCEPT !.TotalCnt = StartTotal, !.LastTime = StartTime,
                        !.LastDay = StartTime \div DayLen]
=============================================================================
