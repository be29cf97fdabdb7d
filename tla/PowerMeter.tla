----------------------------- MODULE PowerMeter -----------------------------
(***************************************************************************)
(* The accounting of app/user/power_meter.c: once a minute the energy the  *)
(* meter counted is moved from its running total into a ring of minutes    *)
(* and a ring of days in flash, and the working record fram_store is kept  *)
(* in FRAM every few minutes.                                              *)
(*                                                                         *)
(* One call of update_cnt_timer_func is split where the power may fail     *)
(* with another outcome: before, between and after the passes of its loop  *)
(* (Count), the by-day part (StoreDay, NoNewDay) and the FRAM write        *)
(* (Save).  pc says where the call is; nothing else runs meanwhile.        *)
(*                                                                         *)
(* Time is counted in minutes (TIME_STEP_SEC) and energy in the meter's    *)
(* units.  A flash cell can only be programmed from its erased state;      *)
(* programming it again leaves the bitwise AND of both values.             *)
(***************************************************************************)
EXTENDS Integers, Sequences

CONSTANTS
  NMinutes, NDays,      \* elements of the ring of minutes and of the ring of days
  MinSector, DaySector, \* elements of one flash sector in each ring
  MaxLoop,              \* passes after the first one in a call (400)
  Cap,                  \* most energy one minute element holds (65534)
  Huge,                 \* PowerCnt above which it is not spread (1000000)
  LongGap,              \* minutes after which the minutes are not filled in (200 days)
  YearGap,              \* days after which the days are not filled in (365)
  SavePeriod,           \* FRAM_SAVE_PERIOD
  NPos,                 \* places for fram_store in the FRAM
  TornSaves,            \* whether the power may fail inside a FRAM write
  StartTime, StartTotal,\* the meter's clock and total in the initial state
  StartStore,           \* fram_store in the initial state
  Faults,               \* what may go wrong: "flash", "fram", "bad", "halt"
  WebCommands,          \* "reset_data", "TotalCnt", "LastDay"
  MaxUse,               \* bound: energy used in a minute
  MaxDown,              \* bound: minutes without power
  MaxTime,              \* bound: the meter's clock
  DayLen,               \* minutes in a day
  MaxFaults, MaxCrashes, MaxWeb   \* bounds

ASSUME PowerMeterAssumption ==
  /\ \A n \in {NMinutes, NDays, MinSector, DaySector, Cap, SavePeriod, NPos, StartTime,
               DayLen, LongGap, YearGap} : n \in Nat \ {0}
  /\ \A n \in {MaxLoop, Huge, StartTotal, MaxUse, MaxDown, MaxTime,
               MaxFaults, MaxCrashes, MaxWeb} : n \in Nat
  /\ NMinutes % MinSector = 0 /\ NDays % DaySector = 0
  /\ StartStore \in [{"PowerCnt", "TotalCnt", "PtrCurrent", "LastTime",
                      "PtrCurrentByDay", "LastDay"} -> Nat]
  /\ StartStore.PowerCnt = 0 /\ StartStore.TotalCnt <= StartTotal
  /\ StartStore.PtrCurrent < NMinutes /\ StartStore.PtrCurrentByDay < NDays
  /\ TornSaves \in BOOLEAN
  /\ Faults \subseteq {"flash", "fram", "bad", "halt"}
  /\ WebCommands \subseteq {"reset_data", "TotalCnt", "LastDay"}

VARIABLES
  ram,        \* fram_store
  fram,       \* the FRAM: what is stored at each place
  pos,        \* cfg_glo.Fram_Pos
  minutes,    \* the ring of minutes (ArrayOfCnts)
  days,       \* the ring of days (ArrayByDay)
  clock,      \* pwmt_cur.Time, 0 while it is not known
  known,      \* the sum of pwmt_cur.Total
  dayRead,    \* pwmt_arch.DayLastRead
  status,     \* FRAM_Status
  halted,     \* Fram_halted
  countdown,  \* Fram_SaveCountdown
  pc,         \* where the call of update_cnt_timer_func is
  loops,      \* maxloop
  full,       \* save_size covers the by-day part
  overrun,    \* history: a call left energy in PowerCnt for the next one
  time, total,\* the meter: its clock and its total
  faults, crashes, webs   \* what is left of the bounds

work == <<status, halted, countdown>>
call == <<pc, loops, full>>
inputs == <<clock, known, dayRead>>
world == <<time, total>>
budget == <<faults, crashes, webs>>
vars == <<ram, fram, pos, minutes, days, inputs, work, call, overrun, world, budget>>

\* Cells: Erased, 0, or what was programmed (energy of a minute; the day on
\* which the energy of the day before was read); Mixed is the AND of two others.
Erased == -1
Mixed  == -2
Program(old, new) ==
  IF old = Erased \/ old = new THEN new ELSE IF 0 \in {old, new} THEN 0 ELSE Mixed
ProgramAt(ring, ptr, new) ==
  [i \in DOMAIN ring |-> IF i = ptr THEN Program(ring[i], new) ELSE ring[i]]

Blank == -1                     \* a FRAM word never written, 0xFFFFFFFF
Fields == {"PowerCnt", "TotalCnt", "PtrCurrent", "LastTime", "PtrCurrentByDay", "LastDay"}
ByMin  == {"PowerCnt", "TotalCnt", "PtrCurrent", "LastTime"}
\* The order in which eeprom_write_block sends them.
FieldOrder == <<"PowerCnt", "TotalCnt", "PtrCurrent", "LastTime",
                "PtrCurrentByDay", "LastDay">>
Zeroes == [f \in Fields |-> 0]
Blanks == [f \in Fields |-> Blank]
FirstFields(n) == {FieldOrder[i] : i \in 1..n}

\* The image a write of the fields F leaves at place p.
Written(p, F, store) ==
  [fram EXCEPT ![p] = [f \in Fields |-> IF f \in F THEN store[f] ELSE fram[p][f]]]

Places == 0..NPos - 1

TypeOK ==
  /\ ram \in [Fields -> Int]
  /\ fram \in [Places -> [Fields -> Int]]
  /\ pos \in Places
  /\ minutes \in [0..NMinutes - 1 -> Int] /\ days \in [0..NDays - 1 -> Int]
  /\ clock \in Nat /\ known \in Nat /\ dayRead \in Nat
  /\ status \in 0..2 /\ halted \in BOOLEAN /\ countdown \in Nat
  /\ pc \in {"idle", "count", "day", "save"} /\ loops \in 0..MaxLoop /\ full \in BOOLEAN
  /\ overrun \in BOOLEAN
  /\ time \in Nat /\ total \in Nat
  /\ faults \in 0..MaxFaults /\ crashes \in 0..MaxCrashes /\ webs \in 0..MaxWeb

\* A device that has just started, with a record in its FRAM: a cleared one,
\* or the one of a device that was in use before.
Init ==
  /\ fram = [p \in Places |-> IF p = 0 THEN StartStore ELSE Blanks]
  /\ pos = 0 /\ ram = StartStore
  /\ minutes = [i \in 0..NMinutes - 1 |-> Erased]
  /\ days = [i \in 0..NDays - 1 |-> Erased]
  /\ clock = 0 /\ known = 0 /\ dayRead = 0
  /\ status = 0 /\ halted = FALSE /\ countdown = SavePeriod
  /\ pc = "idle" /\ loops = 0 /\ full = FALSE /\ overrun = FALSE
  /\ time = StartTime /\ total = StartTotal
  /\ faults = MaxFaults /\ crashes = MaxCrashes /\ webs = MaxWeb

Fault(kind) == kind \in Faults /\ faults > 0 /\ faults' = faults - 1
NoFault == UNCHANGED faults

----------------------------------------------------------------------------
(* update_cnt_timer_func.                                                  *)
Due(store) == clock >= store.LastTime + 1

\* A minute has passed.  What the meter counted above TotalCnt is added to
\* the energy to process.
Pulses == IF known > ram.TotalCnt THEN known - ram.TotalCnt ELSE 0

MinuteTimer ==
  /\ pc = "idle" /\ clock # 0 /\ Due(ram) /\ status = 0
  /\ ram' = [ram EXCEPT !.PowerCnt = @ + Pulses]
  /\ pc' = "count" /\ loops' = MaxLoop /\ full' = FALSE
  /\ UNCHANGED <<fram, pos, minutes, days, inputs, work, overrun, world, budget>>

\* What one pass takes out of PowerCnt: it is spread over the minutes behind.
Share(power, behind) ==
  LET spread == IF power > 1 /\ behind >= 2 THEN power \div behind ELSE power
  IN  IF spread > Cap THEN Cap ELSE spread

\* The loop goes on while minutes are behind and passes are left.
AgainUnlimited(store) == Due(store)                    \* mutation: no maxloop
Again(store) == Due(store) /\ loops > 0

AfterPass(store) ==
  IF Again(store)
  THEN pc' = "count" /\ loops' = loops - 1 /\ UNCHANGED overrun
  ELSE /\ pc' = "day" /\ UNCHANGED loops
       /\ overrun' = (overrun \/ store.PowerCnt # 0)

Next1(ptr, n) == IF ptr + 1 >= n THEN 0 ELSE ptr + 1

\* Mutation: only the sector at the start of the ring is erased.
EraseAtStart(ring, ptr, sector) ==
  IF ptr # 0 THEN ring
  ELSE [i \in DOMAIN ring |-> IF i >= ptr /\ i < ptr + sector THEN Erased ELSE ring[i]]

EraseAt(ring, ptr, sector) ==
  IF ptr % sector # 0 THEN ring
  ELSE [i \in DOMAIN ring |-> IF i >= ptr /\ i < ptr + sector THEN Erased ELSE ring[i]]

\* The record after a pass that counted n in one minute.
\* Mutation: PowerCnt is not reduced.
CountedTwice(store, n) ==
  [store EXCEPT !.PtrCurrent = Next1(@, NMinutes), !.TotalCnt = @ + n, !.LastTime = @ + 1]
\* Mutation: TotalCnt is not increased.
CountedNowhere(store, n) ==
  [store EXCEPT !.PowerCnt = @ - n, !.PtrCurrent = Next1(@, NMinutes), !.LastTime = @ + 1]

Counted(store, n) ==
  [store EXCEPT !.PowerCnt = @ - n, !.PtrCurrent = Next1(@, NMinutes),
                !.TotalCnt = @ + n, !.LastTime = @ + 1]

\* update_cnts, first or after a long time, or with too much energy at once.
CountLongGap ==
  /\ pc = "count"
  /\ clock > ram.LastTime + LongGap \/ ram.PowerCnt > Huge
  /\ ram' = [ram EXCEPT !.LastTime = clock, !.TotalCnt = @ + ram.PowerCnt, !.PowerCnt = 0]
  /\ AfterPass(ram')
  /\ UNCHANGED <<fram, pos, minutes, days, inputs, work, full, world, budget>>

NormalPass ==
  /\ pc = "count"
  /\ clock <= ram.LastTime + LongGap /\ ram.PowerCnt <= Huge
  /\ UNCHANGED <<fram, pos, days, inputs, work, full, world, crashes, webs>>

Pcnt == Share(ram.PowerCnt, clock - ram.LastTime)

\* update_cnts, one element of the ring of minutes; when the pointer enters a
\* sector that sector is erased, so that the ring always ends at an erased cell.
CountMinute ==
  /\ NormalPass /\ NoFault
  /\ LET ptr == Next1(ram.PtrCurrent, NMinutes)
     IN  minutes' = EraseAt(ProgramAt(minutes, ram.PtrCurrent, Pcnt), ptr, MinSector)
  /\ ram' = Counted(ram, Pcnt)
  /\ AfterPass(ram')

\* The flash read or write failed: only PowerCnt has changed.
CountWriteFails ==
  /\ NormalPass /\ Fault("flash")
  /\ ram' = [ram EXCEPT !.PowerCnt = @ - Pcnt]
  /\ AfterPass(ram')
  /\ UNCHANGED minutes

\* The erase failed: the element is written but not counted.
CountEraseFails ==
  /\ NormalPass /\ Fault("flash")
  /\ LET ptr == Next1(ram.PtrCurrent, NMinutes)
     IN  /\ ptr % MinSector = 0
         /\ minutes' = ProgramAt(minutes, ram.PtrCurrent, Pcnt)
         /\ ram' = [ram EXCEPT !.PowerCnt = @ - Pcnt, !.PtrCurrent = ptr]
  /\ AfterPass(ram')

\* The by-day part.  A new day is one whose archive was read; no day is later
\* than a blank LastDay.
IsNewDay == dayRead # 0 /\ dayRead > ram.LastDay /\ ram.LastDay # Blank

NoNewDay ==
  /\ pc = "day" /\ ~IsNewDay
  /\ pc' = "save"
  /\ UNCHANGED <<ram, fram, pos, minutes, days, inputs, work, loops, full, overrun,
                 world, budget>>

DayBefore == IF dayRead - ram.LastDay > YearGap THEN dayRead - 1 ELSE ram.LastDay
\* Only the day just finished has a value, the others are stored as zero.
DayValueForAll == dayRead                 \* mutation: the others have it too
DayValue == IF dayRead - DayBefore = 1 THEN dayRead ELSE 0

NewDay ==
  /\ pc = "day" /\ IsNewDay
  /\ UNCHANGED <<fram, pos, minutes, inputs, status, halted, loops, overrun, world,
                 crashes, webs>>

DayWritten == ProgramAt(days, ram.PtrCurrentByDay, DayValue)

\* The days are stored one a call, up to the one whose archive was read.
NextDayIsRead == dayRead                  \* mutation: the days between are skipped
NextDay == DayBefore + 1

StoreDay ==
  /\ NewDay /\ NoFault
  /\ LET ptr == Next1(ram.PtrCurrentByDay, NDays)
     IN  /\ days' = EraseAt(DayWritten, ptr, DaySector)
         /\ ram' = [ram EXCEPT !.LastDay = NextDay, !.PtrCurrentByDay = ptr]
  /\ countdown' = 1 /\ full' = TRUE
  /\ pc' = "save"

\* The call returns with the day counted but not stored ...
StoreDayWriteFails ==
  /\ NewDay /\ Fault("flash")
  /\ ram' = [ram EXCEPT !.LastDay = NextDay]
  /\ pc' = "idle"
  /\ UNCHANGED <<days, countdown, full>>

\* ... or stored, in front of a sector that is not erased.
StoreDayEraseFails ==
  /\ NewDay /\ Fault("flash")
  /\ LET ptr == Next1(ram.PtrCurrentByDay, NDays)
     IN  /\ ptr % DaySector = 0
         /\ days' = DayWritten
         /\ ram' = [ram EXCEPT !.LastDay = NextDay, !.PtrCurrentByDay = ptr]
  /\ pc' = "idle"
  /\ UNCHANGED <<countdown, full>>

\* The FRAM part: every SavePeriod-th call, and at once after a new day, the
\* by-minute part of fram_store is saved, or all of it after a new day.
SaveSize == IF full THEN 6 ELSE 4     \* fields
SaveDue == ~halted /\ countdown = 1

CountdownAlways == countdown - 1          \* mutation: it also runs while halted
Countdown == IF halted THEN countdown ELSE countdown - 1

NoSave ==
  /\ pc = "save" /\ ~SaveDue
  /\ countdown' = Countdown
  /\ pc' = "idle"
  /\ UNCHANGED <<ram, fram, pos, minutes, days, inputs, status, halted, loops, full,
                 overrun, world, budget>>

SaveDone ==
  /\ pc = "save" /\ SaveDue
  /\ countdown' = SavePeriod
  /\ pc' = "idle"
  /\ UNCHANGED <<ram, minutes, days, inputs, halted, loops, full, overrun, world,
                 crashes, webs>>

Save ==
  /\ SaveDone /\ NoFault
  /\ fram' = Written(pos, FirstFields(SaveSize), ram)
  /\ UNCHANGED <<pos, status>>

\* The I2C write stops at a byte that is not acknowledged.
SaveFails ==
  /\ SaveDone /\ Fault("fram")
  /\ \E n \in 0..SaveSize - 1 : fram' = Written(pos, FirstFields(n), ram)
  /\ status' = 2
  /\ UNCHANGED pos

\* Reading a full image back shows that the FRAM is bad there: the record
\* moves to the next place, where it is written by the saves to come.
SaveFindsBad ==
  /\ SaveDone /\ full /\ Fault("bad")
  /\ pos' = IF pos + 1 >= NPos THEN 0 ELSE pos + 1
  /\ UNCHANGED <<fram, status>>

UpdateCntTimer ==
  \/ MinuteTimer
  \/ CountLongGap \/ CountMinute \/ CountWriteFails \/ CountEraseFails
  \/ NoNewDay \/ StoreDay \/ StoreDayWriteFails \/ StoreDayEraseFails
  \/ NoSave \/ Save \/ SaveFails \/ SaveFindsBad

----------------------------------------------------------------------------
(* Power failure and start (user_initialize, FRAM_Store_Init).  An image    *)
(* that was never written, or that cannot be read, leaves the record       *)
(* zeroed and the accounting off.                                          *)
Restart(image) ==
  LET empty == image["LastTime"] = Blank
  IN  /\ ram' = IF empty THEN Zeroes ELSE image
      /\ status' = IF empty THEN 1 ELSE 0
      /\ clock' = 0 /\ known' = 0 /\ dayRead' = 0
      /\ halted' = FALSE /\ countdown' = SavePeriod
      /\ pc' = "idle" /\ loops' = 0 /\ full' = FALSE

\* The meter goes on counting while the device is without power.
PowerFails ==
  /\ crashes > 0 /\ crashes' = crashes - 1
  /\ \E down \in 0..MaxDown, use \in 0..MaxUse :
       time + down <= MaxTime /\ time' = time + down /\ total' = total + use
  /\ UNCHANGED <<pos, minutes, days, overrun, webs>>

Crash == PowerFails /\ fram' = fram /\ Restart(fram[pos]) /\ NoFault

CrashAndNoRead == PowerFails /\ fram' = fram /\ Restart(Blanks) /\ Fault("fram")

CrashInSave ==
  /\ TornSaves /\ pc = "save" /\ SaveDue
  /\ \E n \in 0..SaveSize - 1 : fram' = Written(pos, FirstFields(n), ram)
  /\ Restart(fram'[pos])
  /\ PowerFails /\ NoFault

----------------------------------------------------------------------------
(* What the driver of the meter delivers.                                  *)
Running == pc = "idle" /\ ~(clock # 0 /\ Due(ram) /\ status = 0)

\* The current values are read: Total, then Time.
Reading ==
  /\ pc = "idle"
  /\ <<clock, known>> # <<time, total>>
  /\ clock' = time /\ known' = total
  /\ UNCHANGED <<ram, fram, pos, minutes, days, dayRead, work, call, overrun, world, budget>>

ArchiveRead ==
  /\ pc = "idle" /\ clock # 0 /\ dayRead # clock \div DayLen
  /\ dayRead' = clock \div DayLen
  /\ UNCHANGED <<ram, fram, pos, minutes, days, clock, known, work, call, overrun,
                 world, budget>>

\* A minute passes.  The handler runs every second, so that it has seen the
\* minute before; the driver may or may not have read the meter again.
MinutePasses ==
  /\ Running /\ time < MaxTime
  /\ time' = time + 1
  /\ \E use \in 0..MaxUse : total' = total + use
  /\ clock' = IF clock = 0 THEN 0 ELSE time'
  /\ known' \in IF clock = 0 THEN {known} ELSE {known, total'}
  /\ UNCHANGED <<ram, fram, pos, minutes, days, dayRead, work, call, overrun, budget>>

\* The driver gives the meter up (pwmt_repeated_errors): the FRAM's bus is held
\* low for the external watchdog to cut the power.
Halt ==
  /\ pc = "idle" /\ ~halted /\ Fault("halt")
  /\ halted' = TRUE
  /\ UNCHANGED <<ram, fram, pos, minutes, days, inputs, status, countdown, call, overrun,
                 world, crashes, webs>>

----------------------------------------------------------------------------
(* The web page.                                                           *)
Web(command) ==
  pc = "idle" /\ webs > 0 /\ command \in WebCommands /\ webs' = webs - 1

\* All of the record is saved, unless the driver has halted the FRAM; that the
\* I2C write stopped half-way goes unnoticed.
SaveAll(store) ==
  \/ NoFault /\ fram' = IF halted THEN fram ELSE Written(pos, Fields, store)
  \/ ~halted /\ Fault("fram") /\ \E n \in 0..5 : fram' = Written(pos, FirstFields(n), store)

SetAndSave(store) == ram' = store /\ SaveAll(store)

WebSetTotalCnt ==
  /\ Web("TotalCnt")
  /\ \E t \in {0, known} : SetAndSave([ram EXCEPT !.TotalCnt = t])
  /\ UNCHANGED <<pos, minutes, days, inputs, work, call, overrun, world, crashes>>

WebSetLastDay ==
  /\ Web("LastDay")
  /\ \E d \in {0, dayRead} : SetAndSave([ram EXCEPT !.LastDay = d])
  /\ UNCHANGED <<pos, minutes, days, inputs, work, call, overrun, world, crashes>>

\* power_meter_clear_all_data: bit 1 the FRAM, 2 the days, 4 the minutes.  Of
\* a ring only the first and the last sector are erased, and an erase may fail.
Ends == {"first", "last"}
EraseEnds(ring, size, sector, ends) ==
  [i \in DOMAIN ring |->
     IF \/ i < sector /\ "first" \in ends
        \/ i >= size - sector /\ "last" \in ends THEN Erased ELSE ring[i]]

Cleared(bits) ==
  [f \in Fields |-> IF \/ 1 \in bits
                       \/ 4 \in bits /\ f \in ByMin
                       \/ 2 \in bits /\ f \notin ByMin THEN 0 ELSE ram[f]]

WebResetData ==
  /\ Web("reset_data")
  /\ \E bits \in SUBSET {1, 2, 4}, dayEnds, minuteEnds \in SUBSET Ends :
       /\ ram' = Cleared(bits)
       /\ IF dayEnds = Ends /\ minuteEnds = Ends
          THEN IF 1 \in bits THEN SaveAll(Zeroes) ELSE NoFault /\ fram' = fram
          ELSE /\ Fault("flash")
               /\ fram' = IF 1 \in bits /\ ~halted THEN Written(pos, Fields, Zeroes)
                          ELSE fram
       /\ days' = IF 2 \in bits THEN EraseEnds(days, NDays, DaySector, dayEnds) ELSE days
       /\ minutes' = IF 4 \in bits
                     THEN EraseEnds(minutes, NMinutes, MinSector, minuteEnds)
                     ELSE minutes
  /\ UNCHANGED <<pos, inputs, work, call, overrun, world, crashes>>

Next ==
  \/ UpdateCntTimer
  \/ Crash \/ CrashAndNoRead \/ CrashInSave
  \/ Reading \/ ArchiveRead \/ MinutePasses \/ Halt
  \/ WebSetTotalCnt \/ WebSetLastDay \/ WebResetData

Spec == Init /\ [][Next]_vars

\* The one second timer is periodic, and so are the readings of the meter; time
\* passes, up to its bound.
LiveSpec == Spec /\ WF_vars(UpdateCntTimer) /\ WF_vars(Reading) /\ WF_vars(MinutePasses)

----------------------------------------------------------------------------
(* Properties.                                                             *)

\* Energy is counted at most once: what was counted and what waits to be
\* processed is never more than the meter's own total, and nothing waits
\* between two calls.  This holds as long as no call was cut short by maxloop
\* or by the capacity of an element with energy left over.
CountedOnce ==
  ~overrun => /\ ram.PowerCnt + ram.TotalCnt <= total
              /\ pc = "idle" => ram.PowerCnt = 0

\* power_meter.h:60: PowerCnt is a count not processed yet, so that it is not
\* part of TotalCnt and of what the next call will add to it once more.
PowerCntIsNotProcessed == ram.PowerCnt + ram.TotalCnt <= total

\* The countdown to the next FRAM save never passes zero, where it would have
\* to wrap around before anything is saved again.
CountdownRuns == countdown \in 1..SavePeriod

\* power_meter.c:82 and 207: each ring keeps room for its end marker, an erased
\* element at which a reader that follows the ring backwards stops; also when a
\* power failure takes the pointers back to what the FRAM holds.
EndMarkers ==
  /\ \E i \in 0..NMinutes - 1 : minutes[i] = Erased
  /\ \E i \in 0..NDays - 1 : days[i] = Erased

\* A power failure may make the device store a day twice, but never two
\* different values in one cell: what is lost is stored as zero.  This is for a
\* device in use, which was not without power for more than YearGap.
DaysNotMixed == \A i \in 0..NDays - 1 : days[i] # Mixed

\* The element k places behind the pointer.
DayBack(k) == days[(ram.PtrCurrentByDay + NDays - 1 - k) % NDays]

\* web_get_history_bydays dates the elements of the ring of days back from
\* LastDay, up to the first erased one: each of them is the element of its own
\* day, or without value, also after days that were missed and days that were
\* stored twice.
DaysAligned ==
  pc = "idle" =>
    \A k \in 0..NDays - 1 :
      (\A j \in 0..k : DayBack(j) # Erased) => DayBack(k) \in {ram.LastDay - k, 0}

\* Everything the driver read of the meter's total is counted within two more
\* minutes, also when a flash operation fails, unless the power fails first or
\* the accounting is off.
AllCounted ==
  \A t \in StartTotal..StartTotal + MaxUse * (MaxTime - StartTime + MaxCrashes) :
    known = t /\ time + 2 <= MaxTime ~> ram.TotalCnt >= t \/ clock = 0 \/ status # 0
=============================================================================
