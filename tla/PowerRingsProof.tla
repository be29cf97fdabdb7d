--------------------------- MODULE PowerRingsProof ---------------------------
(***************************************************************************)
(* The end markers of the rings of power_meter.c, for every size of the    *)
(* rings: as long as no flash operation fails, each ring keeps an erased   *)
(* element.  Between two calls that is not always the element in front of  *)
(* the pointer: a power failure takes the pointers back to what the FRAM   *)
(* holds.  What always stays is the last element of some sector: the       *)
(* element before a boundary is programmed only by a pass that then enters *)
(* the next sector and erases all of it.                                   *)
(***************************************************************************)
EXTENDS PowerMeterProof

\* A last element of a sector is erased.
Ended(ring, n, sector) ==
  \E i \in 0..n - 1 : (i + 1) % sector = 0 /\ ring[i] = Erased

Markers == Ended(minutes, NMinutes, MinSector) /\ Ended(days, NDays, DaySector)

\* The rings' sizes are whole numbers of sectors.
LEMMA Sectors ==
  /\ NMinutes \in Nat \ {0} /\ MinSector \in Nat \ {0} /\ NMinutes % MinSector = 0
  /\ NDays \in Nat \ {0} /\ DaySector \in Nat \ {0} /\ NDays % DaySector = 0
PROOF
  BY PowerMeterAssumption

----------------------------------------------------------------------------
(* Multiples of a sector.                                                  *)

LEMMA Multiple ==
  ASSUME NEW q \in Int, NEW s \in Nat \ {0}
  PROVE  (q * s) % s = 0
PROOF
  OBVIOUS

LEMMA MultipleOf ==
  ASSUME NEW a \in Int, NEW s \in Nat \ {0}, a % s = 0
  PROVE  \E q \in Int : a = q * s
PROOF
  <1>1. a \div s \in Int /\ a = s * (a \div s) + (a % s)
    OBVIOUS
  <1>2. a = (a \div s) * s
    BY <1>1
  <1> QED
    BY <1>1, <1>2

\* One sector further is a boundary again.
LEMMA NextBoundary ==
  ASSUME NEW a \in Int, NEW s \in Nat \ {0}, a % s = 0
  PROVE  (a + s) % s = 0
PROOF
  <1>1. PICK q \in Int : a = q * s
    BY MultipleOf
  <1>2. a + s = (q + 1) * s
    BY <1>1
  <1> QED
    BY <1>2, Multiple

\* A boundary below another one is at least a sector below it.
LEMMA BoundaryBelow ==
  ASSUME NEW a \in Int, NEW b \in Int, NEW s \in Nat \ {0}, a % s = 0, b % s = 0, a < b
  PROVE  a + s <= b
PROOF
  <1>1. PICK q \in Int : a = q * s
    BY MultipleOf
  <1>2. PICK r \in Int : b = r * s
    BY MultipleOf
  <1>3. (r - q) * s = b - a
    BY <1>1, <1>2
  <1>4. r - q >= 1
    BY <1>3
  <1>5. (r - q) * s >= s
    BY <1>4
  <1> QED
    BY <1>3, <1>5

----------------------------------------------------------------------------
(* The two steps of the rings that program a cell, and those that erase.   *)

\* Programming the element at ptr and entering the next place keeps a sector's
\* end: if it is the last element of a sector that is programmed, the sector
\* after it, or the first one, is erased as a whole.
LEMMA ProgramKeepsEnd ==
  ASSUME NEW n \in Nat \ {0}, NEW s \in Nat \ {0}, n % s = 0,
         NEW ring \in [0..n - 1 -> Int], NEW ptr \in Int, NEW v \in Int,
         Ended(ring, n, s)
  PROVE  Ended(EraseAt(ProgramAt(ring, ptr, v), Next1(ptr, n), s), n, s)
PROOF
  <1> DEFINE next == Next1(ptr, n)
             written == ProgramAt(ring, ptr, v)
             after == EraseAt(written, next, s)
  <1>1. next \in Int /\ written \in [0..n - 1 -> Int]
    BY RingTypes, Next1Type
  <1>2. DOMAIN written = 0..n - 1 /\ after \in [0..n - 1 -> Int]
    BY <1>1, RingTypes
  <1>3. PICK i \in 0..n - 1 : (i + 1) % s = 0 /\ ring[i] = Erased
    BY DEF Ended
  <1>4. CASE i # ptr
    <2>1. written[i] = Erased
      BY <1>3, <1>4 DEF ProgramAt
    <2> HIDE DEF next, written
    <2>2. after[i] = Erased
      BY <1>2, <2>1 DEF EraseAt
    <2> HIDE DEF after
    <2>3. Ended(after, n, s)
      BY <1>3, <2>2 DEF Ended
    <2> QED
      BY <2>3 DEF after, written, next
  <1>5. CASE i = ptr
    <2>1. 0 % s = 0
      BY Multiple
    <2>2. next \in 0..n - 1 /\ next % s = 0
      <3>1. CASE i + 1 >= n
        <4>1. next = 0
          BY <1>5, <3>1 DEF Next1
        <4> QED
          BY <2>1, <4>1
      <3>2. CASE ~(i + 1 >= n)
        <4>1. next = i + 1
          BY <1>5, <3>2 DEF Next1
        <4> QED
          BY <1>3, <3>2, <4>1
      <3> QED
        BY <3>1, <3>2
    <2> HIDE DEF next, written
    <2>3. next + s <= n
      <3>1. next \in Int /\ n \in Int /\ next < n
        BY <2>2
      <3> QED
        BY <2>2, <3>1, BoundaryBelow
    <2>4. next + s - 1 \in 0..n - 1 /\ next + s - 1 >= next /\ next + s - 1 < next + s
      BY <2>2, <2>3
    <2>5. ((next + s - 1) + 1) % s = 0
      <3>1. next \in Int /\ (next + s - 1) + 1 = next + s
        BY <2>2
      <3>2. (next + s) % s = 0
        BY <2>2, <3>1, NextBoundary
      <3> QED
        BY <3>1, <3>2
    <2>6. after[next + s - 1] = Erased
      BY <1>2, <2>2, <2>4 DEF EraseAt
    <2> HIDE DEF after
    <2>7. Ended(after, n, s)
      BY <2>4, <2>5, <2>6 DEF Ended
    <2> QED
      BY <2>7 DEF after, written, next
  <1> QED
    BY <1>4, <1>5

\* Erasing keeps whatever is erased.
LEMMA EraseKeepsEnd ==
  ASSUME NEW n \in Nat \ {0}, NEW s, NEW ring \in [0..n - 1 -> Int], NEW ends,
         Ended(ring, n, s)
  PROVE  Ended(EraseEnds(ring, n, s, ends), n, s)
PROOF
  <1>1. PICK i \in 0..n - 1 : (i + 1) % s = 0 /\ ring[i] = Erased
    BY DEF Ended
  <1>2. EraseEnds(ring, n, s, ends)[i] = Erased
    BY <1>1 DEF EraseEnds
  <1> QED
    BY <1>1, <1>2 DEF Ended

\* A ring that was never written ends with an erased element.
LEMMA EmptyEnds ==
  ASSUME NEW n \in Nat \ {0}, NEW s \in Nat \ {0}, n % s = 0,
         NEW ring, ring = [i \in 0..n - 1 |-> Erased]
  PROVE  Ended(ring, n, s)
PROOF
  <1> DEFINE last == n - 1
  <1>1. last \in 0..n - 1 /\ last + 1 = n /\ ring[last] = Erased
    OBVIOUS
  <1>2. (last + 1) % s = 0
    BY <1>1
  <1> HIDE DEF last
  <1> QED
    BY <1>1, <1>2 DEF Ended

----------------------------------------------------------------------------
(* The steps.                                                              *)

LEMMA InitMarkers == Init => Markers
PROOF
  BY Sectors, EmptyEnds DEF Init, Markers

\* What a pass puts into an element.
LEMMA PcntType ==
  ASSUME IInv
  PROVE  Pcnt \in Int
PROOF
  <1>1. ram.PowerCnt \in Int /\ ram.LastTime \in Int /\ clock \in Int
    BY DEF IInv, Types, StoresOK, InputsOK, Stores, Fields
  <1>2. clock - ram.LastTime \in Int
    BY <1>1
  <1> QED
    BY <1>1, <1>2, ShareType DEF Pcnt

LEMMA CountMinuteMarkers ==
  ASSUME IInv, Markers, CountMinute
  PROVE  Markers'
PROOF
  <1>1. ram.PtrCurrent \in Int /\ minutes \in [0..NMinutes - 1 -> Int]
    BY DEF IInv, Types, StoresOK, RingsOK, Stores, Fields
  <1>2. Ended(minutes', NMinutes, MinSector)
    BY <1>1, Sectors, PcntType, ProgramKeepsEnd DEF CountMinute, Markers
  <1> QED
    BY <1>2 DEF CountMinute, NormalPass, Markers

LEMMA StoreDayMarkers ==
  ASSUME IInv, Markers, StoreDay
  PROVE  Markers'
PROOF
  <1>1. ram.PtrCurrentByDay \in Int /\ days \in [0..NDays - 1 -> Int] /\ DayValue \in Int
    BY DEF IInv, Types, StoresOK, RingsOK, InputsOK, Stores, Fields, DayValue
  <1>2. Ended(days', NDays, DaySector)
    BY <1>1, Sectors, ProgramKeepsEnd DEF StoreDay, DayWritten, Markers
  <1> QED
    BY <1>2 DEF StoreDay, NewDay, Markers

LEMMA WebResetMarkers ==
  ASSUME IInv, Markers, WebResetData
  PROVE  Markers'
PROOF
  <1>1. minutes \in [0..NMinutes - 1 -> Int] /\ days \in [0..NDays - 1 -> Int]
    BY DEF IInv, Types, RingsOK
  <1>2. PICK bits \in SUBSET {1, 2, 4}, dayEnds \in SUBSET Ends, minuteEnds \in SUBSET Ends :
          /\ days' = IF 2 \in bits THEN EraseEnds(days, NDays, DaySector, dayEnds) ELSE days
          /\ minutes' = IF 4 \in bits
                        THEN EraseEnds(minutes, NMinutes, MinSector, minuteEnds)
                        ELSE minutes
    BY DEF WebResetData
  <1>3. Ended(minutes', NMinutes, MinSector)
    BY <1>1, <1>2, Sectors, EraseKeepsEnd DEF Markers
  <1>4. Ended(days', NDays, DaySector)
    BY <1>1, <1>2, Sectors, EraseKeepsEnd DEF Markers
  <1> QED
    BY <1>3, <1>4 DEF Markers

\* Without faults of the flash, every other step leaves both rings alone.
LEMMA NextMarkers ==
  ASSUME IInv, Markers, "flash" \notin Faults, [Next]_vars
  PROVE  Markers'
PROOF
  <1> SUFFICES ASSUME UNCHANGED <<minutes, days>> \/ CountMinute \/ StoreDay \/ WebResetData
               PROVE  Markers'
    <2>1. CASE UpdateCntTimer
      BY <2>1 DEF UpdateCntTimer, MinuteTimer, CountLongGap, CountWriteFails, CountEraseFails,
           NoNewDay, StoreDayWriteFails, StoreDayEraseFails, NoSave, Save, SaveFails,
           SaveFindsBad, SaveDone, Fault, NormalPass, NewDay
    <2>2. CASE Crash \/ CrashAndNoRead \/ CrashInSave
      BY <2>2 DEF Crash, CrashAndNoRead, CrashInSave, PowerFails
    <2>3. CASE Reading \/ ArchiveRead \/ MinutePasses \/ Halt \/ WebSetTotalCnt \/ WebSetLastDay
      BY <2>3 DEF Reading, ArchiveRead, MinutePasses, Halt, WebSetTotalCnt, WebSetLastDay
    <2>4. CASE UNCHANGED vars
      BY <2>4 DEF vars
    <2> QED
      BY <2>1, <2>2, <2>3, <2>4 DEF Next
  <1>1. CASE UNCHANGED <<minutes, days>>
    BY <1>1 DEF Markers
  <1> QED
    BY <1>1, CountMinuteMarkers, StoreDayMarkers, WebResetMarkers

LEMMA MarkersAreEnds == Markers => EndMarkers
PROOF
  BY DEF Markers, Ended, EndMarkers

\* As long as no flash operation fails, both rings keep an erased element,
\* wherever the power fails, whatever is read from the FRAM afterwards and
\* whichever commands the page gives.
THEOREM EndMarkersKept == Spec => []("flash" \notin Faults => EndMarkers)
PROOF
  <1>1. Init => ("flash" \notin Faults => Markers)
    BY InitMarkers
  <1>2. IInv /\ ("flash" \notin Faults => Markers) /\ [Next]_vars
          => ("flash" \notin Faults => Markers)'
    BY NextMarkers
  <1>3. ("flash" \notin Faults => Markers) => ("flash" \notin Faults => EndMarkers)
    BY MarkersAreEnds
  <1> QED
    BY <1>1, <1>2, <1>3, AccountInvariant, PTL DEF Spec

----------------------------------------------------------------------------
(* The days.  A record, the one in memory as well as the one in the FRAM   *)
(* that a restart would find, points at the element that takes the day     *)
(* after its LastDay: that element is erased, or holds that day or zero,   *)
(* left by a call that did not get to its save.  Behind it the rest of its *)
(* sector is erased, so that the day after finds an erased element.        *)

\* No sector begins behind p up to i.
OneSector(p, i) == \A b \in p + 1..i : b % DaySector # 0

Behind(ring, p) == \A i \in p + 1..NDays - 1 : OneSector(p, i) => ring[i] = Erased

Takes(ring, p, d) ==
  /\ p \in 0..NDays - 1 /\ d \in Nat
  /\ ring[p] \in {Erased, 0, d + 1}
  /\ Behind(ring, p)

\* Day d + 1, or zero, is stored in the ring.
PutsDay(ring, p, d, v, after) ==
  /\ ring \in [0..NDays - 1 -> Int] /\ Takes(ring, p, d)
  /\ v \in {0, d + 1}
  /\ after = EraseAt(ProgramAt(ring, p, v), Next1(p, NDays), DaySector)

\* What both records find then.
Stored(ring, p, d, after) ==
  /\ Takes(after, p, d)
  /\ \A e \in Nat : Takes(after, Next1(p, NDays), e)
  /\ \A i \in 0..NDays - 1 : i # p => after[i] \in {Erased, ring[i]}
  /\ after[p] \in {Erased, 0, d + 1}

\* Storing a day in the element it belongs to: both the record with the day and
\* the one without it, which a power failure brings back, take a day afterwards.
LEMMA DayStored ==
  ASSUME NEW ring, NEW p, NEW d, NEW v, NEW after, PutsDay(ring, p, d, v, after)
  PROVE  Stored(ring, p, d, after)
PROOF
  <1> DEFINE n == Next1(p, NDays)
  <1>0. /\ ring \in [0..NDays - 1 -> Int] /\ Takes(ring, p, d) /\ v \in {0, d + 1}
        /\ after = EraseAt(ProgramAt(ring, p, v), n, DaySector)
    BY DEF PutsDay
  <1> DEFINE w == Program(ring[p], v)
             written == ProgramAt(ring, p, v)
  <1>1. /\ p \in 0..NDays - 1 /\ d \in Nat /\ NDays \in Nat \ {0}
        /\ DaySector \in Nat \ {0}
    BY <1>0, Sectors DEF Takes
  <1>2. n \in 0..NDays - 1 /\ (n = 0 \/ n = p + 1)
    BY <1>1 DEF Next1
  <1>3. w \in {0, d + 1}
    <2>1. ring[p] \in {Erased, 0, d + 1}
      BY <1>0 DEF Takes
    <2> QED
      BY <1>0, <1>1, <2>1 DEF Program, Erased
  <1>4. /\ written \in [0..NDays - 1 -> Int] /\ written[p] = w
        /\ \A i \in 0..NDays - 1 : i # p => written[i] = ring[i]
    <2>1. v \in Int /\ p \in Int /\ NDays \in Nat
      BY <1>0, <1>1
    <2> HIDE DEF written, w
    <2>2. ProgramAt(ring, p, v) \in [0..NDays - 1 -> Int]
      BY <1>0, <2>1, RingTypes
    <2>3. DOMAIN ring = 0..NDays - 1
      BY <1>0
    <2> QED
      BY <1>1, <2>2, <2>3 DEF ProgramAt, written, w
  <1> HIDE DEF n, w, written
  <1>5. \A i \in 0..NDays - 1 :
          after[i] = IF n % DaySector = 0 /\ i >= n /\ i < n + DaySector
                     THEN Erased ELSE written[i]
    BY <1>0, <1>4 DEF EraseAt, written
  <1>6. /\ \A i \in 0..NDays - 1 : i # p => after[i] \in {Erased, ring[i]}
        /\ after[p] \in {Erased, 0, d + 1}
    BY <1>1, <1>3, <1>4, <1>5
  <1>7. Behind(after, p)
    <2> SUFFICES ASSUME NEW i \in p + 1..NDays - 1, OneSector(p, i) PROVE after[i] = Erased
      BY DEF Behind
    <2>1. i \in 0..NDays - 1 /\ i # p
      BY <1>1
    <2>2. ring[i] = Erased
      BY <1>0 DEF Takes, Behind
    <2> QED
      BY <1>6, <2>1, <2>2
  <1>8. after[n] = Erased /\ Behind(after, n)
    <2>1. CASE n % DaySector = 0
      <3>1. after[n] = Erased
        <4>1. n \in 0..NDays - 1 /\ n >= n /\ n < n + DaySector
          BY <1>1, <1>2
        <4> QED
          BY <1>5, <2>1, <4>1
      <3>2. ASSUME NEW i \in n + 1..NDays - 1, OneSector(n, i) PROVE after[i] = Erased
        <4>1. i \in 0..NDays - 1 /\ i >= n
          BY <1>1, <1>2
        <4>2. i < n + DaySector
          <5> SUFFICES ASSUME i >= n + DaySector PROVE FALSE
            BY <1>1, <1>2, <4>1
          <5>1. n + DaySector \in n + 1..i
            <6>1. n \in Int /\ i \in Int /\ DaySector \in Nat /\ DaySector >= 1
              BY <1>1, <1>2, <4>1
            <6> QED
              BY <6>1
          <5>2. (n + DaySector) % DaySector = 0
            <6>1. n \in Int
              BY <1>1, <1>2
            <6> QED
              BY <6>1, <1>1, <2>1, NextBoundary
          <5> QED
            BY <3>2, <5>1, <5>2 DEF OneSector
        <4> QED
          BY <1>5, <2>1, <4>1, <4>2
      <3> QED
        BY <3>1, <3>2 DEF Behind
    <2>2. CASE n % DaySector # 0
      <3>1. 0 % DaySector = 0
        BY <1>1, Multiple
      <3>2. n = p + 1
        BY <1>2, <2>2, <3>1
      <3>3. ASSUME NEW i \in n..NDays - 1, OneSector(n, i) PROVE after[i] = Erased
        <4>1. \A b \in p + 1..i : b = n \/ b \in n + 1..i
          BY <1>1, <3>2
        <4>2. OneSector(p, i)
          BY <2>2, <3>3, <4>1 DEF OneSector
        <4>3. i \in p + 1..NDays - 1
          BY <3>2
        <4> QED
          BY <1>7, <4>2, <4>3 DEF Behind
      <3>4. n \in n..NDays - 1 /\ OneSector(n, n)
        BY <1>2, <1>1 DEF OneSector
      <3>5. \A i \in n + 1..NDays - 1 : i \in n..NDays - 1
        BY <1>2
      <3> QED
        BY <3>3, <3>4, <3>5 DEF Behind
    <2> QED
      BY <2>1, <2>2
  <1>9. Takes(after, p, d) /\ \A e \in Nat : Takes(after, n, e)
    BY <1>1, <1>2, <1>6, <1>7, <1>8 DEF Takes
  <1> QED
    BY <1>6, <1>9 DEF n, Stored

----------------------------------------------------------------------------
(* Days that are stored twice.                                             *)

\* The record is one that was saved, or the one after its day was stored, with
\* the save still to come in the same call.
SameDay ==
  ram.PtrCurrentByDay = fram[0]["PtrCurrentByDay"] /\ ram.LastDay = fram[0]["LastDay"]

Ahead ==
  /\ pc = "save" /\ full /\ countdown = 1
  /\ \A e \in Nat : Takes(days, ram.PtrCurrentByDay, e)
  /\ ram.LastDay \in Nat

DaysInv ==
  /\ pos = 0 /\ ~halted /\ (pc # "idle" => status = 0)
  /\ Takes(days, fram[0]["PtrCurrentByDay"], fram[0]["LastDay"])
  /\ status = 0 => SameDay \/ Ahead
  /\ DaysNotMixed

\* The device was not without power for more than YearGap.
WithinYear == status = 0 => dayRead - ram.LastDay <= YearGap

\* Only the FRAM fails, and the page leaves the record alone.
FramFaultsOnly == Faults \subseteq {"fram"} /\ WebCommands = {}

LEMMA InitDaysInv == Init => DaysInv
PROOF
  <1> SUFFICES ASSUME Init PROVE DaysInv
    OBVIOUS
  <1>1. /\ fram[0] = StartStore /\ ram = StartStore /\ days = [i \in 0..NDays - 1 |-> Erased]
    BY Constants DEF Init, Places
  <1>2. /\ StartStore["PtrCurrentByDay"] \in 0..NDays - 1 /\ StartStore["LastDay"] \in Nat
    BY PowerMeterAssumption
  <1>3. Behind(days, StartStore["PtrCurrentByDay"])
    BY <1>1, <1>2 DEF Behind
  <1>4. Takes(days, fram[0]["PtrCurrentByDay"], fram[0]["LastDay"])
    BY <1>1, <1>2, <1>3 DEF Takes
  <1>5. DaysNotMixed
    BY <1>1 DEF DaysNotMixed, Erased, Mixed
  <1> QED
    BY <1>1, <1>4, <1>5 DEF Init, DaysInv, SameDay

\* What a write of the first n fields leaves in the FRAM: the pointer is
\* written before LastDay.
LEMMA DayWrittenBack ==
  ASSUME IInv, pos = 0, NEW n \in 0..6
  PROVE  LET image == Written(pos, FirstFields(n), ram)[0]
         IN  /\ image["PtrCurrentByDay"] =
                  IF n >= 5 THEN ram.PtrCurrentByDay ELSE fram[0]["PtrCurrentByDay"]
             /\ image["LastDay"] = IF n = 6 THEN ram.LastDay ELSE fram[0]["LastDay"]
             /\ image["LastTime"] = IF n >= 4 THEN ram.LastTime ELSE fram[0]["LastTime"]
PROOF
  <1>1. fram \in [Places -> Stores] /\ ram \in Stores /\ 0 \in Places
    BY Constants DEF IInv, Types, StoresOK, Places
  <1>2. /\ "PtrCurrentByDay" \in FirstFields(n) <=> n >= 5
        /\ "LastDay" \in FirstFields(n) <=> n = 6
        /\ "LastTime" \in FirstFields(n) <=> n >= 4
    <2>1. /\ FieldOrder[1] = "PowerCnt" /\ FieldOrder[2] = "TotalCnt"
          /\ FieldOrder[3] = "PtrCurrent" /\ FieldOrder[4] = "LastTime"
          /\ FieldOrder[5] = "PtrCurrentByDay" /\ FieldOrder[6] = "LastDay"
      BY DEF FieldOrder
    <2>2. \A i \in 1..n : i \in {1, 2, 3, 4, 5, 6}
      OBVIOUS
    <2>3. ASSUME NEW i \in 1..n
          PROVE  /\ FieldOrder[i] = "PtrCurrentByDay" <=> i = 5
                 /\ FieldOrder[i] = "LastDay" <=> i = 6
                 /\ FieldOrder[i] = "LastTime" <=> i = 4
      BY <2>1, <2>2
    <2>4. /\ 5 \in 1..n <=> n >= 5
          /\ 6 \in 1..n <=> n = 6
          /\ 4 \in 1..n <=> n >= 4
      OBVIOUS
    <2> QED
      BY <2>3, <2>4 DEF FirstFields
  <1>3. {"PtrCurrentByDay", "LastDay", "LastTime"} \subseteq Fields
    BY DEF Fields
  <1> QED
    BY <1>1, <1>2, <1>3, WrittenTypes

\* What is stored, when no year was missed: the day that was read or zero, as
\* the day after LastDay.
LEMMA DayToStore ==
  ASSUME IInv, IsNewDay, dayRead - ram.LastDay <= YearGap, ram.LastDay \in Nat
  PROVE  DayValue \in {0, ram.LastDay + 1} /\ NextDay = ram.LastDay + 1
PROOF
  <1>1. dayRead \in Nat /\ YearGap \in Nat
    BY PowerMeterAssumption DEF IInv, Types, InputsOK
  <1>2. DayBefore = ram.LastDay
    BY <1>1 DEF DayBefore
  <1> QED
    BY <1>1, <1>2 DEF DayValue, NextDay

\* The rings and records after a day was stored.
LEMMA StoreDayEffect ==
  ASSUME IInv, DaysInv, WithinYear, StoreDay
  PROVE  /\ SameDay /\ status = 0 /\ ram.LastDay \in Nat
         /\ ram.PtrCurrentByDay \in 0..NDays - 1
         /\ ram'.PtrCurrentByDay = Next1(ram.PtrCurrentByDay, NDays)
         /\ ram'.LastDay = ram.LastDay + 1 /\ ram'.LastTime = ram.LastTime
         /\ Stored(days, ram.PtrCurrentByDay, ram.LastDay, days')
PROOF
  <1>1. pc = "day" /\ IsNewDay /\ ram \in Stores /\ days \in [0..NDays - 1 -> Int]
    BY DEF StoreDay, NewDay, IInv, Types, StoresOK, RingsOK
  <1>2. status = 0 /\ SameDay
    BY <1>1 DEF DaysInv, Ahead
  <1>3. Takes(days, ram.PtrCurrentByDay, ram.LastDay)
    BY <1>2 DEF DaysInv, SameDay
  <1>4. ram.LastDay \in Nat /\ ram.PtrCurrentByDay \in 0..NDays - 1
    BY <1>3 DEF Takes
  <1>5. dayRead - ram.LastDay <= YearGap
    BY <1>2 DEF WithinYear
  <1>6. DayValue \in {0, ram.LastDay + 1} /\ NextDay = ram.LastDay + 1
    BY <1>1, <1>4, <1>5, DayToStore
  <1>7. /\ ram'.PtrCurrentByDay = Next1(ram.PtrCurrentByDay, NDays)
        /\ ram'.LastDay = ram.LastDay + 1 /\ ram'.LastTime = ram.LastTime
    <2>1. ram' = [ram EXCEPT !.LastDay = NextDay,
                             !.PtrCurrentByDay = Next1(ram.PtrCurrentByDay, NDays)]
      BY DEF StoreDay
    <2> QED
      BY <1>1, <1>6, <2>1 DEF Stores, Fields
  <1>8. days' = EraseAt(ProgramAt(days, ram.PtrCurrentByDay, DayValue),
                        Next1(ram.PtrCurrentByDay, NDays), DaySector)
    BY DEF StoreDay, DayWritten
  <1>9. Stored(days, ram.PtrCurrentByDay, ram.LastDay, days')
    <2>1. PutsDay(days, ram.PtrCurrentByDay, ram.LastDay, DayValue, days')
      BY <1>1, <1>3, <1>6, <1>8 DEF PutsDay
    <2> QED
      BY <2>1, DayStored
  <1> QED
    BY <1>2, <1>4, <1>7, <1>9

LEMMA StoreDayDays ==
  ASSUME IInv, DaysInv, WithinYear, StoreDay
  PROVE  DaysInv'
PROOF
  <1>1. /\ SameDay /\ status = 0 /\ ram.LastDay \in Nat
        /\ ram'.LastDay = ram.LastDay + 1
        /\ Takes(days', ram.PtrCurrentByDay, ram.LastDay)
        /\ \A e \in Nat : Takes(days', ram'.PtrCurrentByDay, e)
        /\ \A i \in 0..NDays - 1 :
             i # ram.PtrCurrentByDay => days'[i] \in {Erased, days[i]}
        /\ days'[ram.PtrCurrentByDay] \in {Erased, 0, ram.LastDay + 1}
    BY StoreDayEffect DEF Stored
  <1>2. /\ fram' = fram /\ pos' = pos /\ status' = status /\ halted' = halted
        /\ pc' = "save" /\ full' = TRUE /\ countdown' = 1
    BY DEF StoreDay, NewDay
  <1>3. DaysNotMixed'
    <2>1. \A i \in 0..NDays - 1 : days[i] # Mixed
      BY DEF DaysInv, DaysNotMixed
    <2>2. \A i \in 0..NDays - 1 : days'[i] # Mixed
      BY <1>1, <2>1 DEF Erased, Mixed
    <2> QED
      BY <2>2 DEF DaysNotMixed
  <1>4. Takes(days', fram'[0]["PtrCurrentByDay"], fram'[0]["LastDay"])
    BY <1>1, <1>2 DEF SameDay
  <1>5. Ahead'
    BY <1>1, <1>2 DEF Ahead
  <1>6. pos' = 0 /\ ~halted' /\ (pc' # "idle" => status' = 0)
    BY <1>1, <1>2 DEF DaysInv
  <1> QED
    BY <1>3, <1>4, <1>5, <1>6 DEF DaysInv

\* However far a write of the record gets, the image that is left takes a day.
LEMMA WrittenTakes ==
  ASSUME IInv, DaysInv, status = 0, NEW n \in 0..6, n > 4 => full,
         fram' = Written(pos, FirstFields(n), ram)
  PROVE  /\ Takes(days, fram'[0]["PtrCurrentByDay"], fram'[0]["LastDay"])
         /\ n = 6 \/ ~full => ram.PtrCurrentByDay = fram'[0]["PtrCurrentByDay"]
                             /\ ram.LastDay = fram'[0]["LastDay"]
PROOF
  <1>1. /\ fram'[0]["PtrCurrentByDay"] =
             IF n >= 5 THEN ram.PtrCurrentByDay ELSE fram[0]["PtrCurrentByDay"]
        /\ fram'[0]["LastDay"] = IF n = 6 THEN ram.LastDay ELSE fram[0]["LastDay"]
    BY DayWrittenBack DEF DaysInv
  <1>2. Takes(days, fram[0]["PtrCurrentByDay"], fram[0]["LastDay"])
    BY DEF DaysInv
  <1>3. fram[0]["LastDay"] \in Nat
    BY <1>2 DEF Takes
  <1>4. CASE SameDay
    BY <1>1, <1>2, <1>4 DEF SameDay
  <1>5. CASE Ahead
    BY <1>1, <1>2, <1>3, <1>5 DEF Ahead
  <1> QED
    BY <1>4, <1>5 DEF DaysInv

LEMMA SaveDays ==
  ASSUME IInv, DaysInv, Save \/ SaveFails \/ CrashInSave
  PROVE  DaysInv'
PROOF
  <1>1. pc = "save" /\ status = 0
    BY DEF Save, SaveFails, CrashInSave, SaveDone, DaysInv
  <1>2. pos' = 0 /\ pos = 0 /\ ~halted' /\ pc' = "idle" /\ days' = days
    BY DEF Save, SaveFails, CrashInSave, SaveDone, DaysInv, PowerFails, Restart
  <1>3. DaysNotMixed'
    BY <1>2 DEF DaysInv, DaysNotMixed
  <1>4. ASSUME NEW n \in 0..6, fram' = Written(pos, FirstFields(n), ram),
               n <= SaveSize,
               \/ status' = 0 /\ ram' = ram /\ n = SaveSize
               \/ status' = 2
               \/ status' \in {0, 1} /\ (status' = 0 => ram' = fram'[pos])
        PROVE  DaysInv'
    <2>1. n > 4 => full
      BY <1>4 DEF SaveSize
    <2>2. /\ Takes(days, fram'[0]["PtrCurrentByDay"], fram'[0]["LastDay"])
          /\ n = 6 \/ ~full => ram.PtrCurrentByDay = fram'[0]["PtrCurrentByDay"]
                              /\ ram.LastDay = fram'[0]["LastDay"]
      BY <1>1, <1>4, <2>1, WrittenTakes
    <2>3. n = SaveSize => n = 6 \/ ~full
      BY DEF SaveSize
    <2>4. status' = 0 => SameDay'
      BY <1>2, <1>4, <2>2, <2>3 DEF SameDay
    <2> QED
      BY <1>2, <1>3, <2>2, <2>4 DEF DaysInv
  <1>5. SaveSize \in {4, 6}
    BY DEF SaveSize
  <1>6. CASE Save
    BY <1>1, <1>4, <1>5, <1>6 DEF Save, SaveDone
  <1>7. CASE SaveFails
    <2>1. PICK n \in 0..SaveSize - 1 : fram' = Written(pos, FirstFields(n), ram)
      BY <1>7 DEF SaveFails
    <2>2. n \in 0..6 /\ n <= SaveSize /\ status' = 2
      BY <1>5, <1>7 DEF SaveFails
    <2> QED
      BY <1>4, <2>1, <2>2
  <1>8. CASE CrashInSave
    <2>1. PICK n \in 0..SaveSize - 1 : fram' = Written(pos, FirstFields(n), ram)
      BY <1>8 DEF CrashInSave
    <2>2. n \in 0..6 /\ n <= SaveSize
      BY <1>5
    <2>3. status' \in {0, 1} /\ (status' = 0 => ram' = fram'[pos])
      BY <1>8 DEF CrashInSave, Restart
    <2> QED
      BY <1>4, <2>1, <2>2, <2>3
  <1> QED
    BY <1>6, <1>7, <1>8

\* Every step, while at most the FRAM fails.
LEMMA NextDaysInv ==
  ASSUME IInv, DaysInv, WithinYear, FramFaultsOnly, [Next]_vars
  PROVE  DaysInv'
PROOF
  <1>a. \A kind \in {"flash", "bad", "halt"} : ~Fault(kind)
    BY DEF FramFaultsOnly, Fault
  <1>b. \A command : ~Web(command)
    BY DEF FramFaultsOnly, Web
  \* The steps that leave the days and both records of them alone.
  <1>c. ASSUME UNCHANGED <<fram, pos, days, halted, status>>, ~Ahead,
               ram'.PtrCurrentByDay = ram.PtrCurrentByDay, ram'.LastDay = ram.LastDay,
               pc' # "idle" => pc # "idle" \/ status = 0
        PROVE  DaysInv'
    <2>1. status' = 0 => SameDay'
      BY <1>c DEF DaysInv, SameDay
    <2> QED
      BY <1>c, <2>1 DEF DaysInv, DaysNotMixed
  <1>1. CASE MinuteTimer
    <2>1. /\ ram'.PtrCurrentByDay = ram.PtrCurrentByDay /\ ram'.LastDay = ram.LastDay
          /\ ~Ahead
      BY <1>1 DEF MinuteTimer, Ahead, IInv, Types, StoresOK, Stores, Fields
    <2> QED
      BY <1>1, <1>c, <2>1 DEF MinuteTimer, work
  <1>2. CASE CountLongGap \/ CountMinute
    <2>1. /\ ram'.PtrCurrentByDay = ram.PtrCurrentByDay /\ ram'.LastDay = ram.LastDay
          /\ ~Ahead /\ pc # "idle"
      BY <1>2 DEF CountLongGap, CountMinute, NormalPass, Counted, Ahead,
                  IInv, Types, StoresOK, Stores, Fields
    <2>2. UNCHANGED <<fram, pos, days, halted, status>>
      BY <1>2 DEF CountLongGap, CountMinute, NormalPass, work
    <2> QED
      BY <1>c, <2>1, <2>2
  <1>3. CASE NoNewDay \/ NoSave
    <2>1. /\ ram' = ram /\ ~Ahead /\ pc # "idle"
          /\ UNCHANGED <<fram, pos, days, halted, status>>
      BY <1>3 DEF NoNewDay, NoSave, SaveDue, Ahead, DaysInv, work
    <2> QED
      BY <1>c, <2>1
  <1>4. CASE Reading \/ ArchiveRead \/ MinutePasses \/ Halt
    <2>1. /\ ram' = ram /\ ~Ahead /\ pc' = "idle"
          /\ UNCHANGED <<fram, pos, days, halted, status>>
      BY <1>4, <1>a DEF Reading, ArchiveRead, MinutePasses, Halt, Running, Ahead, work, call
    <2> QED
      BY <1>c, <2>1
  <1>5. CASE Crash \/ CrashAndNoRead
    <2>1. /\ UNCHANGED <<fram, pos, days>> /\ halted' = FALSE /\ pc' = "idle"
          /\ status' = 0 => ram' = fram[0]
      <3>1. Blanks["LastTime"] = Blank
        BY DEF Blanks, Fields
      <3> QED
        BY <1>5, <3>1 DEF Crash, CrashAndNoRead, PowerFails, Restart, DaysInv
    <2>2. status' = 0 => SameDay'
      BY <2>1 DEF SameDay
    <2> QED
      BY <2>1, <2>2 DEF DaysInv, DaysNotMixed
  <1>6. CASE UNCHANGED vars
    <2>1. UNCHANGED <<ram, fram, pos, days, halted, status, pc, full, countdown>>
      BY <1>6 DEF vars, work, call
    <2>2. SameDay' = SameDay /\ Ahead' = Ahead
      BY <2>1 DEF SameDay, Ahead
    <2> QED
      BY <2>1, <2>2 DEF DaysInv, DaysNotMixed
  <1>7. ~CountWriteFails /\ ~CountEraseFails /\ ~StoreDayWriteFails /\ ~StoreDayEraseFails
          /\ ~SaveFindsBad /\ ~WebSetTotalCnt /\ ~WebSetLastDay /\ ~WebResetData
    BY <1>a, <1>b DEF CountWriteFails, CountEraseFails, StoreDayWriteFails, StoreDayEraseFails,
                      SaveFindsBad, WebSetTotalCnt, WebSetLastDay, WebResetData
  <1> QED
    BY <1>1, <1>2, <1>3, <1>4, <1>5, <1>6, <1>7, StoreDayDays, SaveDays
       DEF Next, UpdateCntTimer

\* No element of the ring of days ever holds two values, although a power
\* failure between the storing of a day and the save of the record, or inside
\* that save, makes the device store the day again: for rings and sectors of
\* any size, any number of failures of the power and of the FRAM, and a device
\* that was not without power for more than YearGap.
THEOREM DaysNeverMixed == Spec /\ []WithinYear => [](FramFaultsOnly => DaysNotMixed)
PROOF
  <1>1. Init => (FramFaultsOnly => DaysInv)
    BY InitDaysInv
  <1>2. IInv /\ WithinYear /\ (FramFaultsOnly => DaysInv) /\ [Next]_vars
          => (FramFaultsOnly => DaysInv)'
    BY NextDaysInv DEF FramFaultsOnly
  <1>3. (FramFaultsOnly => DaysInv) => (FramFaultsOnly => DaysNotMixed)
    BY DEF DaysInv
  <1> QED
    BY <1>1, <1>2, <1>3, AccountInvariant, PTL DEF Spec

----------------------------------------------------------------------------
(* The dates of the days.                                                  *)

\* The place k places behind p, and the element there.
Cell(p, k) == IF k < p THEN p - 1 - k ELSE p - 1 - k + NDays

LEMMA CellBack ==
  ASSUME NEW p \in 0..NDays - 1, NEW k \in 0..NDays - 1
  PROVE  Cell(p, k) \in 0..NDays - 1 /\ (p + NDays - 1 - k) % NDays = Cell(p, k)
PROOF
  <1>1. NDays \in Nat \ {0}
    BY Sectors
  <1>2. Cell(p, k) \in 0..NDays - 1
    BY <1>1 DEF Cell
  <1>3. \E q \in {0, 1} : p + NDays - 1 - k = q * NDays + Cell(p, k)
    <2>1. CASE k < p
      <3>1. p + NDays - 1 - k = 1 * NDays + Cell(p, k)
        BY <1>1, <2>1 DEF Cell
      <3> QED
        BY <3>1
    <2>2. CASE ~(k < p)
      <3>1. p + NDays - 1 - k = 0 * NDays + Cell(p, k)
        BY <1>1, <2>2 DEF Cell
      <3> QED
        BY <3>1
    <2> QED
      BY <2>1, <2>2
  <1> DEFINE c == Cell(p, k)
             x == p + NDays - 1 - k
  <1> HIDE DEF c, x
  <1>4. \A q \in Int : x = q * NDays + c /\ c \in 0..NDays - 1 => x % NDays = c
    BY <1>1
  <1> QED
    BY <1>2, <1>3, <1>4 DEF c, x

\* The elements in front of p, back to the first erased one, are those of the
\* days up to d, or zero.
Dated(ring, p, d) ==
  \A k \in 0..NDays - 2 :
    (\A j \in 0..k : ring[Cell(p, j)] # Erased) => ring[Cell(p, k)] \in {d - k, 0}

\* A day that is stored leaves the dates of both records right.
LEMMA StoredDated ==
  ASSUME NEW ring, NEW p \in 0..NDays - 1, NEW d \in Nat, Dated(ring, p, d),
         NEW after, Stored(ring, p, d, after)
  PROVE  Dated(after, p, d) /\ Dated(after, Next1(p, NDays), d + 1)
PROOF
  <1> DEFINE n == Next1(p, NDays)
  <1>1. NDays \in Nat \ {0}
    BY Sectors
  <1>2. \A k \in 0..NDays - 2 : /\ k \in 0..NDays - 1
                                /\ Cell(p, k) \in 0..NDays - 1 /\ Cell(p, k) # p
    BY <1>1 DEF Cell
  <1>3. /\ \A i \in 0..NDays - 1 : i # p => after[i] \in {Erased, ring[i]}
        /\ after[p] \in {Erased, 0, d + 1}
    BY DEF Stored
  <1>4. n \in 0..NDays - 1 /\ (n = p + 1 \/ (n = 0 /\ p = NDays - 1))
    BY <1>1 DEF Next1
  <1>5. Cell(n, 0) = p /\ \A k \in 1..NDays - 2 : Cell(n, k) = Cell(p, k - 1)
    BY <1>1, <1>4 DEF Cell
  <1> HIDE DEF n
  <1>6. Dated(after, p, d)
    <2> SUFFICES ASSUME NEW k \in 0..NDays - 2,
                        \A j \in 0..k : after[Cell(p, j)] # Erased
                 PROVE  after[Cell(p, k)] \in {d - k, 0}
      BY DEF Dated
    <2>1. \A j \in 0..k : j \in 0..NDays - 2
      BY <1>1
    <2>2. \A j \in 0..k : ring[Cell(p, j)] = after[Cell(p, j)]
      BY <1>2, <1>3, <2>1
    <2>3. ring[Cell(p, k)] \in {d - k, 0}
      BY <2>2 DEF Dated
    <2> QED
      BY <2>2, <2>3
  <1>7. Dated(after, n, d + 1)
    <2> SUFFICES ASSUME NEW k \in 0..NDays - 2,
                        \A j \in 0..k : after[Cell(n, j)] # Erased
                 PROVE  after[Cell(n, k)] \in {(d + 1) - k, 0}
      BY DEF Dated
    <2>1. CASE k = 0
      <3>1. after[Cell(n, 0)] # Erased
        BY <2>1
      <3> QED
        BY <1>3, <1>5, <2>1, <3>1
    <2>2. CASE k # 0
      <3> DEFINE m == k - 1
      <3>1. m \in 0..NDays - 2 /\ k \in 1..NDays - 2 /\ (d + 1) - k = d - m /\ Cell(n, k) = Cell(p, m)
        BY <1>1, <1>5, <2>2
      <3>2. ASSUME NEW j \in 0..m PROVE after[Cell(p, j)] # Erased
        <4>1. j + 1 \in 0..k /\ j + 1 \in 1..NDays - 2 /\ (j + 1) - 1 = j
          BY <1>1
        <4>2. Cell(n, j + 1) = Cell(p, j)
          BY <1>5, <4>1
        <4> QED
          BY <4>1, <4>2
      <3> HIDE DEF m
      <3> QED
        BY <1>6, <3>1, <3>2 DEF Dated
    <2> QED
      BY <2>1, <2>2
  <1> QED
    BY <1>6, <1>7 DEF n

\* Neither the flash nor the FRAM fails, not even half-way through a write, and
\* the page leaves the record alone; the power still fails between any two steps.
OnlyPowerFails == Faults = {} /\ WebCommands = {} /\ ~TornSaves

\* The record in memory and the one in the FRAM date the ring, and both can be
\* read after a restart.
DatedInv ==
  /\ status = 0
  /\ ram.LastTime \in Nat /\ fram[0]["LastTime"] \in Nat
  /\ Dated(days, ram.PtrCurrentByDay, ram.LastDay)
  /\ Dated(days, fram[0]["PtrCurrentByDay"], fram[0]["LastDay"])

LEMMA InitDatedInv == Init => DatedInv
PROOF
  <1> SUFFICES ASSUME Init PROVE DatedInv
    OBVIOUS
  <1>1. /\ fram[0] = StartStore /\ ram = StartStore /\ days = [i \in 0..NDays - 1 |-> Erased]
        /\ status = 0
    BY Constants DEF Init, Places
  <1>2. StartStore["LastTime"] \in Nat /\ StartStore["PtrCurrentByDay"] \in 0..NDays - 1
    BY PowerMeterAssumption
  <1>3. \A d : Dated(days, StartStore["PtrCurrentByDay"], d)
    <2> SUFFICES ASSUME NEW k \in 0..NDays - 2
                 PROVE  days[Cell(StartStore["PtrCurrentByDay"], k)] = Erased
      BY DEF Dated
    <2>1. k \in 0..NDays - 1
      BY Constants
    <2>2. Cell(StartStore["PtrCurrentByDay"], k) \in 0..NDays - 1
      BY <1>2, <2>1, CellBack
    <2> QED
      BY <1>1, <2>2
  <1> QED
    BY <1>1, <1>2, <1>3 DEF DatedInv

LEMMA NextDatedInv ==
  ASSUME IInv, DaysInv, DatedInv, WithinYear, OnlyPowerFails, [Next]_vars
  PROVE  DatedInv'
PROOF
  <1>a. \A kind : ~Fault(kind)
    BY DEF OnlyPowerFails, Fault
  <1>b. \A command : ~Web(command)
    BY DEF OnlyPowerFails, Web
  <1>c. ram \in Stores /\ clock \in Nat /\ 0 \in Places /\ pos = 0
    BY Constants DEF IInv, Types, StoresOK, InputsOK, Places, DaysInv
  \* The steps that leave the days and both records of them alone.
  <1>d. ASSUME UNCHANGED <<fram, days, status>>, ram'.LastTime \in Nat,
               ram'.PtrCurrentByDay = ram.PtrCurrentByDay, ram'.LastDay = ram.LastDay
        PROVE  DatedInv'
    BY <1>d DEF DatedInv
  <1>1. CASE MinuteTimer
    <2>1. /\ ram'.PtrCurrentByDay = ram.PtrCurrentByDay /\ ram'.LastDay = ram.LastDay
          /\ ram'.LastTime = ram.LastTime
      BY <1>1, <1>c DEF MinuteTimer, Stores, Fields
    <2> QED
      BY <1>1, <1>d, <2>1 DEF MinuteTimer, work, DatedInv
  <1>2. CASE CountLongGap \/ CountMinute
    <2>1. /\ ram'.PtrCurrentByDay = ram.PtrCurrentByDay /\ ram'.LastDay = ram.LastDay
          /\ ram'.LastTime \in {clock, ram.LastTime + 1}
      BY <1>2, <1>c DEF CountLongGap, CountMinute, NormalPass, Counted, Stores, Fields
    <2>2. UNCHANGED <<fram, days, status>>
      BY <1>2 DEF CountLongGap, CountMinute, NormalPass, work
    <2>3. ram'.LastTime \in Nat
      BY <1>c, <2>1 DEF DatedInv
    <2> QED
      BY <1>d, <2>1, <2>2, <2>3
  <1>3. CASE NoNewDay \/ NoSave \/ Reading \/ ArchiveRead \/ MinutePasses \/ UNCHANGED vars
    <2>1. UNCHANGED <<ram, fram, days, status>>
      BY <1>3 DEF NoNewDay, NoSave, Reading, ArchiveRead, MinutePasses, vars, work
    <2> QED
      BY <1>d, <2>1 DEF DatedInv
  <1>4. CASE StoreDay
    <2>1. Stored(days, ram.PtrCurrentByDay, ram.LastDay, days') /\ SameDay /\ status = 0
            /\ ram.LastDay \in Nat /\ ram.PtrCurrentByDay \in 0..NDays - 1
            /\ ram'.PtrCurrentByDay = Next1(ram.PtrCurrentByDay, NDays)
            /\ ram'.LastDay = ram.LastDay + 1 /\ ram'.LastTime = ram.LastTime
      BY <1>4, StoreDayEffect
    <2>2. fram' = fram /\ status' = status
      BY <1>4 DEF StoreDay, NewDay
    <2>3. /\ Dated(days', ram.PtrCurrentByDay, ram.LastDay)
          /\ Dated(days', Next1(ram.PtrCurrentByDay, NDays), ram.LastDay + 1)
      BY <2>1, StoredDated DEF DatedInv
    <2> QED
      BY <2>1, <2>2, <2>3 DEF DatedInv, SameDay
  <1>5. CASE Save
    <2>1. /\ fram' = Written(pos, FirstFields(SaveSize), ram) /\ SaveSize \in {4, 6}
          /\ SaveSize > 4 => full
          /\ ~full => SaveSize = 4
          /\ UNCHANGED <<ram, days, status>>
      BY <1>5 DEF Save, SaveDone, SaveSize
    <2>2. /\ ram.PtrCurrentByDay = fram'[0]["PtrCurrentByDay"]
          /\ ram.LastDay = fram'[0]["LastDay"]
      BY <2>1, WrittenTakes DEF DatedInv, SaveSize
    <2>3. fram'[0]["LastTime"] = ram.LastTime
      BY <1>c, <2>1, DayWrittenBack
    <2> QED
      BY <2>1, <2>2, <2>3 DEF DatedInv
  <1>6. CASE Crash
    <2>1. fram[0]["LastTime"] # Blank
      BY DEF DatedInv, Blank
    <2>2. ram' = fram[0] /\ status' = 0 /\ UNCHANGED <<fram, days>>
      BY <1>6, <1>c, <2>1 DEF Crash, PowerFails, Restart
    <2> QED
      BY <2>2 DEF DatedInv
  <1>7. /\ ~CountWriteFails /\ ~CountEraseFails /\ ~StoreDayWriteFails /\ ~StoreDayEraseFails
        /\ ~SaveFindsBad /\ ~SaveFails /\ ~Halt /\ ~CrashAndNoRead /\ ~CrashInSave
        /\ ~WebSetTotalCnt /\ ~WebSetLastDay /\ ~WebResetData
    BY <1>a, <1>b DEF CountWriteFails, CountEraseFails, StoreDayWriteFails, StoreDayEraseFails,
                      SaveFindsBad, SaveFails, Halt, CrashAndNoRead, CrashInSave, OnlyPowerFails,
                      WebSetTotalCnt, WebSetLastDay, WebResetData
  <1> QED
    BY <1>1, <1>2, <1>3, <1>4, <1>5, <1>6, <1>7 DEF Next, UpdateCntTimer

\* A reader that follows the ring of days back from the pointer to the first
\* erased element meets it before it comes round to the pointer.
LEMMA DatedAreAligned ==
  ASSUME IInv, DaysInv, DatedInv, Markers
  PROVE  DaysAligned
PROOF
  <1> SUFFICES ASSUME pc = "idle", NEW k \in 0..NDays - 1,
                      \A j \in 0..k : DayBack(j) # Erased
               PROVE  DayBack(k) \in {ram.LastDay - k, 0}
    BY DEF DaysAligned
  <1> DEFINE p == ram.PtrCurrentByDay
  <1>1. NDays \in Nat \ {0} /\ p \in 0..NDays - 1
    BY Sectors DEF DaysInv, DatedInv, SameDay, Ahead, Takes
  <1>2. \A j \in 0..k : DayBack(j) = days[Cell(p, j)]
    <2>1. \A j \in 0..k : j \in 0..NDays - 1
      BY <1>1
    <2> QED
      BY <1>1, <2>1, CellBack DEF DayBack
  <1> HIDE DEF p
  <1>3. CASE k <= NDays - 2
    <2>1. k \in 0..NDays - 2 /\ k \in 0..k
      BY <1>1, <1>3
    <2> QED
      BY <1>2, <2>1 DEF DatedInv, Dated, p
  <1>4. CASE k = NDays - 1
    <2>1. PICK i \in 0..NDays - 1 : days[i] = Erased
      BY DEF Markers, Ended
    <2> DEFINE j == IF i < p THEN p - 1 - i ELSE p - 1 - i + NDays
    <2>2. j \in 0..k /\ Cell(p, j) = i
      BY <1>1, <1>4 DEF Cell
    <2> QED
      BY <1>2, <2>1, <2>2
  <1> QED
    BY <1>1, <1>3, <1>4

\* web_get_history_bydays gives every stored day its own date, however often
\* the power fails and a day is stored again, and however many days were missed
\* and filled in, for rings and sectors of any size.
THEOREM StoredDaysDated == Spec /\ []WithinYear => [](OnlyPowerFails => DaysAligned)
PROOF
  <1>1. Init => (OnlyPowerFails => DaysInv /\ DatedInv /\ Markers)
    BY InitDaysInv, InitDatedInv, InitMarkers
  <1>2. IInv /\ WithinYear /\ (OnlyPowerFails => DaysInv /\ DatedInv /\ Markers) /\ [Next]_vars
          => (OnlyPowerFails => DaysInv /\ DatedInv /\ Markers)'
    <2> SUFFICES ASSUME IInv, WithinYear, DaysInv, DatedInv, Markers, [Next]_vars,
                        OnlyPowerFails
                 PROVE  (DaysInv /\ DatedInv /\ Markers)'
      BY DEF OnlyPowerFails
    <2>1. FramFaultsOnly /\ "flash" \notin Faults
      BY DEF OnlyPowerFails, FramFaultsOnly
    <2> QED
      BY <2>1, NextDaysInv, NextDatedInv, NextMarkers
  <1>3. IInv /\ (OnlyPowerFails => DaysInv /\ DatedInv /\ Markers)
          => (OnlyPowerFails => DaysAligned)
    BY DatedAreAligned
  <1> QED
    BY <1>1, <1>2, <1>3, AccountInvariant, PTL DEF Spec
=============================================================================
