-------------------------- MODULE PowerMeterProof --------------------------
(***************************************************************************)
(* The accounting, for every value of the constants: types, the countdown  *)
(* to the next FRAM save, and energy that is never counted twice.          *)
(***************************************************************************)
EXTENDS PowerMeter, TLAPS

Stores == [Fields -> Int]
ByDay  == {"PtrCurrentByDay", "LastDay"}

\* The constants, as the proofs need them.
LEMMA Constants ==
  /\ NMinutes \in Nat /\ NDays \in Nat /\ SavePeriod \in Nat /\ SavePeriod >= 1
  /\ NPos \in Nat /\ NPos >= 1 /\ DayLen \in Nat /\ DayLen >= 1 /\ Cap \in Nat
  /\ MaxLoop \in Nat /\ StartTotal \in Nat /\ StartTime \in Nat /\ MaxUse \in Nat /\ MaxDown \in Nat
  /\ MaxFaults \in Nat /\ MaxCrashes \in Nat /\ MaxWeb \in Nat /\ NMinutes >= 1 /\ NDays >= 1
  /\ MinSector \in Nat /\ DaySector \in Nat /\ MinSector >= 1 /\ DaySector >= 1
PROOF
  BY PowerMeterAssumption

----------------------------------------------------------------------------
(* The invariant.                                                          *)
StoresOK == ram \in Stores /\ fram \in [Places -> Stores] /\ pos \in Places

RingsOK == minutes \in [0..NMinutes - 1 -> Int] /\ days \in [0..NDays - 1 -> Int]

InputsOK == clock \in Nat /\ known \in Nat /\ dayRead \in Nat

WorkOK ==
  /\ status \in 0..2 /\ halted \in BOOLEAN /\ countdown \in 1..SavePeriod
  /\ pc \in {"idle", "count", "day", "save"} /\ loops \in 0..MaxLoop /\ full \in BOOLEAN
  /\ overrun \in BOOLEAN

WorldOK == time \in Nat /\ total \in Nat /\ known <= total

BudgetOK == faults \in 0..MaxFaults /\ crashes \in 0..MaxCrashes /\ webs \in 0..MaxWeb

Types == StoresOK /\ RingsOK /\ InputsOK /\ WorkOK /\ WorldOK /\ BudgetOK

\* A record that counts no more than the meter did and has nothing waiting.
Settled(store, sum) == store["PowerCnt"] = 0 /\ store["TotalCnt"] <= sum

\* Nothing is counted twice; nothing waits except while the loop runs, neither
\* in fram_store nor in the image a restart would find.
Clean(sum) ==
  /\ ram.PowerCnt >= 0 /\ ram.PowerCnt + ram.TotalCnt <= sum
  /\ pc # "count" => ram.PowerCnt = 0
  /\ \A p \in Places : fram[p]["LastTime"] # Blank => Settled(fram[p], sum)

\* It holds while no call was cut short with energy left over.
Account == ~overrun => Clean(total)

IInv == Types /\ Account

----------------------------------------------------------------------------
(* Operators.                                                              *)

\* What a pass takes is a part of PowerCnt.
LEMMA ShareOfPower ==
  ASSUME NEW power \in Nat, NEW behind \in Int
  PROVE  Share(power, behind) \in 0..power
PROOF
  <1>1. CASE power > 1 /\ behind >= 2
    <2>1. power \div behind \in 0..power
      BY <1>1
    <2> QED
      BY <1>1, <2>1, Constants DEF Share
  <1>2. CASE ~(power > 1 /\ behind >= 2)
    BY <1>2, Constants DEF Share
  <1> QED
    BY <1>1, <1>2

\* Whatever PowerCnt is, a share of it is a number.
LEMMA ShareType ==
  ASSUME NEW power \in Int, NEW behind \in Int
  PROVE  Share(power, behind) \in Int
PROOF
  <1>1. CASE behind >= 2
    <2>1. power \div behind \in Int
      BY <1>1
    <2> QED
      BY <2>1, Constants DEF Share
  <1>2. CASE ~(behind >= 2)
    BY <1>2, Constants DEF Share
  <1> QED
    BY <1>1, <1>2

\* Programming and erasing keep a ring a ring.
LEMMA RingTypes ==
  ASSUME NEW n \in Nat, NEW ring \in [0..n - 1 -> Int], NEW ptr \in Int, NEW v \in Int,
         NEW sector
  PROVE  /\ ProgramAt(ring, ptr, v) \in [0..n - 1 -> Int]
         /\ EraseAt(ring, ptr, sector) \in [0..n - 1 -> Int]
PROOF
  <1>1. DOMAIN ring = 0..n - 1 /\ \A i \in 0..n - 1 : ring[i] \in Int
    OBVIOUS
  <1>2. Erased \in Int /\ Mixed \in Int /\ \A old \in Int : Program(old, v) \in Int
    BY DEF Erased, Mixed, Program
  <1>3. ProgramAt(ring, ptr, v) \in [0..n - 1 -> Int]
    BY <1>1, <1>2 DEF ProgramAt
  <1>4. EraseAt(ring, ptr, sector) \in [0..n - 1 -> Int]
    BY <1>1, <1>2 DEF EraseAt
  <1> QED
    BY <1>3, <1>4

\* So does clearing its ends.
LEMMA EraseEndsType ==
  ASSUME NEW n \in Nat, NEW ring \in [0..n - 1 -> Int], NEW sector, NEW ends
  PROVE  EraseEnds(ring, n, sector, ends) \in [0..n - 1 -> Int]
PROOF
  BY DEF EraseEnds, Erased

\* The next place in a ring.
LEMMA Next1Type ==
  ASSUME NEW ptr \in Int, NEW n \in Nat
  PROVE  Next1(ptr, n) \in Int
PROOF
  BY DEF Next1

\* A write keeps the FRAM what it is, and leaves the other places alone.
LEMMA WrittenTypes ==
  ASSUME fram \in [Places -> Stores], NEW p \in Places, NEW store \in Stores, NEW F
  PROVE  /\ Written(p, F, store) \in [Places -> Stores]
         /\ \A o \in Places \ {p} : Written(p, F, store)[o] = fram[o]
         /\ \A f \in Fields : Written(p, F, store)[p][f] =
                                IF f \in F THEN store[f] ELSE fram[p][f]
PROOF
  <1> DEFINE image == [f \in Fields |-> IF f \in F THEN store[f] ELSE fram[p][f]]
  <1>1. image \in Stores
    BY DEF Stores
  <1>2. Written(p, F, store) = [fram EXCEPT ![p] = image]
    BY DEF Written
  <1>3. \A f \in Fields : image[f] = IF f \in F THEN store[f] ELSE fram[p][f]
    OBVIOUS
  <1> HIDE DEF image
  <1> QED
    BY <1>1, <1>2, <1>3

\* Writing any part of a settled record keeps every image settled, as long as
\* an image that has LastTime has PowerCnt and TotalCnt too: either it is
\* written with them, or it was there before.
LEMMA WrittenSettled ==
  ASSUME fram \in [Places -> Stores], NEW p \in Places, NEW store \in Stores,
         NEW sum \in Nat, Settled(store, sum),
         \A o \in Places : fram[o]["LastTime"] # Blank => Settled(fram[o], sum),
         NEW F, "LastTime" \in F => "PowerCnt" \in F /\ "TotalCnt" \in F
  PROVE  \A o \in Places :
           Written(p, F, store)[o]["LastTime"] # Blank => Settled(Written(p, F, store)[o], sum)
PROOF
  <1> SUFFICES ASSUME NEW o \in Places, Written(p, F, store)[o]["LastTime"] # Blank
               PROVE  Settled(Written(p, F, store)[o], sum)
    OBVIOUS
  <1>1. {"PowerCnt", "TotalCnt", "LastTime"} \subseteq Fields
    BY DEF Fields
  <1>2. CASE o # p
    BY <1>2, WrittenTypes
  <1>3. CASE o = p
    <2>1. /\ Written(p, F, store)[p]["PowerCnt"] =
               IF "PowerCnt" \in F THEN store["PowerCnt"] ELSE fram[p]["PowerCnt"]
          /\ Written(p, F, store)[p]["TotalCnt"] =
               IF "TotalCnt" \in F THEN store["TotalCnt"] ELSE fram[p]["TotalCnt"]
          /\ Written(p, F, store)[p]["LastTime"] =
               IF "LastTime" \in F THEN store["LastTime"] ELSE fram[p]["LastTime"]
      BY <1>1, WrittenTypes
    <2> QED
      BY <1>3, <2>1 DEF Settled
  <1> QED
    BY <1>2, <1>3

\* The first fields of a write that stops early: LastTime is the last of the
\* by-minute part.
LEMMA FirstFieldsOrdered ==
  ASSUME NEW n \in Nat, "LastTime" \in FirstFields(n)
  PROVE  "PowerCnt" \in FirstFields(n) /\ "TotalCnt" \in FirstFields(n)
PROOF
  <1>1. PICK i \in 1..n : FieldOrder[i] = "LastTime"
    BY DEF FirstFields
  <1>2. i # 1 /\ i # 2
    BY <1>1 DEF FieldOrder
  <1>3. 1 \in 1..n /\ 2 \in 1..n
    BY <1>2
  <1>4. FieldOrder[1] = "PowerCnt" /\ FieldOrder[2] = "TotalCnt"
    BY DEF FieldOrder
  <1> QED
    BY <1>3, <1>4 DEF FirstFields

----------------------------------------------------------------------------
(* Types.                                                                  *)

\* The fields of a record are numbers, and a record with numbers for some of
\* its fields is one.
LEMMA StoreTypes ==
  ASSUME NEW r \in Stores
  PROVE  /\ r.PowerCnt \in Int /\ r.TotalCnt \in Int /\ r.PtrCurrent \in Int
         /\ r.LastTime \in Int /\ r.PtrCurrentByDay \in Int /\ r.LastDay \in Int
         /\ \A n \in Int : Counted(r, n) \in Stores
         /\ \A n \in Int : [r EXCEPT !.PowerCnt = n] \in Stores
         /\ \A n \in Int : [r EXCEPT !.TotalCnt = n] \in Stores
         /\ \A n \in Int : [r EXCEPT !.LastDay = n] \in Stores
         /\ \A n, m \in Int : [r EXCEPT !.PowerCnt = n, !.PtrCurrent = m] \in Stores
         /\ \A n, m \in Int : [r EXCEPT !.LastDay = n, !.PtrCurrentByDay = m] \in Stores
         /\ \A n, m, k \in Int :
              [r EXCEPT !.LastTime = n, !.TotalCnt = m, !.PowerCnt = k] \in Stores
PROOF
  <1>1. /\ r.PowerCnt \in Int /\ r.TotalCnt \in Int /\ r.PtrCurrent \in Int
        /\ r.LastTime \in Int /\ r.PtrCurrentByDay \in Int /\ r.LastDay \in Int
    BY DEF Stores, Fields
  <1>2. \A n \in Int : Counted(r, n) \in Stores
    <2> TAKE n \in Int
    <2> DEFINE ptr == Next1(r.PtrCurrent, NMinutes)
               power == r.PowerCnt - n
               sum == r.TotalCnt + n
               last == r.LastTime + 1
    <2>1. ptr \in Int /\ power \in Int /\ sum \in Int /\ last \in Int
      BY <1>1, Constants, Next1Type
    <2>2. Counted(r, n) = [r EXCEPT !.PowerCnt = power, !.PtrCurrent = ptr,
                                    !.TotalCnt = sum, !.LastTime = last]
      BY DEF Counted
    <2> HIDE DEF ptr, power, sum, last
    <2> QED
      BY <2>1, <2>2 DEF Stores
  <1> QED
    BY <1>1, <1>2 DEF Stores, Fields

\* What a pass counts is a number.
LEMMA PassTypes ==
  ASSUME Types
  PROVE  /\ Pcnt \in Int
         /\ Next1(ram.PtrCurrent, NMinutes) \in Int
         /\ Next1(ram.PtrCurrentByDay, NDays) \in Int
         /\ DayValue \in Int /\ NextDay \in Int /\ Pulses \in Int
PROOF
  <1>1. /\ ram.PowerCnt \in Int /\ ram.PtrCurrent \in Int /\ ram.LastTime \in Int
        /\ ram.PtrCurrentByDay \in Int /\ ram.LastDay \in Int /\ ram.TotalCnt \in Int
    BY StoreTypes DEF Types, StoresOK
  <1>2. clock \in Nat /\ known \in Nat /\ dayRead \in Nat
    BY DEF Types, InputsOK
  <1>3. Pcnt \in Int
    <2>1. clock - ram.LastTime \in Int
      BY <1>1, <1>2
    <2> QED
      BY <1>1, <2>1, ShareType DEF Pcnt
  <1>4. Next1(ram.PtrCurrent, NMinutes) \in Int /\ Next1(ram.PtrCurrentByDay, NDays) \in Int
    BY <1>1, Constants, Next1Type
  <1>5. DayValue \in Int /\ NextDay \in Int
    BY <1>1, <1>2 DEF DayValue, NextDay, DayBefore
  <1>6. Pulses \in Int
    BY <1>1, <1>2 DEF Pulses
  <1> QED
    BY <1>3, <1>4, <1>5, <1>6

\* A step of the loop ends at another pass or at the by-day part.
LEMMA AfterPassTypes ==
  ASSUME WorkOK, NEW store, AfterPass(store)
  PROVE  pc' \in {"count", "day"} /\ loops' \in 0..MaxLoop /\ overrun' \in BOOLEAN
PROOF
  <1>1. pc' \in {"count", "day"} /\ loops' \in 0..MaxLoop
    BY Constants DEF WorkOK, AfterPass, Again
  <1>2. overrun' = overrun \/ overrun' = (overrun \/ store.PowerCnt # 0)
    BY DEF AfterPass
  <1>3. overrun' \in BOOLEAN
    BY <1>2, Zenon DEF WorkOK
  <1> QED
    BY <1>1, <1>3

\* A fault or none keeps the count of faults in its range.
LEMMA FaultTypes ==
  ASSUME BudgetOK, NEW kind, Fault(kind) \/ NoFault
  PROVE  faults' \in 0..MaxFaults
PROOF
  BY Constants DEF BudgetOK, Fault, NoFault

\* A restart leaves a typed record, whatever the image was.
LEMMA RestartTypes ==
  ASSUME NEW image \in Stores, Restart(image)
  PROVE  /\ ram' \in Stores /\ InputsOK'
         /\ (ram' = image /\ image["LastTime"] # Blank) \/ ram' = Zeroes
         /\ status' \in 0..2 /\ halted' \in BOOLEAN /\ countdown' \in 1..SavePeriod
         /\ pc' = "idle" /\ loops' \in 0..MaxLoop /\ full' \in BOOLEAN /\ known' = 0
PROOF
  <1>1. Zeroes \in Stores
    BY DEF Zeroes, Stores
  <1>2. /\ status' \in 0..2 /\ countdown' \in 1..SavePeriod /\ pc' = "idle"
        /\ loops' \in 0..MaxLoop /\ InputsOK' /\ known' = 0
    BY Constants DEF Restart, InputsOK
  <1>3. halted' \in BOOLEAN /\ full' \in BOOLEAN
    BY DEF Restart
  <1> QED
    BY <1>1, <1>2, <1>3 DEF Restart

\* Every step keeps the types; the countdown is part of them.
LEMMA TypeStep ==
  ASSUME Types, [Next]_vars
  PROVE  Types'
PROOF
  <1>a. StoresOK /\ RingsOK /\ InputsOK /\ WorkOK /\ WorldOK /\ BudgetOK
    BY DEF Types
  <1>b. ram \in Stores /\ fram \in [Places -> Stores] /\ pos \in Places
    BY <1>a DEF StoresOK
  <1>1. CASE MinuteTimer
    <2>1. ram' \in Stores
      <3>a. ram.PowerCnt \in Int /\ Pulses \in Int
        BY <1>b, StoreTypes, PassTypes
      <3>1. ram.PowerCnt + Pulses \in Int
        BY <3>a
      <3>2. ram' = [ram EXCEPT !.PowerCnt = ram.PowerCnt + Pulses]
        BY <1>1 DEF MinuteTimer
      <3> QED
        BY <1>b, <3>1, <3>2, StoreTypes
    <2>2. loops' \in 0..MaxLoop /\ pc' = "count"
      BY <1>1, Constants DEF MinuteTimer
    <2>3. full' \in BOOLEAN
      BY <1>1, Zenon DEF MinuteTimer
    <2> QED
      BY <1>1, <1>a, <2>1, <2>2, <2>3
         DEF MinuteTimer, Types, StoresOK, RingsOK, InputsOK, WorkOK, WorldOK, BudgetOK,
             inputs, work, world, budget
  <1>2. CASE CountLongGap
    <2>1. ram' \in Stores
      <3>a. ram.TotalCnt \in Int /\ ram.PowerCnt \in Int
        BY <1>b, StoreTypes
      <3>b. clock \in Int
        BY <1>a DEF InputsOK
      <3>1. ram.TotalCnt + ram.PowerCnt \in Int /\ clock \in Int /\ 0 \in Int
        BY <3>a, <3>b
      <3>2. ram' = [ram EXCEPT !.LastTime = clock, !.TotalCnt = ram.TotalCnt + ram.PowerCnt,
                               !.PowerCnt = 0]
        BY <1>2 DEF CountLongGap
      <3> QED
        BY <1>b, <3>1, <3>2, StoreTypes
    <2>2. pc' \in {"count", "day"} /\ loops' \in 0..MaxLoop /\ overrun' \in BOOLEAN
      BY <1>2, <1>a, AfterPassTypes DEF CountLongGap
    <2> QED
      BY <1>2, <1>a, <2>1, <2>2
         DEF CountLongGap, Types, StoresOK, RingsOK, InputsOK, WorkOK, WorldOK, BudgetOK,
             inputs, work, world, budget
  <1>3. ASSUME NormalPass, minutes' \in [0..NMinutes - 1 -> Int], ram' \in Stores,
               faults' \in 0..MaxFaults, AfterPass(ram')
        PROVE  Types'
    <2>1. pc' \in {"count", "day"} /\ loops' \in 0..MaxLoop /\ overrun' \in BOOLEAN
      BY <1>3, <1>a, AfterPassTypes
    <2> QED
      BY <1>3, <1>a, <2>1
         DEF NormalPass, Types, StoresOK, RingsOK, InputsOK, WorkOK, WorldOK, BudgetOK,
             inputs, work, world
  <1>4. CASE CountMinute
    <2> DEFINE ptr == Next1(ram.PtrCurrent, NMinutes)
               ring == ProgramAt(minutes, ram.PtrCurrent, Pcnt)
    <2>1. Pcnt \in Int /\ ptr \in Int /\ ram.PtrCurrent \in Int
      BY <1>b, PassTypes, StoreTypes
    <2>2. ring \in [0..NMinutes - 1 -> Int]
      BY <1>a, <2>1, RingTypes, Constants DEF RingsOK
    <2>3. EraseAt(ring, ptr, MinSector) \in [0..NMinutes - 1 -> Int]
      BY <2>1, <2>2, RingTypes, Constants
    <2>4. minutes' = EraseAt(ring, ptr, MinSector) /\ ram' = Counted(ram, Pcnt)
      BY <1>4 DEF CountMinute
    <2>5. ram' \in Stores
      BY <2>1, <2>4, <1>b, StoreTypes
    <2>6. faults' \in 0..MaxFaults
      BY <1>4, <1>a, FaultTypes DEF CountMinute
    <2> QED
      BY <1>3, <1>4, <2>3, <2>4, <2>5, <2>6 DEF CountMinute
  <1>5. CASE CountWriteFails
    <2>1. ram' \in Stores
      <3>a. ram.PowerCnt \in Int /\ Pcnt \in Int
        BY <1>b, StoreTypes, PassTypes
      <3>1. ram.PowerCnt - Pcnt \in Int
        BY <3>a
      <3>2. ram' = [ram EXCEPT !.PowerCnt = ram.PowerCnt - Pcnt]
        BY <1>5 DEF CountWriteFails
      <3> QED
        BY <1>b, <3>1, <3>2, StoreTypes
    <2>2. faults' \in 0..MaxFaults
      BY <1>5, <1>a, FaultTypes DEF CountWriteFails
    <2> QED
      BY <1>3, <1>5, <1>a, <2>1, <2>2 DEF CountWriteFails, RingsOK
  <1>6. CASE CountEraseFails
    <2>1. Pcnt \in Int /\ ram.PtrCurrent \in Int
      BY <1>b, PassTypes, StoreTypes
    <2>2. ProgramAt(minutes, ram.PtrCurrent, Pcnt) \in [0..NMinutes - 1 -> Int]
      BY <1>a, <2>1, RingTypes, Constants DEF RingsOK
    <2>3. ram' \in Stores
      <3> DEFINE ptr == Next1(ram.PtrCurrent, NMinutes)
      <3>a. ram.PowerCnt \in Int /\ Pcnt \in Int /\ ptr \in Int
        BY <1>b, StoreTypes, PassTypes
      <3>1. ram.PowerCnt - Pcnt \in Int /\ ptr \in Int
        BY <3>a
      <3>2. ram' = [ram EXCEPT !.PowerCnt = ram.PowerCnt - Pcnt, !.PtrCurrent = ptr]
        BY <1>6 DEF CountEraseFails
      <3> QED
        BY <1>b, <3>1, <3>2, StoreTypes
    <2>4. faults' \in 0..MaxFaults
      BY <1>6, <1>a, FaultTypes DEF CountEraseFails
    <2> QED
      BY <1>3, <1>6, <2>2, <2>3, <2>4 DEF CountEraseFails
  <1>7. CASE NoNewDay
    BY <1>7, <1>a
       DEF NoNewDay, Types, StoresOK, RingsOK, InputsOK, WorkOK, WorldOK, BudgetOK,
           inputs, work, world, budget
  <1>8. ASSUME NewDay, days' \in [0..NDays - 1 -> Int], ram' \in Stores,
               faults' \in 0..MaxFaults, pc' \in {"idle", "save"},
               countdown' \in 1..SavePeriod, full' \in BOOLEAN
        PROVE  Types'
    BY <1>8, <1>a
       DEF NewDay, Types, StoresOK, RingsOK, InputsOK, WorkOK, WorldOK, BudgetOK, inputs, world
  <1>9. DayWritten \in [0..NDays - 1 -> Int]
    <2>1. DayValue \in Int /\ ram.PtrCurrentByDay \in Int
      BY <1>b, PassTypes, StoreTypes
    <2> QED
      BY <1>a, <2>1, RingTypes, Constants DEF RingsOK, DayWritten
  <1>10. CASE StoreDay
    <2>1. EraseAt(DayWritten, Next1(ram.PtrCurrentByDay, NDays), DaySector) \in [0..NDays - 1 -> Int]
      BY <1>9, PassTypes, RingTypes, Constants
    <2>2. ram' \in Stores
      BY <1>10, <1>b, StoreTypes, PassTypes DEF StoreDay
    <2>3. faults' \in 0..MaxFaults
      BY <1>10, <1>a, FaultTypes DEF StoreDay
    <2>4. countdown' \in 1..SavePeriod /\ full' \in BOOLEAN /\ pc' \in {"idle", "save"}
      BY <1>10, Constants DEF StoreDay
    <2> QED
      BY <1>8, <1>10, <2>1, <2>2, <2>3, <2>4 DEF StoreDay
  <1>11. CASE StoreDayWriteFails
    <2>1. ram' \in Stores
      BY <1>11, <1>b, StoreTypes, PassTypes DEF StoreDayWriteFails
    <2>2. faults' \in 0..MaxFaults
      BY <1>11, <1>a, FaultTypes DEF StoreDayWriteFails
    <2> QED
      BY <1>8, <1>11, <1>a, <2>1, <2>2 DEF StoreDayWriteFails, RingsOK, WorkOK
  <1>12. CASE StoreDayEraseFails
    <2>1. ram' \in Stores
      BY <1>12, <1>b, StoreTypes, PassTypes DEF StoreDayEraseFails
    <2>2. faults' \in 0..MaxFaults
      BY <1>12, <1>a, FaultTypes DEF StoreDayEraseFails
    <2> QED
      BY <1>8, <1>9, <1>12, <1>a, <2>1, <2>2 DEF StoreDayEraseFails, WorkOK
  <1>13. CASE NoSave
    <2>1. countdown' \in 1..SavePeriod
      BY <1>13, <1>a, Constants DEF NoSave, SaveDue, Countdown, WorkOK
    <2> QED
      BY <1>13, <1>a, <2>1
         DEF NoSave, Types, StoresOK, RingsOK, InputsOK, WorkOK, WorldOK, BudgetOK,
             inputs, world, budget
  <1>14. ASSUME SaveDone, fram' \in [Places -> Stores], pos' \in Places, status' \in 0..2,
                faults' \in 0..MaxFaults
         PROVE  Types'
    BY <1>14, <1>a, Constants
       DEF SaveDone, Types, StoresOK, RingsOK, InputsOK, WorkOK, WorldOK, BudgetOK, inputs, world
  <1>15. CASE Save
    <2>1. fram' \in [Places -> Stores]
      BY <1>15, <1>b, WrittenTypes DEF Save
    <2>2. faults' \in 0..MaxFaults
      BY <1>15, <1>a, FaultTypes DEF Save
    <2> QED
      BY <1>14, <1>15, <1>a, <1>b, <2>1, <2>2 DEF Save, WorkOK
  <1>16. CASE SaveFails
    <2>1. fram' \in [Places -> Stores]
      BY <1>16, <1>b, WrittenTypes DEF SaveFails
    <2>2. faults' \in 0..MaxFaults
      BY <1>16, <1>a, FaultTypes DEF SaveFails
    <2> QED
      BY <1>14, <1>16, <1>b, <2>1, <2>2 DEF SaveFails
  <1>17. CASE SaveFindsBad
    <2>1. pos' \in Places
      BY <1>17, <1>b, Constants DEF SaveFindsBad, Places
    <2>2. faults' \in 0..MaxFaults
      BY <1>17, <1>a, FaultTypes DEF SaveFindsBad
    <2> QED
      BY <1>14, <1>17, <1>a, <1>b, <2>1, <2>2 DEF SaveFindsBad, WorkOK
  <1>18. ASSUME PowerFails, fram' \in [Places -> Stores], NEW image \in Stores, Restart(image),
                faults' \in 0..MaxFaults
         PROVE  Types'
    <2>1. PICK down \in 0..MaxDown, use \in 0..MaxUse : time' = time + down /\ total' = total + use
      BY <1>18 DEF PowerFails
    <2>2. time' \in Nat /\ total' \in Nat /\ crashes' \in 0..MaxCrashes
      BY <1>18, <1>a, <2>1, Constants DEF PowerFails, WorldOK, BudgetOK
    <2>3. /\ ram' \in Stores /\ InputsOK' /\ known' = 0
          /\ status' \in 0..2 /\ halted' \in BOOLEAN /\ countdown' \in 1..SavePeriod
          /\ pc' = "idle" /\ loops' \in 0..MaxLoop /\ full' \in BOOLEAN
      BY <1>18, RestartTypes
    <2> QED
      BY <1>18, <1>a, <2>2, <2>3
         DEF PowerFails, Types, StoresOK, RingsOK, WorkOK, WorldOK, BudgetOK
  <1>19. CASE Crash
    <2>1. fram[pos] \in Stores
      BY <1>b
    <2>2. faults' \in 0..MaxFaults
      BY <1>19, <1>a, FaultTypes DEF Crash
    <2> QED
      BY <1>18, <1>19, <1>b, <2>1, <2>2 DEF Crash
  <1>20. CASE CrashAndNoRead
    <2>1. Blanks \in Stores
      BY DEF Blanks, Blank, Stores
    <2>2. faults' \in 0..MaxFaults
      BY <1>20, <1>a, FaultTypes DEF CrashAndNoRead
    <2> QED
      BY <1>18, <1>20, <1>b, <2>1, <2>2 DEF CrashAndNoRead
  <1>21. CASE CrashInSave
    <2>1. fram' \in [Places -> Stores]
      BY <1>21, <1>b, WrittenTypes DEF CrashInSave
    <2>2. fram'[pos] \in Stores
      BY <1>b, <2>1
    <2>3. faults' \in 0..MaxFaults
      BY <1>21, <1>a, FaultTypes DEF CrashInSave
    <2> QED
      BY <1>18, <1>21, <2>1, <2>2, <2>3 DEF CrashInSave
  <1>22. CASE Reading
    BY <1>22, <1>a
       DEF Reading, Types, StoresOK, RingsOK, InputsOK, WorkOK, WorldOK, BudgetOK, work, call,
           world, budget
  <1>23. CASE ArchiveRead
    <2>1. clock \div DayLen \in Nat
      BY <1>a, Constants DEF InputsOK
    <2> QED
      BY <1>23, <1>a, <2>1
         DEF ArchiveRead, Types, StoresOK, RingsOK, InputsOK, WorkOK, WorldOK, BudgetOK, work,
             call, world, budget
  <1>24. CASE MinutePasses
    <2>1. PICK use \in 0..MaxUse : total' = total + use
      BY <1>24 DEF MinutePasses
    <2>2. time' \in Nat /\ total' \in Nat /\ total <= total'
      BY <1>24, <1>a, <2>1, Constants DEF MinutePasses, WorldOK
    <2>3. clock' \in Nat /\ known' \in {known, total'}
      BY <1>24, <2>2 DEF MinutePasses
    <2>4. WorldOK' /\ InputsOK'
      BY <1>24, <1>a, <2>2, <2>3 DEF MinutePasses, WorldOK, InputsOK
    <2> QED
      BY <1>24, <1>a, <2>4
         DEF MinutePasses, Types, StoresOK, RingsOK, WorkOK, BudgetOK, work, call, budget
  <1>25. CASE Halt
    <2>1. faults' \in 0..MaxFaults
      BY <1>25, <1>a, FaultTypes DEF Halt
    <2> QED
      BY <1>25, <1>a, <2>1
         DEF Halt, Types, StoresOK, RingsOK, InputsOK, WorkOK, WorldOK, BudgetOK, inputs, call,
             world
  <1>26. ASSUME NEW command, Web(command), ram' \in Stores, fram' \in [Places -> Stores],
                minutes' \in [0..NMinutes - 1 -> Int], days' \in [0..NDays - 1 -> Int],
                faults' \in 0..MaxFaults,
                UNCHANGED <<pos, inputs, work, call, overrun, world, crashes>>
         PROVE  Types'
    <2>1. webs' \in 0..MaxWeb
      BY <1>26, <1>a, Constants DEF Web, BudgetOK
    <2> QED
      BY <1>26, <1>a, <2>1
         DEF Types, StoresOK, RingsOK, InputsOK, WorkOK, WorldOK, BudgetOK, inputs, work, call,
             world
  <1>27. ASSUME NEW store \in Stores, SaveAll(store)
         PROVE  fram' \in [Places -> Stores] /\ faults' \in 0..MaxFaults
    <2>1. fram' \in [Places -> Stores]
      BY <1>27, <1>b, WrittenTypes DEF SaveAll
    <2>2. faults' \in 0..MaxFaults
      BY <1>27, <1>a, FaultTypes DEF SaveAll
    <2> QED
      BY <2>1, <2>2
  <1>28. CASE WebSetTotalCnt
    <2>1. PICK t \in {0, known} : SetAndSave([ram EXCEPT !.TotalCnt = t])
      BY <1>28 DEF WebSetTotalCnt
    <2>2. [ram EXCEPT !.TotalCnt = t] \in Stores
      <3>1. t \in Int
        BY <1>a, <2>1 DEF InputsOK
      <3> QED
        BY <1>b, <3>1, StoreTypes
    <2> QED
      BY <1>26, <1>27, <1>28, <1>a, <2>1, <2>2 DEF WebSetTotalCnt, SetAndSave, RingsOK
  <1>29. CASE WebSetLastDay
    <2>1. PICK d \in {0, dayRead} : SetAndSave([ram EXCEPT !.LastDay = d])
      BY <1>29 DEF WebSetLastDay
    <2>2. [ram EXCEPT !.LastDay = d] \in Stores
      <3>1. d \in Int
        BY <1>a, <2>1 DEF InputsOK
      <3> QED
        BY <1>b, <3>1, StoreTypes
    <2> QED
      BY <1>26, <1>27, <1>29, <1>a, <2>1, <2>2 DEF WebSetLastDay, SetAndSave, RingsOK
  <1>30. CASE WebResetData
    <2>1. PICK bits \in SUBSET {1, 2, 4}, dayEnds \in SUBSET Ends, minuteEnds \in SUBSET Ends :
            /\ ram' = Cleared(bits)
            /\ IF dayEnds = Ends /\ minuteEnds = Ends
               THEN IF 1 \in bits THEN SaveAll(Zeroes) ELSE NoFault /\ fram' = fram
               ELSE /\ Fault("flash")
                    /\ fram' = IF 1 \in bits /\ ~halted THEN Written(pos, Fields, Zeroes)
                               ELSE fram
            /\ days' = IF 2 \in bits THEN EraseEnds(days, NDays, DaySector, dayEnds) ELSE days
            /\ minutes' = IF 4 \in bits
                          THEN EraseEnds(minutes, NMinutes, MinSector, minuteEnds)
                          ELSE minutes
      BY <1>30 DEF WebResetData
    <2>2. Zeroes \in Stores
      BY DEF Zeroes, Stores
    <2>3. ram' \in Stores
      BY <1>b, <2>1 DEF Stores, Cleared
    <2>4. fram' \in [Places -> Stores] /\ faults' \in 0..MaxFaults
      <3>1. CASE SaveAll(Zeroes)
        BY <1>27, <2>2, <3>1
      <3>2. CASE NoFault /\ fram' = fram
        BY <1>a, <1>b, <3>2, FaultTypes
      <3>3. CASE /\ Fault("flash")
                 /\ fram' = IF 1 \in bits /\ ~halted THEN Written(pos, Fields, Zeroes) ELSE fram
        BY <1>a, <1>b, <2>2, <3>3, FaultTypes, WrittenTypes
      <3> QED
        BY <2>1, <3>1, <3>2, <3>3
    <2>5. minutes' \in [0..NMinutes - 1 -> Int] /\ days' \in [0..NDays - 1 -> Int]
      BY <1>a, <2>1, EraseEndsType, Constants DEF RingsOK
    <2> QED
      BY <1>26, <1>30, <2>3, <2>4, <2>5 DEF WebResetData
  <1>31. CASE UNCHANGED vars
    BY <1>31, <1>a
       DEF vars, Types, StoresOK, RingsOK, InputsOK, WorkOK, WorldOK, BudgetOK, inputs, work,
           call, world, budget
  <1> QED
    BY <1>1, <1>2, <1>4, <1>5, <1>6, <1>7, <1>10, <1>11, <1>12, <1>13, <1>15, <1>16, <1>17,
       <1>19, <1>20, <1>21, <1>22, <1>23, <1>24, <1>25, <1>28, <1>29, <1>30, <1>31
       DEF Next, UpdateCntTimer

----------------------------------------------------------------------------
(* Nothing is counted twice.                                               *)

\* Every step that cuts no call short keeps the accounts clean.
LEMMA CleanStep ==
  ASSUME Types, Clean(total), [Next]_vars, ~overrun'
  PROVE  Clean(total)'
PROOF
  <1>a. /\ ram \in Stores /\ fram \in [Places -> Stores] /\ pos \in Places
        /\ known \in Nat /\ clock \in Nat /\ total \in Nat /\ known <= total
    BY DEF Types, StoresOK, InputsOK, WorldOK
  <1>b. ram.PowerCnt \in Int /\ ram.TotalCnt \in Int /\ ram.LastTime \in Int
    BY <1>a, StoreTypes
  <1>c. /\ ram.PowerCnt >= 0 /\ ram.PowerCnt + ram.TotalCnt <= total
        /\ pc # "count" => ram.PowerCnt = 0
        /\ \A p \in Places : fram[p]["LastTime"] # Blank => Settled(fram[p], total)
    BY DEF Clean
  <1>d. pc # "count" => Settled(ram, total)
    BY <1>b, <1>c DEF Settled
  <1>e. Zeroes.PowerCnt = 0 /\ Zeroes.TotalCnt = 0
    BY DEF Zeroes, Fields
  \* Steps that leave what counts alone.
  <1>f. ASSUME ram'.PowerCnt = ram.PowerCnt, ram'.TotalCnt = ram.TotalCnt,
               pc # "count", pc' # "count", fram' = fram, total' = total
        PROVE  Clean(total)'
    BY <1>c, <1>f DEF Clean
  <1>1. CASE MinuteTimer
    <2>1. ram'.PowerCnt = ram.PowerCnt + Pulses /\ ram'.TotalCnt = ram.TotalCnt
      BY <1>1, <1>a DEF MinuteTimer, Stores, Fields
    <2>2. ram.PowerCnt = 0 /\ pc' = "count" /\ fram' = fram /\ total' = total
      BY <1>1, <1>c DEF MinuteTimer, world
    <2>3. Pulses >= 0 /\ Pulses + ram.TotalCnt <= total /\ Pulses \in Int
      BY <1>a, <1>b, <1>c, <2>2 DEF Pulses
    <2> QED
      BY <1>b, <1>c, <2>1, <2>2, <2>3 DEF Clean
  \* A pass of the loop: it ends the loop only with nothing left.
  <1>g. ASSUME AfterPass(ram'), ram'.PowerCnt >= 0, ram'.PowerCnt + ram'.TotalCnt <= total,
               fram' = fram, total' = total
        PROVE  Clean(total)'
    <2>1. pc' # "count" => ram'.PowerCnt = 0
      BY <1>g DEF AfterPass
    <2> QED
      BY <1>c, <1>g, <2>1 DEF Clean
  <1>2. CASE CountLongGap
    <2>1. ram'.PowerCnt = 0 /\ ram'.TotalCnt = ram.TotalCnt + ram.PowerCnt
      BY <1>2, <1>a DEF CountLongGap, Stores, Fields
    <2> QED
      BY <1>2, <1>b, <1>c, <1>g, <2>1 DEF CountLongGap, world
  <1>h. Pcnt \in 0..ram.PowerCnt
    <2>1. ram.PowerCnt \in Nat /\ clock - ram.LastTime \in Int
      BY <1>a, <1>b, <1>c
    <2> QED
      BY <2>1, ShareOfPower DEF Pcnt
  <1>3. CASE CountMinute
    <2>1. ram'.PowerCnt = ram.PowerCnt - Pcnt /\ ram'.TotalCnt = ram.TotalCnt + Pcnt
      BY <1>3, <1>a DEF CountMinute, Counted, Stores, Fields
    <2>2. AfterPass(ram') /\ fram' = fram /\ total' = total
      BY <1>3 DEF CountMinute, NormalPass, world
    <2>3. ram'.PowerCnt >= 0 /\ ram'.PowerCnt + ram'.TotalCnt <= total
      BY <1>b, <1>c, <1>h, <2>1
    <2> QED
      BY <1>g, <2>2, <2>3
  <1>4. CASE CountWriteFails \/ CountEraseFails
    <2>1. ram'.PowerCnt = ram.PowerCnt - Pcnt /\ ram'.TotalCnt = ram.TotalCnt
      BY <1>4, <1>a DEF CountWriteFails, CountEraseFails, Stores, Fields
    <2>2. AfterPass(ram') /\ fram' = fram /\ total' = total
      BY <1>4 DEF CountWriteFails, CountEraseFails, NormalPass, world
    <2>3. ram'.PowerCnt >= 0 /\ ram'.PowerCnt + ram'.TotalCnt <= total
      BY <1>a, <1>b, <1>c, <1>h, <2>1
    <2> QED
      BY <1>g, <2>2, <2>3
  <1>5. CASE NoNewDay
    BY <1>5, <1>f DEF NoNewDay, world
  <1>6. CASE StoreDay \/ StoreDayWriteFails \/ StoreDayEraseFails
    <2>1. ram'.PowerCnt = ram.PowerCnt /\ ram'.TotalCnt = ram.TotalCnt
      BY <1>6, <1>a DEF StoreDay, StoreDayWriteFails, StoreDayEraseFails, Stores, Fields
    <2>2. pc # "count" /\ pc' # "count" /\ fram' = fram /\ total' = total
      BY <1>6 DEF StoreDay, StoreDayWriteFails, StoreDayEraseFails, NewDay, world
    <2> QED
      BY <1>f, <2>1, <2>2
  <1>7. CASE NoSave
    BY <1>7, <1>f DEF NoSave, world
  \* Writing the record, or a part of it, to the FRAM.
  <1>i. ASSUME NEW F, "LastTime" \in F => "PowerCnt" \in F /\ "TotalCnt" \in F,
               Settled(ram, total)
        PROVE  \A p \in Places : Written(pos, F, ram)[p]["LastTime"] # Blank =>
                                   Settled(Written(pos, F, ram)[p], total)
    BY <1>a, <1>c, <1>i, WrittenSettled
  <1>j. ASSUME NEW n \in Nat, Settled(ram, total)
        PROVE  \A p \in Places : Written(pos, FirstFields(n), ram)[p]["LastTime"] # Blank =>
                                   Settled(Written(pos, FirstFields(n), ram)[p], total)
    <2>1. "LastTime" \in FirstFields(n) =>
            "PowerCnt" \in FirstFields(n) /\ "TotalCnt" \in FirstFields(n)
      BY FirstFieldsOrdered
    <2> QED
      BY <1>i, <1>j, <2>1
  <1>k. SaveSize \in Nat
    BY DEF SaveSize
  <1>8. CASE Save
    <2>1. Settled(ram, total) /\ fram' = Written(pos, FirstFields(SaveSize), ram)
      BY <1>8, <1>d DEF Save, SaveDone
    <2>3. \A p \in Places : fram'[p]["LastTime"] # Blank => Settled(fram'[p], total)
      BY <1>j, <1>k, <2>1
    <2> QED
      BY <1>8, <1>c, <2>3 DEF Save, SaveDone, Clean, world
  <1>9. CASE SaveFails
    <2>1. PICK n \in 0..SaveSize - 1 : fram' = Written(pos, FirstFields(n), ram)
      BY <1>9 DEF SaveFails
    <2>2. Settled(ram, total) /\ n \in Nat
      BY <1>9, <1>d, <1>k DEF SaveFails, SaveDone
    <2>3. \A p \in Places : fram'[p]["LastTime"] # Blank => Settled(fram'[p], total)
      BY <1>j, <2>1, <2>2
    <2> QED
      BY <1>9, <1>c, <2>3 DEF SaveFails, SaveDone, Clean, world
  <1>10. CASE SaveFindsBad
    BY <1>10, <1>f DEF SaveFindsBad, SaveDone, world
  \* A restart from an image that is settled if it has LastTime.
  <1>l. ASSUME PowerFails, NEW image \in Stores, Restart(image),
               image["LastTime"] # Blank => Settled(image, total),
               \A p \in Places : fram'[p]["LastTime"] # Blank => Settled(fram'[p], total),
               fram' \in [Places -> Stores]
        PROVE  Clean(total)'
    <2>1. PICK use \in 0..MaxUse : total' = total + use
      BY <1>l DEF PowerFails
    <2>2. total' \in Nat /\ total <= total'
      BY <1>a, <2>1, Constants
    <2>3. ASSUME NEW st \in Stores, Settled(st, total) PROVE Settled(st, total')
      <3>1. st["TotalCnt"] \in Int
        BY <2>3 DEF Stores, Fields
      <3> QED
        BY <1>a, <2>2, <2>3, <3>1 DEF Settled
    <2>4. \A p \in Places : fram'[p]["LastTime"] # Blank => Settled(fram'[p], total')
      BY <1>l, <2>3
    <2>5. (ram' = image /\ image["LastTime"] # Blank) \/ ram' = Zeroes
      BY <1>l, RestartTypes
    <2>6. ram'.PowerCnt = 0 /\ ram'.TotalCnt <= total'
      <3>1. CASE ram' = image /\ image["LastTime"] # Blank
        BY <1>l, <2>3, <3>1 DEF Settled
      <3>2. CASE ram' = Zeroes
        BY <1>e, <2>2, <3>2
      <3> QED
        BY <2>5, <3>1, <3>2
    <2>7. ram'.TotalCnt \in Int
      <3>1. ram' \in Stores
        BY <1>l, RestartTypes
      <3> QED
        BY <3>1 DEF Stores, Fields
    <2> QED
      BY <2>2, <2>4, <2>6, <2>7 DEF Clean
  <1>11. CASE Crash
    BY <1>11, <1>a, <1>c, <1>l DEF Crash
  <1>12. CASE CrashAndNoRead
    <2>1. Blanks \in Stores /\ Blanks["LastTime"] = Blank
      BY DEF Blanks, Blank, Stores, Fields
    <2> QED
      BY <1>12, <1>a, <1>c, <1>l, <2>1 DEF CrashAndNoRead
  <1>13. CASE CrashInSave
    <2>1. PICK n \in 0..SaveSize - 1 : fram' = Written(pos, FirstFields(n), ram)
      BY <1>13 DEF CrashInSave
    <2>2. Settled(ram, total) /\ n \in Nat
      BY <1>13, <1>d, <1>k DEF CrashInSave
    <2>3. \A p \in Places : fram'[p]["LastTime"] # Blank => Settled(fram'[p], total)
      BY <1>j, <2>1, <2>2
    <2>4. fram' \in [Places -> Stores] /\ fram'[pos] \in Stores
      BY <1>a, <2>1, WrittenTypes
    <2> QED
      BY <1>13, <1>a, <1>l, <2>3, <2>4 DEF CrashInSave
  <1>14. CASE Reading
    BY <1>14, <1>f DEF Reading, call, world
  <1>15. CASE ArchiveRead
    BY <1>15, <1>f DEF ArchiveRead, call, world
  <1>16. CASE MinutePasses
    <2>1. PICK use \in 0..MaxUse : total' = total + use
      BY <1>16 DEF MinutePasses
    <2>2. total' \in Nat /\ total <= total'
      BY <1>a, <2>1, Constants
    <2>3. ram' = ram /\ fram' = fram /\ pc' = pc
      BY <1>16 DEF MinutePasses, call
    <2>4. ASSUME NEW p \in Places, fram[p]["LastTime"] # Blank PROVE Settled(fram[p], total')
      <3>1. fram[p]["TotalCnt"] \in Int /\ Settled(fram[p], total)
        BY <1>a, <1>c, <2>4 DEF Stores, Fields
      <3> QED
        BY <1>a, <2>2, <3>1 DEF Settled
    <2>5. ram.PowerCnt + ram.TotalCnt <= total'
      BY <1>a, <1>b, <1>c, <2>2
    <2> QED
      BY <1>c, <2>3, <2>4, <2>5 DEF Clean
  <1>17. CASE Halt
    BY <1>17, <1>f DEF Halt, call, world
  \* The page saves a settled record, or a part of it.
  <1>m. ASSUME NEW store \in Stores, Settled(store, total), SaveAll(store)
        PROVE  \A p \in Places : fram'[p]["LastTime"] # Blank => Settled(fram'[p], total)
    <2>1. "LastTime" \in Fields => "PowerCnt" \in Fields /\ "TotalCnt" \in Fields
      BY DEF Fields
    <2>2. CASE fram' = fram
      BY <1>c, <2>2
    <2>3. CASE fram' = Written(pos, Fields, store)
      BY <1>a, <1>c, <1>m, <2>1, <2>3, WrittenSettled
    <2>4. ASSUME NEW n \in 0..5, fram' = Written(pos, FirstFields(n), store)
          PROVE  \A p \in Places : fram'[p]["LastTime"] # Blank => Settled(fram'[p], total)
      <3>1. "LastTime" \in FirstFields(n) =>
              "PowerCnt" \in FirstFields(n) /\ "TotalCnt" \in FirstFields(n)
        BY FirstFieldsOrdered
      <3> QED
        BY <1>a, <1>c, <1>m, <2>4, <3>1, WrittenSettled
    <2> QED
      BY <1>m, <2>2, <2>3, <2>4 DEF SaveAll
  <1>n. ASSUME NEW store \in Stores, Settled(store, total), SetAndSave(store), pc = "idle",
               pc' = pc, total' = total
        PROVE  Clean(total)'
    <2>1. \A p \in Places : fram'[p]["LastTime"] # Blank => Settled(fram'[p], total)
      BY <1>m, <1>n DEF SetAndSave
    <2>2. ram' = store /\ ram'.PowerCnt = 0 /\ ram'.TotalCnt <= total /\ ram'.TotalCnt \in Int
      BY <1>n, StoreTypes DEF SetAndSave, Settled
    <2> QED
      BY <1>a, <1>n, <2>1, <2>2 DEF Clean
  <1>18. CASE WebSetTotalCnt
    <2>1. PICK t \in {0, known} : SetAndSave([ram EXCEPT !.TotalCnt = t])
      BY <1>18 DEF WebSetTotalCnt
    <2>2. t \in Nat /\ t <= total
      BY <1>a, <2>1
    <2>3. pc = "idle" /\ pc' = pc /\ total' = total /\ ram.PowerCnt = 0
      BY <1>18, <1>c DEF WebSetTotalCnt, Web, call, world
    <2>4. [ram EXCEPT !.TotalCnt = t] \in Stores /\ Settled([ram EXCEPT !.TotalCnt = t], total)
      BY <1>a, <2>2, <2>3 DEF Stores, Fields, Settled
    <2> QED
      BY <1>n, <2>1, <2>3, <2>4
  <1>19. CASE WebSetLastDay
    <2>1. PICK d \in {0, dayRead} : SetAndSave([ram EXCEPT !.LastDay = d])
      BY <1>19 DEF WebSetLastDay
    <2>2. d \in Nat
      BY <2>1 DEF Types, InputsOK
    <2>3. pc = "idle" /\ pc' = pc /\ total' = total /\ Settled(ram, total)
      BY <1>19, <1>d DEF WebSetLastDay, Web, call, world
    <2>4. [ram EXCEPT !.LastDay = d] \in Stores /\ Settled([ram EXCEPT !.LastDay = d], total)
      BY <1>a, <2>2, <2>3 DEF Stores, Fields, Settled
    <2> QED
      BY <1>n, <2>1, <2>3, <2>4
  <1>20. CASE WebResetData
    <2>1. PICK bits \in SUBSET {1, 2, 4}, dayEnds \in SUBSET Ends, minuteEnds \in SUBSET Ends :
            /\ ram' = Cleared(bits)
            /\ IF dayEnds = Ends /\ minuteEnds = Ends
               THEN IF 1 \in bits THEN SaveAll(Zeroes) ELSE NoFault /\ fram' = fram
               ELSE /\ Fault("flash")
                    /\ fram' = IF 1 \in bits /\ ~halted THEN Written(pos, Fields, Zeroes)
                               ELSE fram
      BY <1>20 DEF WebResetData
    <2>2. pc = "idle" /\ pc' = pc /\ total' = total /\ Settled(ram, total)
      BY <1>20, <1>d DEF WebResetData, Web, call, world
    <2>3. Zeroes \in Stores /\ Settled(Zeroes, total)
      BY <1>a DEF Zeroes, Stores, Settled, Fields
    <2>4. \A p \in Places : Written(pos, Fields, Zeroes)[p]["LastTime"] # Blank =>
                              Settled(Written(pos, Fields, Zeroes)[p], total)
      <3>1. "LastTime" \in Fields => "PowerCnt" \in Fields /\ "TotalCnt" \in Fields
        BY DEF Fields
      <3> QED
        BY <1>a, <1>c, <2>3, <3>1, WrittenSettled
    <2>5. \A p \in Places : fram'[p]["LastTime"] # Blank => Settled(fram'[p], total)
      <3>1. CASE SaveAll(Zeroes)
        BY <1>m, <2>3, <3>1
      <3>2. CASE fram' = fram
        BY <1>c, <3>2
      <3>3. CASE fram' = Written(pos, Fields, Zeroes)
        BY <2>4, <3>3
      <3> QED
        BY <2>1, <3>1, <3>2, <3>3
    <2>6. ram'.PowerCnt \in {0, ram.PowerCnt} /\ ram'.TotalCnt \in {0, ram.TotalCnt}
      BY <2>1 DEF Fields, ByMin, Cleared
    <2> QED
      BY <1>a, <1>b, <2>2, <2>5, <2>6 DEF Clean, Settled
  <1>21. CASE UNCHANGED vars
    BY <1>21, <1>c DEF vars, world, call, Clean
  <1> QED
    BY <1>1, <1>2, <1>3, <1>4, <1>5, <1>6, <1>7, <1>8, <1>9, <1>10, <1>11, <1>12, <1>13,
       <1>14, <1>15, <1>16, <1>17, <1>18, <1>19, <1>20, <1>21 DEF Next, UpdateCntTimer

\* No step clears overrun.
LEMMA OverrunStays ==
  ASSUME Types, [Next]_vars, overrun
  PROVE  overrun'
PROOF
  <1>1. CASE MinuteTimer \/ NoNewDay \/ NoSave
    BY <1>1 DEF MinuteTimer, NoNewDay, NoSave
  <1>2. CASE CountLongGap \/ CountMinute \/ CountWriteFails \/ CountEraseFails
    <2>1. AfterPass(ram')
      BY <1>2 DEF CountLongGap, CountMinute, CountWriteFails, CountEraseFails
    <2> QED
      BY <2>1 DEF AfterPass
  <1>3. CASE StoreDay \/ StoreDayWriteFails \/ StoreDayEraseFails
    BY <1>3 DEF StoreDay, StoreDayWriteFails, StoreDayEraseFails, NewDay
  <1>4. CASE Save \/ SaveFails \/ SaveFindsBad
    BY <1>4 DEF Save, SaveFails, SaveFindsBad, SaveDone
  <1>5. CASE Crash \/ CrashAndNoRead \/ CrashInSave
    BY <1>5 DEF Crash, CrashAndNoRead, CrashInSave, PowerFails
  <1>6. CASE Reading \/ ArchiveRead \/ MinutePasses \/ Halt
    BY <1>6 DEF Reading, ArchiveRead, MinutePasses, Halt
  <1>7. CASE WebSetTotalCnt \/ WebSetLastDay \/ WebResetData
    BY <1>7 DEF WebSetTotalCnt, WebSetLastDay, WebResetData
  <1>8. CASE UNCHANGED vars
    BY <1>8 DEF vars
  <1> QED
    BY <1>1, <1>2, <1>3, <1>4, <1>5, <1>6, <1>7, <1>8 DEF Next, UpdateCntTimer

----------------------------------------------------------------------------
(* The theorems.                                                           *)

\* The invariant holds at first: fram_store and its only image are StartStore.
LEMMA InitIInv == Init => IInv
PROOF
  <1> SUFFICES ASSUME Init
               PROVE  IInv
    OBVIOUS
  <1>1. /\ StartStore \in Stores /\ StartStore.PowerCnt = 0
        /\ StartStore.TotalCnt <= StartTotal
    <2>1. /\ StartStore \in [Fields -> Nat] /\ StartStore.PowerCnt = 0
          /\ StartStore.TotalCnt <= StartTotal
      BY PowerMeterAssumption DEF Fields
    <2> QED
      BY <2>1 DEF Stores
  <1>2. Blanks \in Stores /\ Blanks["LastTime"] = Blank
    BY DEF Blanks, Blank, Stores, Fields
  <1>3. /\ ram = StartStore /\ fram = [p \in Places |-> IF p = 0 THEN StartStore ELSE Blanks]
        /\ pos = 0 /\ known = 0 /\ total = StartTotal /\ pc = "idle"
    BY DEF Init
  <1>4. StoresOK
    BY <1>1, <1>2, <1>3, Constants DEF StoresOK, Places
  <1>5. RingsOK
    BY Constants DEF Init, RingsOK, Erased
  <1>6. InputsOK /\ WorldOK /\ BudgetOK
    BY Constants DEF Init, InputsOK, WorldOK, BudgetOK
  <1>7. WorkOK
    <2>1. status \in 0..2 /\ countdown \in 1..SavePeriod /\ loops \in 0..MaxLoop
      BY Constants DEF Init
    <2>2. halted \in BOOLEAN /\ full \in BOOLEAN /\ overrun \in BOOLEAN
      BY DEF Init
    <2> QED
      BY <1>3, <2>1, <2>2 DEF WorkOK
  <1>8. Clean(total)
    <2>1. StartStore.TotalCnt \in Int /\ Settled(StartStore, total)
      BY <1>1, <1>3, StoreTypes DEF Settled
    <2>2. \A p \in Places : fram[p]["LastTime"] # Blank => Settled(fram[p], total)
      BY <1>2, <1>3, <2>1
    <2>3. total \in Int
      BY <1>6 DEF WorldOK
    <2> QED
      BY <1>1, <1>3, <2>1, <2>2, <2>3 DEF Clean
  <1> QED
    BY <1>4, <1>5, <1>6, <1>7, <1>8 DEF IInv, Types, Account

\* Every step keeps it.
LEMMA NextIInv == IInv /\ [Next]_vars => IInv'
PROOF
  <1> SUFFICES ASSUME IInv, [Next]_vars
               PROVE  IInv'
    OBVIOUS
  <1>1. Types /\ Account
    BY DEF IInv
  <1>2. Types'
    BY <1>1, TypeStep
  <1>3. ASSUME ~overrun' PROVE Clean(total)'
    <2>1. ~overrun
      BY <1>1, <1>3, OverrunStays
    <2>2. Clean(total)
      BY <1>1, <2>1 DEF Account
    <2> QED
      BY <1>1, <1>3, <2>2, CleanStep
  <1> QED
    BY <1>2, <1>3 DEF IInv, Account

\* The properties the runs check follow from it.
LEMMA IInvImplies == IInv => TypeOK /\ CountdownRuns /\ CountedOnce
PROOF
  <1> SUFFICES ASSUME IInv
               PROVE  TypeOK /\ CountdownRuns /\ CountedOnce
    OBVIOUS
  <1>1. Types /\ Account
    BY DEF IInv
  <1>2. CountdownRuns /\ countdown \in Nat
    BY <1>1, Constants DEF Types, WorkOK, CountdownRuns
  <1>3. TypeOK
    BY <1>1, <1>2
       DEF Types, StoresOK, RingsOK, InputsOK, WorkOK, WorldOK, BudgetOK, Stores, TypeOK
  <1>4. CountedOnce
    BY <1>1 DEF Account, Clean, CountedOnce
  <1> QED
    BY <1>2, <1>3, <1>4

\* The invariant of the accounting holds in every state.
THEOREM AccountInvariant == Spec => []IInv
PROOF
  <1> QED
    BY InitIInv, NextIInv, PTL DEF Spec

\* The variables of power_meter.c keep their types and ranges, whatever fails
\* and whenever the power does.
THEOREM TypeCorrect == Spec => []TypeOK
PROOF
  <1> QED
    BY AccountInvariant, IInvImplies, PTL

\* No energy is counted twice as long as no call of update_cnt_timer_func is
\* cut short with energy left in PowerCnt: not by a crash between two writes,
\* a torn FRAM write, a flash operation that fails or a command of the page.
THEOREM EnergyCountedOnce == Spec => []CountedOnce
PROOF
  <1> QED
    BY AccountInvariant, IInvImplies, PTL

\* Fram_SaveCountdown never passes zero.
THEOREM CountdownNeverWraps == Spec => []CountdownRuns
PROOF
  <1> QED
    BY AccountInvariant, IInvImplies, PTL
=============================================================================
