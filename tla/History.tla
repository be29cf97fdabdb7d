------------------------------ MODULE History ------------------------------
(***************************************************************************)
(* The history pages: web_get_history and web_get_history_bydays of        *)
(* src/app/web/web_int_callbacks.c read the rings that the accounting      *)
(* writes.  A page is put together in several callbacks, one for each      *)
(* buffer that was sent; minutes pass, and days begin, between them.       *)
(*                                                                         *)
(* Minutes and days are counted from the first one in the ring, a row is   *)
(* the date it prints and the minute or day whose energy it shows.  A      *)
(* callback is not interrupted by the accounting (busy); a step is one     *)
(* turn of its loop.  PowerMeter is the accounting itself; here no flash   *)
(* operation fails and a ring is a function of how much was written.       *)
(***************************************************************************)
EXTENDS Integers

CONSTANTS
    MinuteReaders,  \* connections that read a history by minutes or hours
    DayReaders,     \* connections that read a history by days
    NMinutes,       \* elements of the ring of minutes
    MinSector,      \* elements of a flash sector of it
    NDays,          \* elements of the ring of days
    DaySector,      \* elements of a flash sector of it
    NHours,         \* hours of a day
    Room,           \* rows that a buffer has room for
    HalfWord,       \* numbers of 16 bits
    MaxRows,        \* bound: rows that are asked for
    MaxMinutes,     \* bound: minutes written
    MaxDays         \* bound: days written

ASSUME HistoryAssumption ==
    /\ {NMinutes, MinSector, NDays, DaySector, NHours, Room} \subseteq Nat \ {0}
    /\ {MaxRows, MaxMinutes, MaxDays} \subseteq Nat
    /\ NMinutes % MinSector = 0 /\ MinSector % 2 = 0
    /\ NDays % DaySector = 0
    /\ HalfWord \in Nat /\ MaxRows < HalfWord
    /\ Room > NHours

Readers == MinuteReaders \cup DayReaders

VARIABLES
    minute, \* minutes written, the last of them at ByMin.LastTime
    day,    \* LastDay
    sums,   \* HistorySums: the total at the end of this day, or Nothing
    read,   \* read[r]: the page of r, see Reads
    busy,   \* the reader whose callback runs, or NoOne
    room    \* rows that still fit in its buffer

vars == <<minute, day, sums, read, busy, room>>

NoOne == "no one"
ASSUME NoReader == NoOne \notin Readers

Nothing == 0        \* an erased cell, or not the total of any day
Outside == -1       \* what the flash holds behind a ring

(***************************************************************************)
(* at: what the page is doing; out OutType, the flags HST_*;               *)
(* ptr hst->PtrCurrent or hst_bydays_ptr; date hst->LastTime, or the upper *)
(* half of hst_bydays_days, what it takes off LastDay; left the rows asked *)
(* for, of days the lower half; row the last row and before the minute     *)
(* that a row before it has shown.                                         *)
(* alone (history): no day began since the page was asked for, and no      *)
(* other page has used HistorySums.  counted (history): as many rows of    *)
(* days were asked for as the lower half counts down to 0.                 *)
(***************************************************************************)
ByHour == "HST_ByHour"
TotalCnt == "HST_TotalCnt"

NoRow == [date |-> 0, shows |-> Nothing]

Page(at, out, ptr, date, left, row) ==
    [at |-> at, out |-> out, ptr |-> ptr, date |-> date, left |-> left, hour |-> 0,
     row |-> row, before |-> Nothing, alone |-> TRUE, counted |-> TRUE]

Idle == Page("idle", {}, 0, 0, 0, NoRow)

-----------------------------------------------------------------------------
(***************************************************************************)
(* A ring of n cells after k were written: cell (m - 1) % n holds m, and   *)
(* the sector that the pointer is in is erased from there on.              *)
(***************************************************************************)
Ptr(n, k) == k % n

Cell(n, sector, k, i) ==
    LET m == k - (((k - 1) - i) % n)
        p == Ptr(n, k)
    IN IF i = n THEN Outside
       ELSE IF m < 1 \/ (i >= p /\ i \div sector = p \div sector) THEN Nothing ELSE m

MinuteAt(i) == Cell(NMinutes, MinSector, minute, i)
DayAt(i) == Cell(NDays, DaySector, day, i)

\* the flash is read by words of two elements
EndOfMinutes(i) ==
    LET first == i - (i % 2)
    IN i # NMinutes
       /\ MinuteAt(first) = Nothing
       /\ MinuteAt(first + 1) = Nothing

\* the element before, as the two readers find it
MinuteBefore(i) == IF i = 0 THEN NMinutes ELSE i - 1
DayBeforeAsMinutes(i) == IF i = 0 THEN NDays ELSE i - 1 \* mutation
DayBefore(i) == (IF i = 0 THEN NDays ELSE i) - 1

-----------------------------------------------------------------------------
Init ==
    /\ minute \in 0..MaxMinutes /\ day \in 1..MaxDays
    /\ sums = Nothing
    /\ read = [r \in Readers |-> Idle]
    /\ busy = NoOne /\ room = 0

\* update_cnts, StoreDay: between two callbacks
NewMinute ==
    /\ busy = NoOne /\ minute < MaxMinutes
    /\ minute' = minute + 1
    /\ UNCHANGED <<day, sums, read, busy, room>>

NewDay ==
    /\ busy = NoOne /\ day < MaxDays
    /\ day' = day + 1
    /\ read' = [r \in Readers |-> IF read[r].at = "days" THEN [read[r] EXCEPT !.alone = FALSE]
                                                         ELSE read[r]]
    /\ UNCHANGED <<minute, sums, busy, room>>

\* the first callback; the page and the header are in the buffer already
AskMinutes(r) ==
    /\ busy = NoOne /\ read[r].at = "idle"
    /\ \E n \in 0..MaxRows, h \in SUBSET {ByHour}, k \in 0..(Room - 1) :
        /\ read' = [read EXCEPT ![r] =
                     Page("minutes", h, Ptr(NMinutes, minute), minute, n, NoRow)]
        /\ room' = k
    /\ busy' = r
    /\ UNCHANGED <<minute, day, sums>>

\* another reader loses the sums that it has in HistorySums
Taken(r) == [q \in Readers |-> IF q # r /\ TotalCnt \in read[q].out
                               THEN [read[q] EXCEPT !.alone = FALSE] ELSE read[q]]

\* xNextDay: 0 less one is all ones, in both halves of the word
NextDay(p) ==
    IF p.left = 0
    THEN [p EXCEPT !.date = HalfWord - 1, !.left = HalfWord - 1]
    ELSE [p EXCEPT !.date = (@ + 1) % HalfWord, !.left = @ - 1]

\* the rows asked for are the whole word: some, or more than its lower half
\* holds, or 0, which the page that asks calls all
Asked == 0..MaxRows \cup {HalfWord + 1}

DaysPage(out, n, row) ==
    [Page("days", out, Ptr(NDays, day), n \div HalfWord, n % HalfWord, row)
        EXCEPT !.counted = n < HalfWord /\ (TotalCnt \in out => n > 0)]

\* with totals LastTotal is printed first, and taken for one of the rows
AskDays(r) ==
    /\ busy = NoOne /\ read[r].at = "idle"
    /\ \E n \in Asked, k \in 0..(Room - 1) :
        \/ /\ read' = [read EXCEPT ![r] = DaysPage({}, n, NoRow)]
           /\ room' = k
           /\ UNCHANGED sums
        \/ /\ read' = [Taken(r) EXCEPT ![r] =
                        NextDay(DaysPage({TotalCnt}, n,
                                         [date |-> day - (n \div HalfWord), shows |-> day]))]
           /\ room' = k
           /\ sums' = day
    /\ busy' = r
    /\ UNCHANGED <<minute, day>>

\* SCB_RETRYCB: the next buffer is free
Retry(r) ==
    /\ busy = NoOne /\ read[r].at # "idle"
    /\ busy' = r /\ room' = Room
    /\ UNCHANGED <<minute, day, sums, read>>

\* the callback returns; the page is sent, and goes on later or has ended
Returns(r, p) ==
    /\ read' = [read EXCEPT ![r] = p]
    /\ busy' = NoOne /\ room' = 0
    /\ UNCHANGED <<minute, day, sums>>

Continues(r, p) ==
    /\ read' = [read EXCEPT ![r] = p]
    /\ UNCHANGED <<minute, day, busy>>

(***************************************************************************)
(* web_get_history, one turn of the loop.  The pointer has been moved when *)
(* the buffer is found full, or 100 ms have passed with something in it.   *)
(***************************************************************************)
LastShown(p) == IF p.row.shows > 0 THEN p.row.shows ELSE p.before

MinutesTurn(r) == busy = r /\ read[r].at = "minutes"

Moved(r) == [read[r] EXCEPT !.ptr = MinuteBefore(@)]

\* mutation: every callback begins where the ring does now
FromTheStart(p) == [p EXCEPT !.ptr = Ptr(NMinutes, minute)]
AsItIs(p) == p

\* no more rows are asked for, the ring has been read, or its end is met
MinutesDone(r) ==
    \/ read[r].left = 0
    \/ Moved(r).ptr = Ptr(NMinutes, minute)
    \/ EndOfMinutes(Moved(r).ptr)
    \/ Moved(r).ptr = NMinutes

MinutesEnd(r) ==
    /\ MinutesTurn(r) /\ MinutesDone(r)
    /\ LET p == IF read[r].left = 0 THEN read[r] ELSE Moved(r)
       IN IF ByHour \in p.out
          THEN Continues(r, [p EXCEPT !.at = "hours", !.hour = NHours - 1]) /\ UNCHANGED <<sums, room>>
          ELSE Returns(r, Idle)

MinuteFound(r) ==
    /\ MinutesTurn(r)
    /\ read[r].left # 0
    /\ Moved(r).ptr # Ptr(NMinutes, minute)
    /\ ~EndOfMinutes(Moved(r).ptr)

MinuteWaits(r) ==
    /\ MinuteFound(r) /\ room < Room
    /\ Returns(r, AsItIs(Moved(r)))

MinuteRow(r) ==
    /\ MinuteFound(r) /\ room > 0
    /\ LET p == Moved(r)
           q == [p EXCEPT !.date = @ - 1, !.left = @ - 1]
       IN IF ByHour \in p.out
          THEN Continues(r, q) /\ UNCHANGED <<sums, room>>
          ELSE /\ Continues(r, [q EXCEPT !.before = LastShown(p),
                                         !.row = [date |-> p.date, shows |-> MinuteAt(p.ptr)]])
               /\ room' = room - 1
               /\ UNCHANGED sums

(***************************************************************************)
(* The sums of the hours are printed from the last one down.  udata_start  *)
(* keeps the hour that did not fit, but 0 is no hour there: the minutes    *)
(* are gone on with.                                                       *)
(***************************************************************************)
HoursTurn(r) == busy = r /\ read[r].at = "hours"

HourWaits(r) ==
    /\ HoursTurn(r) /\ room = 0
    /\ Returns(r, IF read[r].hour = 0 THEN [read[r] EXCEPT !.at = "minutes"] ELSE read[r])

NoLastHour(h) == FALSE                  \* mutation: h >= 0 always
LastHour(h) == h = 0

HourRow(r) ==
    /\ HoursTurn(r) /\ room > 0
    /\ IF LastHour(read[r].hour)
       THEN Returns(r, Idle)
       ELSE /\ Continues(r, [read[r] EXCEPT !.hour = @ - 1])
            /\ room' = room - 1
            /\ UNCHANGED sums

(***************************************************************************)
(* web_get_history_bydays, one turn of the loop.  The sums are right only  *)
(* as long as each day is taken off the total at its own end.              *)
(***************************************************************************)
DaysTurn(r) == busy = r /\ read[r].at = "days"

DayPtr(r) == DayBefore(read[r].ptr)

DaysEnd(r) ==
    /\ DaysTurn(r)
    /\ \/ read[r].left = 0
       \/ room > 0 /\ DayPtr(r) = Ptr(NDays, day)
       \/ room > 0 /\ DayAt(DayPtr(r)) = Nothing
    /\ Returns(r, Idle)

DayWaits(r) ==
    /\ DaysTurn(r) /\ read[r].left # 0 /\ room = 0
    /\ Returns(r, read[r])

SumWithout(m) == IF sums = m THEN m - 1 ELSE Nothing

DayRow(r) ==
    /\ DaysTurn(r) /\ read[r].left # 0 /\ room > 0
    /\ DayPtr(r) # Ptr(NDays, day)
    /\ DayAt(DayPtr(r)) # Nothing
    /\ LET m == DayAt(DayPtr(r))
           p == NextDay([read[r] EXCEPT !.ptr = DayPtr(r)])
           shows == IF TotalCnt \in p.out THEN SumWithout(m) ELSE m
           row == [date |-> day - read[r].date, shows |-> shows]
       IN /\ read' = [(IF TotalCnt \in p.out THEN Taken(r) ELSE read) EXCEPT ![r] = [p EXCEPT !.row = row]]
          /\ sums' = IF TotalCnt \in p.out THEN shows ELSE sums
    /\ room' = room - 1
    /\ UNCHANGED <<minute, day, busy>>

Callback(r) ==
    \/ MinutesEnd(r) \/ MinuteWaits(r) \/ MinuteRow(r)
    \/ HourWaits(r) \/ HourRow(r)
    \/ DaysEnd(r) \/ DayWaits(r) \/ DayRow(r)

Next ==
    \/ NewMinute \/ NewDay
    \/ \E r \in MinuteReaders : AskMinutes(r)
    \/ \E r \in DayReaders : AskDays(r)
    \/ \E r \in Readers : Retry(r) \/ Callback(r)

Spec == Init /\ [][Next]_vars

-----------------------------------------------------------------------------
Reads == [at : {"idle", "minutes", "hours", "days"}, out : SUBSET {ByHour, TotalCnt},
          ptr : 0..(IF NDays > NMinutes THEN NDays ELSE NMinutes), date : Int,
          left : 0..(HalfWord - 1), hour : 0..(NHours - 1),
          row : [date : Int, shows : Int], before : 0..MaxMinutes,
          alone : BOOLEAN, counted : BOOLEAN]

\* no pointer is farther than one place behind its ring
TypeOK ==
    /\ minute \in 0..MaxMinutes /\ day \in 1..MaxDays /\ sums \in 0..MaxDays
    /\ read \in [Readers -> Reads]
    /\ busy \in Readers \cup {NoOne}
    /\ room \in 0..Room

(***************************************************************************)
(* What a history by days prints for a date is what was counted on it, and *)
(* its total the total of it, over the end of the ring and in however many *)
(* buffers, as long as no day begins meanwhile, no other page uses the     *)
(* sums, and the rows asked for are counted: not 0 of them with totals,    *)
(* which is called all and turns the word, and no more than 65535          *)
(* (web_get_history_bydays).                                               *)
(***************************************************************************)
DayRowsDated ==
    \A r \in Readers :
        read[r].at = "days" /\ read[r].alone /\ read[r].counted
            => read[r].row.date = read[r].row.shows

(***************************************************************************)
(* A history by minutes never turns back: a row shows an earlier minute    *)
(* than the rows before it, while minutes are written, unless the ring has *)
(* been written all around in the meantime (web_get_history).  Up to three *)
(* elements are gone over for a row: one for each buffer found full, and   *)
(* the place behind the ring.                                              *)
(***************************************************************************)
MinutesGoBack ==
    \A r \in Readers :
        LET p == read[r]
        IN p.row.shows > 0 /\ p.before > 0 /\ minute < p.before + NMinutes - 3
            => p.row.shows < p.before

(***************************************************************************)
(* web_int_callbacks.c:502, "Output history by 1 min from last record to   *)
(* previous": a row of a history by minutes shows the minute of its date.  *)
(***************************************************************************)
MinuteRowsDated ==
    \A r \in Readers :
        read[r].at = "minutes" /\ read[r].row.shows > 0 => read[r].row.date = read[r].row.shows
=============================================================================
