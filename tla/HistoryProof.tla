---------------------------- MODULE HistoryProof ----------------------------
(***************************************************************************)
(* The two histories, for any rings, pages, minutes, days and buffers:     *)
(* what the rows of days show (IInv), and that the rows of minutes go back *)
(* (BackInv).                                                              *)
(***************************************************************************)
EXTENDS History, TLAPS

\* A remainder is the only one that a multiple of n leaves.
LEMMA ModUnique ==
    ASSUME NEW k \in Int, NEW n \in Nat \ {0}, NEW q \in Int, NEW r \in 0..(n - 1),
           k = q * n + r
    PROVE  k % n = r
    OBVIOUS

\* The remainder of the number before.
LEMMA ModBefore ==
    ASSUME NEW k \in Int, NEW n \in Nat \ {0}
    PROVE  (k - 1) % n = IF k % n = 0 THEN n - 1 ELSE (k % n) - 1
<1> DEFINE q == k \div n
           r == k % n
<1>1. q \in Int /\ r \in 0..(n - 1) /\ k = n * q + r
    OBVIOUS
<1>a. SUFFICES (k - 1) % n = IF r = 0 THEN n - 1 ELSE r - 1
    OBVIOUS
<1> HIDE DEF q, r
<1>2. CASE r = 0
    <2>1. k - 1 = (q - 1) * n + (n - 1)
        BY <1>1, <1>2
    <2>2. (k - 1) % n = n - 1
        BY <1>1, <2>1, ModUnique
    <2> QED BY <1>2, <2>2
<1>3. CASE r # 0
    <2>1. k - 1 = q * n + (r - 1) /\ r - 1 \in 0..(n - 1)
        BY <1>1, <1>3
    <2>2. (k - 1) % n = r - 1
        BY <1>1, <2>1, ModUnique
    <2> QED BY <1>3, <2>2
<1> QED BY <1>2, <1>3

(***************************************************************************)
(* The element k places behind the pointer, k below the size of the ring,  *)
(* holds what was written k before the last, unless it is erased.          *)
(***************************************************************************)
LEMMA CellBehind ==
    ASSUME NEW n \in Nat \ {0}, NEW sector \in Nat \ {0}, NEW m \in Int, NEW k \in 0..(n - 1),
           Cell(n, sector, m, (m - 1 - k) % n) # Nothing
    PROVE  Cell(n, sector, m, (m - 1 - k) % n) = m - k
<1> DEFINE i == (m - 1 - k) % n
           q == (m - 1 - k) \div n
<1>1. q \in Int /\ i \in 0..(n - 1) /\ m - 1 - k = n * q + i
    BY m - 1 - k \in Int
<1> HIDE DEF q, i
<1>2. (m - 1) - i = q * n + k
    BY <1>1
<1>3. ((m - 1) - i) % n = k
    BY <1>1, <1>2, ModUnique
<1>4. i # n
    BY <1>1
<1> SUFFICES ASSUME Cell(n, sector, m, i) # Nothing PROVE Cell(n, sector, m, i) = m - k
    BY DEF i
<1> QED BY <1>3, <1>4 DEF Cell

-----------------------------------------------------------------------------
(***************************************************************************)
(* What a page of days, which no new day and no other page has disturbed,  *)
(* has read: the pointer is as many elements behind the ring's as rows     *)
(* were taken off LastDay, its total is that of the day before them, and   *)
(* the rows left do not turn the count of those taken off.                 *)
(***************************************************************************)
RowsOff(p) == IF TotalCnt \in p.out THEN p.date - 1 ELSE p.date

Behind(p, d, s) ==
    /\ RowsOff(p) \in 0..(NDays - 1)
    /\ p.ptr = (d - RowsOff(p)) % NDays
    /\ p.row.date = p.row.shows
    /\ TotalCnt \in p.out => s = d - RowsOff(p)
    /\ p.date \in Nat /\ p.date + p.left < HalfWord

ReaderOK(p, d, s) ==
    /\ p \in Reads
    /\ p.at \in {"minutes", "hours"} => p.row.shows <= MaxMinutes
    /\ p.at = "days" /\ p.alone /\ p.counted => Behind(p, d, s)

IInv ==
    /\ TypeOK
    /\ \A r \in Readers : ReaderOK(read[r], day, sums)

LEMMA Sizes ==
    /\ NMinutes \in Nat \ {0} /\ NDays \in Nat \ {0} /\ NHours \in Nat \ {0} /\ Room \in Nat \ {0}
    /\ MinSector \in Nat \ {0} /\ DaySector \in Nat \ {0}
    /\ MaxRows \in Nat /\ MaxMinutes \in Nat /\ MaxDays \in Nat
    /\ HalfWord \in Nat /\ MaxRows < HalfWord
    BY HistoryAssumption DEF HistoryAssumption

\* The rings' elements are numbers of Reads.
LEMMA PtrsInReads ==
    /\ \A i \in 0..NMinutes : i \in 0..(IF NDays > NMinutes THEN NDays ELSE NMinutes)
    /\ \A i \in 0..NDays : i \in 0..(IF NDays > NMinutes THEN NDays ELSE NMinutes)
    BY Sizes

\* A page that begins.
LEMMA PageTyped ==
    ASSUME NEW at \in {"idle", "minutes", "hours", "days"}, NEW out \in SUBSET {ByHour, TotalCnt},
           NEW ptr \in 0..(IF NDays > NMinutes THEN NDays ELSE NMinutes), NEW date \in Int,
           NEW left \in 0..(HalfWord - 1), NEW row \in [date : Int, shows : Int]
    PROVE  Page(at, out, ptr, date, left, row) \in Reads
<1>1. 0 \in 0..(NHours - 1) /\ Nothing \in 0..MaxMinutes
    BY Sizes DEF Nothing
<1> QED BY <1>1 DEF Page, Reads

\* A page that another one or a new day disturbs.
LEMMA Disturbed ==
    ASSUME NEW p \in Reads
    PROVE  /\ [p EXCEPT !.alone = FALSE] \in Reads
           /\ [p EXCEPT !.alone = FALSE].at = p.at
           /\ [p EXCEPT !.alone = FALSE].row = p.row
           /\ ~[p EXCEPT !.alone = FALSE].alone
<1>1. [p EXCEPT !.alone = FALSE] \in Reads
    BY DEF Reads
<1>2. [p EXCEPT !.alone = FALSE].at = p.at /\ ~[p EXCEPT !.alone = FALSE].alone
    BY DEF Reads
<1>3. [p EXCEPT !.alone = FALSE].row = p.row
    BY DEF Reads
<1> QED BY <1>1, <1>2, <1>3

\* The word of a page of days goes on by a day: of the page nothing else does,
\* and its halves by one each as long as rows are left and it does not turn.
LEMMA NextDayOK ==
    ASSUME NEW p \in Reads
    PROVE  /\ NextDay(p) \in Reads
           /\ NextDay(p).at = p.at /\ NextDay(p).out = p.out /\ NextDay(p).ptr = p.ptr
           /\ NextDay(p).row = p.row /\ NextDay(p).before = p.before
           /\ NextDay(p).alone = p.alone /\ NextDay(p).counted = p.counted
           /\ p.left # 0 /\ p.date \in Nat /\ p.date + p.left < HalfWord
                => NextDay(p).date = p.date + 1 /\ NextDay(p).left = p.left - 1
<1> DEFINE date == IF p.left = 0 THEN HalfWord - 1 ELSE (p.date + 1) % HalfWord
           left == IF p.left = 0 THEN HalfWord - 1 ELSE p.left - 1
           q == [p EXCEPT !.date = date, !.left = left]
<1>1. NextDay(p) = q
    BY DEF NextDay, Reads
<1>2. p.left \in 0..(HalfWord - 1) /\ p.date \in Int /\ HalfWord \in Nat \ {0}
    BY Sizes DEF Reads
<1>3. date \in Int /\ left \in 0..(HalfWord - 1)
    BY <1>2
<1>4. p.left # 0 /\ p.date \in Nat /\ p.date + p.left < HalfWord
        => date = p.date + 1 /\ left = p.left - 1
    <2> SUFFICES ASSUME p.left # 0, p.date \in Nat, p.date + p.left < HalfWord
                 PROVE  (p.date + 1) % HalfWord = p.date + 1
        OBVIOUS
    <2>1. p.date + 1 \in 0..(HalfWord - 1)
        BY <1>2
    <2> QED BY <1>2, <2>1, ModUnique, p.date + 1 = 0 * HalfWord + (p.date + 1)
<1> HIDE DEF date, left
<1>5. q \in Reads
    BY <1>3 DEF Reads
<1>6. /\ q.at = p.at /\ q.out = p.out /\ q.ptr = p.ptr /\ q.before = p.before
      /\ q.date = date /\ q.left = left
    BY DEF Reads
<1>7. q.alone = p.alone /\ q.counted = p.counted
    BY DEF Reads
<1>8. q.row = p.row
    BY DEF Reads
<1> QED BY <1>1, <1>4, <1>5, <1>6, <1>7, <1>8

\* The two halves of what is asked for.
LEMMA Halves ==
    ASSUME NEW n \in Asked
    PROVE  /\ n \in Nat /\ n \div HalfWord \in Int /\ n % HalfWord \in 0..(HalfWord - 1)
           /\ n < HalfWord => n \div HalfWord = 0 /\ n % HalfWord = n
<1>1. n \in Nat /\ HalfWord \in Nat \ {0}
    BY Sizes DEF Asked
<1>2. /\ n \div HalfWord \in Int /\ n % HalfWord \in 0..(HalfWord - 1)
      /\ n = HalfWord * (n \div HalfWord) + (n % HalfWord)
    BY <1>1
<1>3. ASSUME n < HalfWord PROVE n \div HalfWord = 0 /\ n % HalfWord = n
    BY <1>1, <1>3
<1> QED BY <1>1, <1>2, <1>3

\* A page of days that begins.
LEMMA DaysPageOK ==
    ASSUME day \in Nat, NEW out \in SUBSET {TotalCnt}, NEW n \in Asked,
           NEW row \in [date : Int, shows : Int]
    PROVE  LET p == DaysPage(out, n, row)
           IN /\ p \in Reads /\ p.at = "days" /\ p.out = out /\ p.row = row
              /\ p.ptr = day % NDays /\ p.date = n \div HalfWord /\ p.left = n % HalfWord
              /\ p.before = Nothing
              /\ p.counted => n < HalfWord /\ (TotalCnt \in out => n > 0)
<1> DEFINE p == Page("days", out, Ptr(NDays, day), n \div HalfWord, n % HalfWord, row)
           c == (n < HalfWord /\ (TotalCnt \in out => n > 0))
<1>1. Ptr(NDays, day) \in 0..NDays
    BY Sizes DEF Ptr
<1>2. p \in Reads
    BY <1>1, Halves, PageTyped, PtrsInReads, Sizes DEF NoRow, Nothing
<1>3. /\ p.at = "days" /\ p.out = out /\ p.row = row
      /\ p.ptr = day % NDays /\ p.date = n \div HalfWord /\ p.left = n % HalfWord
      /\ p.before = Nothing
    BY DEF Page, Ptr
<1> HIDE DEF p, c
<1>4. DaysPage(out, n, row) = [p EXCEPT !.counted = c]
    BY DEF DaysPage, p, c
<1>5. /\ [p EXCEPT !.counted = c] \in Reads /\ [p EXCEPT !.counted = c].counted = c
      /\ [p EXCEPT !.counted = c].row = p.row
    <2>1. c \in BOOLEAN
        BY DEF c
    <2> QED BY <1>2, <2>1 DEF Reads
<1>6. /\ [p EXCEPT !.counted = c].at = p.at /\ [p EXCEPT !.counted = c].out = p.out
      /\ [p EXCEPT !.counted = c].ptr = p.ptr /\ [p EXCEPT !.counted = c].date = p.date
      /\ [p EXCEPT !.counted = c].left = p.left /\ [p EXCEPT !.counted = c].before = p.before
    BY <1>2 DEF Reads
<1> QED BY <1>3, <1>4, <1>5, <1>6 DEF c

\* A page that is not being read.
LEMMA IdleOK ==
    ASSUME NEW d, NEW s
    PROVE  ReaderOK(Idle, d, s)
<1>1. Idle \in Reads
    BY PageTyped, PtrsInReads, Sizes DEF Idle, NoRow, Nothing
<1> QED BY <1>1 DEF ReaderOK, Idle, Page

\* What a ring holds is a number of what was written, or none.
LEMMA MinuteKnown ==
    ASSUME minute \in 0..MaxMinutes, NEW i \in Nat
    PROVE  MinuteAt(i) \in Int /\ MinuteAt(i) <= MaxMinutes
<1>1. ((minute - 1) - i) % NMinutes \in 0..(NMinutes - 1)
    BY Sizes
<1> QED BY <1>1, Sizes DEF MinuteAt, Cell, Outside, Nothing

LEMMA DayKnown ==
    ASSUME day \in Nat, NEW i \in Nat
    PROVE  DayAt(i) \in Int
<1>1. ((day - 1) - i) % NDays \in 0..(NDays - 1)
    BY Sizes
<1> QED BY <1>1, Sizes DEF DayAt, Cell, Outside, Nothing

(***************************************************************************)
(* A step of one reader, which leaves the day and the sums alone.          *)
(***************************************************************************)
LEMMA OneReader ==
    ASSUME IInv, NEW r \in Readers, NEW p, ReaderOK(p, day, sums),
           read' = [read EXCEPT ![r] = p], UNCHANGED <<minute, day, sums>>,
           busy' \in Readers \cup {NoOne}, room' \in 0..Room
    PROVE  IInv'
<1>1. read \in [Readers -> Reads] /\ p \in Reads
    BY DEF IInv, TypeOK, ReaderOK
<1>2. TypeOK'
    BY <1>1 DEF IInv, TypeOK
<1>3. ASSUME NEW q \in Readers PROVE ReaderOK(read'[q], day', sums')
    <2>1. read'[q] = p \/ read'[q] = read[q]
        BY <1>1
    <2> QED BY <2>1 DEF IInv
<1> QED BY <1>2, <1>3 DEF IInv

-----------------------------------------------------------------------------
LEMMA InitIInv == Init => IInv
<1> SUFFICES ASSUME Init PROVE IInv
    OBVIOUS
<1>1. ReaderOK(Idle, day, sums)
    BY IdleOK
<1>2. TypeOK
    <2>1. read \in [Readers -> Reads]
        BY <1>1 DEF Init, ReaderOK
    <2>2. sums \in 0..MaxDays /\ room \in 0..Room
        BY Sizes DEF Init, Nothing
    <2> QED BY <2>1, <2>2, Sizes DEF Init, TypeOK
<1> QED BY <1>1, <1>2 DEF Init, IInv

LEMMA NewMinuteIInv == IInv /\ NewMinute => IInv'
<1> SUFFICES ASSUME IInv, NewMinute PROVE IInv'
    OBVIOUS
<1>1. TypeOK'
    BY Sizes DEF IInv, TypeOK, NewMinute
<1> QED BY <1>1 DEF IInv, NewMinute

\* A new day disturbs every page of days.
LEMMA NewDayIInv == IInv /\ NewDay => IInv'
<1> SUFFICES ASSUME IInv, NewDay PROVE IInv'
    OBVIOUS
<1>1. read \in [Readers -> Reads]
    BY DEF IInv, TypeOK
<1>2. ASSUME NEW q \in Readers PROVE ReaderOK(read'[q], day', sums')
    <2>1. read[q] \in Reads /\ ReaderOK(read[q], day, sums)
        BY <1>1 DEF IInv
    <2>2. CASE read[q].at = "days"
        <3>1. read'[q] = [read[q] EXCEPT !.alone = FALSE]
            BY <2>2, <1>1 DEF NewDay
        <3>2. read'[q] \in Reads /\ read'[q].alone = FALSE /\ read'[q].at = "days"
            BY <2>1, <2>2, <3>1 DEF Reads
        <3> QED BY <3>2 DEF ReaderOK
    <2>3. CASE read[q].at # "days"
        <3>1. read'[q] = read[q]
            BY <2>3, <1>1 DEF NewDay
        <3> QED BY <2>1, <2>3, <3>1 DEF ReaderOK
    <2> QED BY <2>2, <2>3
<1>3. read' \in [Readers -> Reads]
    BY <1>2 DEF ReaderOK, NewDay
<1>4. TypeOK'
    BY <1>3, Sizes DEF IInv, TypeOK, NewDay
<1> QED BY <1>2, <1>4 DEF IInv

LEMMA AskMinutesIInv ==
    ASSUME IInv, NEW r \in Readers, AskMinutes(r)
    PROVE  IInv'
<1>1. PICK n \in 0..MaxRows, h \in SUBSET {ByHour}, k \in 0..(Room - 1) :
        /\ read' = [read EXCEPT ![r] =
                     Page("minutes", h, Ptr(NMinutes, minute), minute, n, NoRow)]
        /\ room' = k
    BY DEF AskMinutes
<1> DEFINE p == Page("minutes", h, Ptr(NMinutes, minute), minute, n, NoRow)
<1>2. minute \in Nat
    BY DEF IInv, TypeOK
<1>3. Ptr(NMinutes, minute) \in 0..(NMinutes - 1)
    BY <1>2, Sizes DEF Ptr
<1>4. ReaderOK(p, day, sums)
    <2>1. p \in Reads
        BY <1>2, <1>3, PageTyped, PtrsInReads, Sizes DEF NoRow, Nothing
    <2>2. p.at = "minutes" /\ p.row.shows = 0
        BY DEF Page, NoRow, Nothing
    <2> HIDE DEF p
    <2> QED BY <2>1, <2>2, Sizes DEF ReaderOK
<1> HIDE DEF p
<1>5. read' = [read EXCEPT ![r] = p] /\ UNCHANGED <<minute, day, sums>> /\ busy' = r
    BY <1>1 DEF p, AskMinutes
<1>6. room' \in 0..Room
    BY <1>1, Sizes
<1> QED BY <1>4, <1>5, <1>6, OneReader

(***************************************************************************)
(* A page that prints totals takes HistorySums from the others.            *)
(***************************************************************************)
LEMMA TakenOK ==
    ASSUME IInv, NEW r \in Readers, NEW p, NEW s \in 0..MaxDays, ReaderOK(p, day, s),
           read' = [Taken(r) EXCEPT ![r] = p], sums' = s, UNCHANGED <<minute, day>>,
           busy' \in Readers \cup {NoOne}, room' \in 0..Room
    PROVE  IInv'
<1>1. read \in [Readers -> Reads] /\ p \in Reads
    BY DEF IInv, TypeOK, ReaderOK
<1>2. ASSUME NEW q \in Readers PROVE ReaderOK(read'[q], day', sums')
    <2>1. CASE q = r
        BY <2>1 DEF Taken
    <2>2. CASE q # r /\ TotalCnt \in read[q].out
        <3>1. read'[q] = [read[q] EXCEPT !.alone = FALSE]
            BY <2>2 DEF Taken
        <3>2. read[q] \in Reads
            BY <1>1 DEF IInv
        <3>3. /\ read'[q] \in Reads /\ ~read'[q].alone
              /\ read'[q].at = read[q].at /\ read'[q].row = read[q].row
            BY <3>1, <3>2, Disturbed
        <3>4. ReaderOK(read[q], day, sums)
            BY DEF IInv
        <3> QED BY <3>3, <3>4 DEF ReaderOK
    <2>3. CASE q # r /\ TotalCnt \notin read[q].out
        <3>1. read'[q] = read[q]
            BY <2>3 DEF Taken
        <3>2. ReaderOK(read[q], day, sums)
            BY DEF IInv
        <3> QED BY <2>3, <3>1, <3>2 DEF ReaderOK, Behind
    <2> QED BY <2>1, <2>2, <2>3
<1>3. read' \in [Readers -> Reads]
    <2>1. DOMAIN read' = Readers /\ read' = [q \in Readers |-> read'[q]]
        BY DEF Taken
    <2> QED BY <1>2, <2>1 DEF ReaderOK
<1>4. TypeOK'
    BY <1>3 DEF IInv, TypeOK
<1> QED BY <1>2, <1>4 DEF IInv

LEMMA AskDaysIInv ==
    ASSUME IInv, NEW r \in Readers, AskDays(r)
    PROVE  IInv'
<1> DEFINE first(n) == [date |-> day - (n \div HalfWord), shows |-> day]
           p(n) == DaysPage({}, n, NoRow)
           t(n) == DaysPage({TotalCnt}, n, first(n))
<1>1. PICK n \in Asked, k \in 0..(Room - 1) :
        /\ room' = k
        /\ \/ read' = [read EXCEPT ![r] = p(n)] /\ sums' = sums
           \/ read' = [Taken(r) EXCEPT ![r] = NextDay(t(n))] /\ sums' = day
    BY DEF AskDays
<1>2. day \in 0..MaxDays /\ busy' = r /\ UNCHANGED <<minute, day>> /\ room' \in 0..Room
    BY <1>1, Sizes DEF IInv, TypeOK, AskDays
<1>3. day % NDays = (day - 0) % NDays /\ day \in Nat
    BY <1>2, Sizes
<1>4. /\ n \in Nat /\ n \div HalfWord \in Int
      /\ n < HalfWord => n \div HalfWord = 0 /\ n % HalfWord = n
    BY Halves
<1>5. ReaderOK(p(n), day, sums)
    <2> DEFINE a == p(n)
    <2>1. NoRow \in [date : Int, shows : Int] /\ NoRow.date = NoRow.shows
        BY DEF NoRow, Nothing
    <2>2. /\ a \in Reads /\ a.at = "days" /\ a.out = {} /\ a.row = NoRow
          /\ a.ptr = day % NDays /\ a.date = n \div HalfWord /\ a.left = n % HalfWord
          /\ a.counted => n < HalfWord
        <3>1. PICK none : none = {}
            OBVIOUS
        <3>2. a = DaysPage(none, n, NoRow) /\ none \in SUBSET {TotalCnt}
            BY <3>1
        <3> HIDE DEF a
        <3>3. /\ a \in Reads /\ a.at = "days" /\ a.out = none /\ a.row = NoRow
              /\ a.ptr = day % NDays /\ a.date = n \div HalfWord /\ a.left = n % HalfWord
              /\ a.counted => n < HalfWord
            BY <1>3, <2>1, <3>2, DaysPageOK
        <3> QED BY <3>1, <3>3
    <2> HIDE DEF a
    <2>3. ASSUME a.counted PROVE Behind(a, day, sums)
        <3>1. a.date = 0 /\ a.left = n /\ n < HalfWord /\ RowsOff(a) = 0
            BY <1>4, <2>2, <2>3 DEF RowsOff
        <3> QED BY <1>3, <1>4, <2>1, <2>2, <3>1, Sizes DEF Behind
    <2>4. ReaderOK(a, day, sums)
        BY <2>2, <2>3 DEF ReaderOK
    <2> QED BY <2>4 DEF a
<1>6. ReaderOK(NextDay(t(n)), day, day)
    <2> DEFINE a == t(n)
               b == NextDay(a)
    <2>1. first(n) \in [date : Int, shows : Int]
        BY <1>3, <1>4
    <2>2. /\ a \in Reads /\ a.at = "days" /\ a.out = {TotalCnt} /\ a.row = first(n)
          /\ a.ptr = day % NDays /\ a.date = n \div HalfWord /\ a.left = n % HalfWord
          /\ a.counted => n < HalfWord /\ n > 0
        BY <1>3, <2>1, DaysPageOK
    <2> HIDE DEF a
    <2>3. /\ b \in Reads /\ b.at = "days" /\ b.out = {TotalCnt} /\ b.row = first(n)
          /\ b.ptr = day % NDays /\ b.counted = a.counted
        BY <2>2, NextDayOK
    <2>4. ASSUME b.counted
          PROVE  b.date = 1 /\ b.left = n - 1 /\ first(n).date = first(n).shows /\ n < HalfWord
        <3>1. n \div HalfWord = 0 /\ n % HalfWord = n /\ n < HalfWord /\ n > 0
            BY <1>4, <2>2, <2>3, <2>4
        <3>2. a.left = n /\ a.left # 0 /\ a.date = 0 /\ a.date + a.left < HalfWord
            BY <1>4, <2>2, <3>1
        <3>3. b.date = 0 + 1 /\ b.left = n - 1
            BY <2>2, <3>2, NextDayOK
        <3>4. first(n).date = first(n).shows
            BY <1>3, <3>1
        <3> QED BY <3>1, <3>3, <3>4
    <2> HIDE DEF b, first
    <2>5. ASSUME b.counted PROVE Behind(b, day, day)
        <3>1. RowsOff(b) = 0
            BY <2>3, <2>4, <2>5 DEF RowsOff
        <3> QED BY <1>3, <1>4, <2>3, <2>4, <2>5, <3>1, Sizes DEF Behind
    <2>6. ReaderOK(b, day, day)
        BY <2>3, <2>5 DEF ReaderOK
    <2> QED BY <2>6 DEF a, b
<1> HIDE DEF p, t
<1> QED BY <1>1, <1>2, <1>5, <1>6, OneReader, TakenOK

-----------------------------------------------------------------------------
(***************************************************************************)
(* One turn of a callback.                                                 *)
(***************************************************************************)
LEMMA RetryIInv ==
    ASSUME IInv, NEW r \in Readers, Retry(r)
    PROVE  IInv'
<1>1. TypeOK'
    BY Sizes DEF IInv, TypeOK, Retry
<1> QED BY <1>1 DEF IInv, Retry

\* The callback of r returns with a page that is well formed.
LEMMA ReturnsIInv ==
    ASSUME IInv, NEW r \in Readers, NEW p, ReaderOK(p, day, sums), Returns(r, p)
    PROVE  IInv'
<1>1. busy' \in Readers \cup {NoOne} /\ room' \in 0..Room
    BY Sizes DEF Returns
<1> QED BY <1>1, OneReader DEF Returns

LEMMA ContinuesIInv ==
    ASSUME IInv, NEW r \in Readers, NEW p, ReaderOK(p, day, sums), Continues(r, p), sums' = sums,
           room' = room \/ (room > 0 /\ room' = room - 1)
    PROVE  IInv'
<1>1. busy' \in Readers \cup {NoOne} /\ room' \in 0..Room
    BY Sizes DEF IInv, TypeOK, Continues
<1> QED BY <1>1, OneReader DEF Continues

\* A page of minutes whose pointer is moved.
LEMMA MovedOK ==
    ASSUME IInv, NEW r \in Readers, read[r].at = "minutes"
    PROVE  /\ read[r] \in Reads /\ Moved(r) \in Reads /\ Moved(r).at = "minutes"
           /\ read[r].row.shows <= MaxMinutes /\ Moved(r).row = read[r].row
           /\ Moved(r).left = read[r].left /\ Moved(r).ptr \in Nat
<1>1. read[r] \in Reads /\ read[r].row.shows <= MaxMinutes
    BY DEF IInv, TypeOK, ReaderOK
<1>2. MinuteBefore(read[r].ptr) \in 0..(IF NDays > NMinutes THEN NDays ELSE NMinutes)
    BY <1>1, Sizes DEF MinuteBefore, Reads
<1>3. Moved(r) \in Reads
    BY <1>1, <1>2 DEF Moved, Reads
<1>4. Moved(r).at = read[r].at /\ Moved(r).left = read[r].left /\ Moved(r).ptr = MinuteBefore(read[r].ptr)
    BY <1>1 DEF Moved, Reads
<1>5. Moved(r).row = read[r].row
    BY <1>1 DEF Moved, Reads
<1> QED BY <1>1, <1>2, <1>3, <1>4, <1>5

LEMMA MinutesEndIInv ==
    ASSUME IInv, NEW r \in Readers, MinutesEnd(r)
    PROVE  IInv'
<1>1. read[r].at = "minutes"
    BY DEF MinutesEnd, MinutesTurn
<1>2. PICK p \in {read[r], Moved(r)} :
        IF ByHour \in p.out
        THEN Continues(r, [p EXCEPT !.at = "hours", !.hour = NHours - 1]) /\ UNCHANGED <<sums, room>>
        ELSE Returns(r, Idle)
    BY DEF MinutesEnd
<1>3. p \in Reads /\ p.row.shows <= MaxMinutes
    BY <1>1, MovedOK
<1> DEFINE h == [p EXCEPT !.at = "hours", !.hour = NHours - 1]
<1>4. h \in Reads
    <2>1. [p EXCEPT !.at = "hours"] \in Reads
        BY <1>3 DEF Reads
    <2>2. h = [[p EXCEPT !.at = "hours"] EXCEPT !.hour = NHours - 1]
        BY <1>3 DEF Reads
    <2>3. NHours - 1 \in 0..(NHours - 1)
        BY Sizes
    <2> QED BY <2>1, <2>2, <2>3 DEF Reads
<1>5. h.at = "hours" /\ h.row = p.row
    BY <1>3 DEF Reads
<1> HIDE DEF h
<1>6. ReaderOK(h, day, sums)
    BY <1>3, <1>4, <1>5 DEF ReaderOK
<1>7. CASE ByHour \in p.out
    BY <1>2, <1>6, <1>7, ContinuesIInv DEF h
<1>8. CASE ByHour \notin p.out
    BY <1>2, <1>8, IdleOK, ReturnsIInv
<1> QED BY <1>7, <1>8

LEMMA MinuteWaitsIInv ==
    ASSUME IInv, NEW r \in Readers, MinuteWaits(r)
    PROVE  IInv'
<1>1. read[r].at = "minutes" /\ Returns(r, Moved(r))
    BY DEF MinuteWaits, MinuteFound, MinutesTurn, AsItIs
<1>2. ReaderOK(Moved(r), day, sums)
    BY <1>1, MovedOK DEF ReaderOK
<1> QED BY <1>1, <1>2, ReturnsIInv

LEMMA MinuteRowIInv ==
    ASSUME IInv, NEW r \in Readers, MinuteRow(r)
    PROVE  IInv'
<1> DEFINE p == Moved(r)
           q == [p EXCEPT !.date = @ - 1, !.left = @ - 1]
           w == [date |-> p.date, shows |-> MinuteAt(p.ptr)]
           s == [q EXCEPT !.before = LastShown(p), !.row = w]
<1>1. read[r].at = "minutes" /\ read[r].left # 0 /\ room > 0
    BY DEF MinuteRow, MinuteFound, MinutesTurn
<1>2. /\ p \in Reads /\ p.at = "minutes" /\ p.row.shows <= MaxMinutes
      /\ p.left # 0 /\ p.ptr \in Nat
    BY <1>1, MovedOK
<1>3. \/ Continues(r, q) /\ UNCHANGED <<sums, room>>
      \/ Continues(r, s) /\ room' = room - 1 /\ UNCHANGED sums
    BY DEF MinuteRow
<1> HIDE DEF p
<1>4. q \in Reads
    <2>1. p.left - 1 \in 0..(HalfWord - 1) /\ p.date - 1 \in Int
        BY <1>2, Sizes DEF Reads
    <2> QED BY <1>2, <2>1 DEF Reads
<1>5. q.at = "minutes" /\ q.row = p.row
    BY <1>2 DEF Reads
<1>6. ReaderOK(q, day, sums)
    BY <1>2, <1>4, <1>5 DEF ReaderOK
<1>7. w \in [date : Int, shows : Int] /\ w.shows <= MaxMinutes
    BY <1>2, MinuteKnown DEF IInv, TypeOK, Reads
<1>8. LastShown(p) \in 0..MaxMinutes
    BY <1>2 DEF LastShown, Reads
<1> HIDE DEF q, w
<1>9. s \in Reads
    BY <1>4, <1>7, <1>8 DEF Reads
<1>10. s.at = "minutes" /\ s.row = w
    BY <1>4, <1>5 DEF Reads
<1> HIDE DEF s
<1>11. ReaderOK(s, day, sums)
    BY <1>7, <1>9, <1>10 DEF ReaderOK
<1> QED BY <1>1, <1>3, <1>6, <1>11, ContinuesIInv

LEMMA HoursIInv ==
    ASSUME IInv, NEW r \in Readers, HourWaits(r) \/ HourRow(r)
    PROVE  IInv'
<1> DEFINE p == read[r]
<1>1. p \in Reads /\ p.at = "hours" /\ p.row.shows <= MaxMinutes
    BY DEF IInv, TypeOK, ReaderOK, HourWaits, HourRow, HoursTurn
<1>2. ReaderOK(p, day, sums)
    BY DEF IInv
<1>3. CASE HourWaits(r)
    <2> DEFINE m == [p EXCEPT !.at = "minutes"]
    <2>1. m \in Reads /\ m.at = "minutes"
        BY <1>1 DEF Reads
    <2>2. m.row = p.row
        BY <1>1 DEF Reads
    <2> HIDE DEF m
    <2>3. ReaderOK(m, day, sums)
        BY <1>1, <2>1, <2>2 DEF ReaderOK
    <2>4. Returns(r, m) \/ Returns(r, p)
        BY <1>3 DEF HourWaits, m
    <2> QED BY <1>2, <2>3, <2>4, ReturnsIInv
<1>4. CASE HourRow(r)
    <2> DEFINE m == [p EXCEPT !.hour = @ - 1]
    <2>1. ASSUME p.hour # 0 PROVE m \in Reads
        <3>1. p.hour - 1 \in 0..(NHours - 1)
            BY <1>1, <2>1, Sizes DEF Reads
        <3> QED BY <1>1, <3>1 DEF Reads
    <2>2. m.at = "hours" /\ m.row = p.row
        BY <1>1 DEF Reads
    <2> HIDE DEF m
    <2>3. ASSUME p.hour # 0 PROVE ReaderOK(m, day, sums)
        BY <1>1, <2>1, <2>2, <2>3 DEF ReaderOK
    <2>4. \/ Returns(r, Idle)
          \/ p.hour # 0 /\ Continues(r, m) /\ room > 0 /\ room' = room - 1 /\ UNCHANGED sums
        BY <1>4 DEF HourRow, LastHour, m
    <2> HIDE DEF p
    <2> QED BY <2>3, <2>4, IdleOK, ReturnsIInv, ContinuesIInv
<1> QED BY <1>3, <1>4

LEMMA DaysPauseIInv ==
    ASSUME IInv, NEW r \in Readers, DaysEnd(r) \/ DayWaits(r)
    PROVE  IInv'
<1>1. ReaderOK(read[r], day, sums) /\ ReaderOK(Idle, day, sums)
    BY IdleOK DEF IInv
<1>2. Returns(r, Idle) \/ Returns(r, read[r])
    BY DEF DaysEnd, DayWaits
<1> QED BY <1>1, <1>2, ReturnsIInv

\* The element before the one that k rows were taken off.
LEMMA OneMoreBehind ==
    ASSUME NEW d \in Nat, NEW k \in 0..(NDays - 1), NEW i, i = (d - k) % NDays,
           DayBefore(i) # d % NDays
    PROVE  /\ DayBefore(i) = (d - 1 - k) % NDays
           /\ k + 1 \in 0..(NDays - 1)
<1>1. DayBefore(i) = ((d - k) - 1) % NDays
    BY ModBefore, Sizes, d - k \in Int DEF DayBefore
<1>2. (d - k) - 1 = d - 1 - k
    OBVIOUS
<1>3. k + 1 # NDays
    <2> SUFFICES ASSUME k + 1 = NDays PROVE FALSE
        OBVIOUS
    <2> DEFINE q == d \div NDays
               m == d % NDays
    <2>1. q \in Int /\ m \in 0..(NDays - 1) /\ d = NDays * q + m
        BY Sizes
    <2> HIDE DEF q, m
    <2>2. d - 1 - k = (q - 1) * NDays + m
        BY <2>1, Sizes
    <2>3. (d - 1 - k) % NDays = m
        BY <2>1, <2>2, Sizes, ModUnique
    <2> QED BY <1>1, <1>2, <2>3 DEF m
<1> QED BY <1>1, <1>2, <1>3, Sizes

\* A row of days: the row's fields, and what is left in HistorySums.
LEMMA DayRowIInv ==
    ASSUME IInv, NEW r \in Readers, DayRow(r)
    PROVE  IInv'
<1> DEFINE c == read[r]
           m == DayAt(DayPtr(r))
           total == TotalCnt \in c.out
           shows == IF total THEN SumWithout(m) ELSE m
           w == [date |-> day - c.date, shows |-> shows]
           a == [c EXCEPT !.ptr = DayPtr(r)]
           b == NextDay(a)
           p == [b EXCEPT !.row = w]
           s == IF total THEN shows ELSE sums
<1>1. /\ c \in Reads /\ c.at = "days" /\ c.left # 0 /\ room > 0 /\ m # Nothing
      /\ DayPtr(r) # day % NDays /\ day \in Nat /\ day \in 1..MaxDays /\ sums \in 0..MaxDays
      /\ room \in 0..Room
      /\ DayPtr(r) = DayBefore(c.ptr)
    BY Sizes DEF IInv, TypeOK, ReaderOK, DayRow, DaysTurn, Ptr, DayPtr
<1>2. c.alone /\ c.counted => Behind(c, day, sums)
    <2>1. c.at = "days" /\ ReaderOK(c, day, sums)
        BY DEF IInv, DayRow, DaysTurn
    <2> HIDE DEF c
    <2> QED BY <2>1 DEF ReaderOK
<1>3. /\ DayPtr(r) \in Nat
      /\ DayPtr(r) \in 0..(IF NDays > NMinutes THEN NDays ELSE NMinutes)
    BY <1>1, Sizes DEF DayBefore, Reads
<1>4. m \in Int
    BY <1>1, <1>3, DayKnown
<1>5. shows \in Int /\ s \in 0..MaxDays
    BY <1>1, <1>4, Sizes DEF SumWithout, Nothing
<1>6. /\ a \in Reads /\ a.at = "days" /\ a.out = c.out /\ a.date = c.date /\ a.left = c.left
      /\ a.ptr = DayPtr(r) /\ a.alone = c.alone /\ a.counted = c.counted
    <2>1. a \in Reads /\ a.at = "days" /\ a.out = c.out /\ a.date = c.date /\ a.left = c.left
        BY <1>1, <1>3 DEF Reads
    <2>2. a.alone = c.alone /\ a.counted = c.counted /\ a.ptr = DayPtr(r)
        BY <1>1 DEF Reads
    <2> QED BY <2>1, <2>2
<1>7. /\ read' = [(IF total THEN Taken(r) ELSE read) EXCEPT ![r] = p]
      /\ sums' = s /\ UNCHANGED <<minute, day, busy>> /\ room' = room - 1
    <2>1. NextDay([c EXCEPT !.ptr = DayPtr(r)]).out = c.out
        BY <1>6, NextDayOK
    <2> QED BY <2>1 DEF DayRow
<1> HIDE DEF a
<1>8. p \in Reads /\ p.at = "days" /\ p.out = c.out /\ p.alone = c.alone /\ p.counted = c.counted
    <2>1. /\ b \in Reads /\ b.at = "days" /\ b.out = c.out
          /\ b.alone = c.alone /\ b.counted = c.counted
        BY <1>6, NextDayOK
    <2>2. w \in [date : Int, shows : Int]
        BY <1>1, <1>5 DEF Reads
    <2> HIDE DEF b, w
    <2>3. p \in Reads /\ p.at = "days" /\ p.out = c.out
        BY <2>1, <2>2 DEF Reads
    <2>4. p.alone = c.alone /\ p.counted = c.counted
        BY <2>1 DEF Reads
    <2> QED BY <2>3, <2>4
<1>9. p.ptr = DayPtr(r) /\ p.row = w /\ p.date = b.date /\ p.left = b.left
    <2>1. b \in Reads /\ b.ptr = DayPtr(r)
        BY <1>6, NextDayOK
    <2> HIDE DEF b
    <2> QED BY <2>1 DEF Reads
<1>10. c.date \in Nat /\ c.date + c.left < HalfWord
        => b.date = c.date + 1 /\ b.date + b.left < HalfWord
    <2>1. c.left \in Nat
        BY <1>1 DEF Reads
    <2>2. c.date \in Nat /\ c.date + c.left < HalfWord
            => b.date = c.date + 1 /\ b.left = c.left - 1
        BY <1>1, <1>6, NextDayOK
    <2> HIDE DEF b, c
    <2> QED BY <2>1, <2>2
<1>11. busy' \in Readers \cup {NoOne} /\ room' \in 0..Room
    BY <1>1, <1>7, Sizes DEF IInv, TypeOK
<1> HIDE DEF p, b
<1>12. ASSUME p.alone, p.counted PROVE Behind(p, day, s)
    <2> DEFINE k == RowsOff(c)
    <2>1. Behind(c, day, sums)
        <3>1. c.alone /\ c.counted
            BY <1>8, <1>12, Zenon
        <3> QED BY <1>2, <3>1, Zenon
    <2>2. /\ k \in 0..(NDays - 1) /\ c.ptr = (day - k) % NDays /\ c.date \in Int
          /\ p.date = c.date + 1 /\ p.date + p.left < HalfWord /\ p.date \in Nat
        BY <1>1, <1>9, <1>10, <2>1 DEF Behind, Reads
    <2>3. k = IF total THEN c.date - 1 ELSE c.date
        BY DEF RowsOff
    <2>4. total => sums = day - k
        BY <2>1 DEF Behind
    <2> HIDE DEF k
    <2>5. DayPtr(r) = (day - 1 - k) % NDays /\ k + 1 \in 0..(NDays - 1)
        BY <1>1, <2>2, OneMoreBehind
    <2>6. m = day - k
        <3>1. m = Cell(NDays, DaySector, day, (day - 1 - k) % NDays)
            BY <2>5 DEF DayAt
        <3>2. Cell(NDays, DaySector, day, (day - 1 - k) % NDays) # Nothing
            BY <1>1, <3>1
        <3>3. day \in Int /\ k \in 0..(NDays - 1) /\ NDays \in Nat \ {0} /\ DaySector \in Nat \ {0}
            BY <1>1, <2>2, Sizes
        <3>4. Cell(NDays, DaySector, day, (day - 1 - k) % NDays) = day - k
            BY <3>2, <3>3, CellBehind, Zenon
        <3> QED BY <3>1, <3>4, Zenon
    <2>7. /\ w.date = w.shows
          /\ total => s = day - k - 1
        BY <1>1, <2>2, <2>3, <2>4, <2>6 DEF SumWithout
    <2> HIDE DEF w, s
    <2>8. RowsOff(p) = k + 1
        BY <1>8, <1>9, <2>2, <2>3 DEF RowsOff
    <2>9. day - 1 - k = day - (k + 1) /\ day - k - 1 = day - (k + 1)
        BY <1>1, <2>2
    <2> HIDE DEF m
    <2> QED BY <1>8, <1>9, <2>2, <2>5, <2>7, <2>8, <2>9 DEF Behind
<1> HIDE DEF s, m
<1>13. ReaderOK(p, day, s)
    BY <1>8, <1>12 DEF ReaderOK
<1>14. CASE total
    BY <1>5, <1>7, <1>11, <1>13, <1>14, TakenOK
<1>15. CASE ~total
    BY <1>7, <1>11, <1>13, <1>15, OneReader DEF s
<1> QED BY <1>14, <1>15

-----------------------------------------------------------------------------
LEMMA NextIInv == IInv /\ [Next]_vars => IInv'
<1> SUFFICES ASSUME IInv, [Next]_vars PROVE IInv'
    OBVIOUS
<1>1. CASE UNCHANGED vars
    BY <1>1 DEF IInv, TypeOK, vars
<1>2. CASE NewMinute
    BY <1>2, NewMinuteIInv
<1>3. CASE NewDay
    BY <1>3, NewDayIInv
<1>4. ASSUME NEW r \in MinuteReaders, AskMinutes(r) PROVE IInv'
    BY <1>4, AskMinutesIInv DEF Readers
<1>5. ASSUME NEW r \in DayReaders, AskDays(r) PROVE IInv'
    BY <1>5, AskDaysIInv DEF Readers
<1>6. ASSUME NEW r \in Readers, Retry(r) PROVE IInv'
    BY <1>6, RetryIInv
<1>7. ASSUME NEW r \in Readers, Callback(r) PROVE IInv'
    BY <1>7, MinutesEndIInv, MinuteWaitsIInv, MinuteRowIInv, HoursIInv, DaysPauseIInv, DayRowIInv
       DEF Callback
<1> QED BY <1>1, <1>2, <1>3, <1>4, <1>5, <1>6, <1>7 DEF Next

\* What the pages have read is known in every state.
THEOREM HistoryInvariant == Spec => []IInv
<1> QED BY InitIInv, NextIInv, PTL DEF Spec

\* Types: no pointer leaves its ring by more than the one place behind it
\* (web_get_history, web_get_history_bydays).
THEOREM TypeCorrect == Spec => []TypeOK
<1>1. IInv => TypeOK
    BY DEF IInv
<1> QED BY <1>1, HistoryInvariant, PTL

\* What a history by days prints for a date is what was counted on it, for any
\* sizes of the ring and of the buffers (web_get_history_bydays).
THEOREM DaysDated == Spec => []DayRowsDated
<1>1. IInv => DayRowsDated
    BY DEF IInv, ReaderOK, Behind, DayRowsDated
<1> QED BY <1>1, HistoryInvariant, PTL

-----------------------------------------------------------------------------
(***************************************************************************)
(* The ring of minutes.  A sector is made of whole words, so that the end  *)
(* of the ring is met before a row could show an erased element.           *)
(***************************************************************************)
LEMMA DivUnique ==
    ASSUME NEW k \in Int, NEW n \in Nat \ {0}, NEW q \in Int, NEW r \in 0..(n - 1),
           k = q * n + r
    PROVE  k \div n = q
    OBVIOUS

\* The two elements of a word lie in one sector.
LEMMA WordInSector ==
    ASSUME NEW i \in Nat, NEW s \in Nat \ {0}, s % 2 = 0, i % 2 = 0
    PROVE  (i + 1) \div s = i \div s
<1> DEFINE q == i \div s
           r == i % s
<1>1. q \in Int /\ r \in 0..(s - 1) /\ i = q * s + r
    OBVIOUS
<1>2. PICK h \in Int : s = 2 * h
    <2>1. s = 2 * (s \div 2)
        OBVIOUS
    <2> QED BY <2>1, s \div 2 \in Int
<1>3. PICK g \in Int : i = 2 * g
    <2>1. i = 2 * (i \div 2)
        OBVIOUS
    <2> QED BY <2>1, i \div 2 \in Int
<1> HIDE DEF q, r
<1>4. r = 2 * (g - q * h)
    BY <1>1, <1>2, <1>3
<1>5. r # s - 1
    <2> DEFINE x == g - q * h
    <2>1. x \in Int
        BY <1>1
    <2> HIDE DEF x
    <2>2. r = 2 * x
        BY <1>4 DEF x
    <2> QED BY <1>2, <2>1, <2>2
<1>6. i + 1 = q * s + (r + 1) /\ r + 1 \in 0..(s - 1)
    BY <1>1, <1>5
<1>7. (i + 1) \div s = q
    BY <1>1, <1>6, DivUnique
<1> QED BY <1>7 DEF q

\* The number of elements of the ring is even.
LEMMA RingOfWords == NMinutes % 2 = 0 /\ NMinutes >= 2 /\ MinSector % 2 = 0
<1>1. NMinutes % MinSector = 0 /\ MinSector % 2 = 0
    BY HistoryAssumption DEF HistoryAssumption
<1>2. PICK h \in Int : MinSector = 2 * h
    <2>1. MinSector = 2 * (MinSector \div 2)
        BY <1>1, Sizes
    <2> QED BY <2>1, Sizes, MinSector \div 2 \in Int
<1>3. PICK g \in Int : NMinutes = MinSector * g
    <2>1. NMinutes = MinSector * (NMinutes \div MinSector)
        BY <1>1, Sizes
    <2> QED BY <2>1, Sizes, NMinutes \div MinSector \in Int
<1>4. NMinutes = (h * g) * 2 + 0 /\ h * g \in Int
    BY <1>2, <1>3
<1>5. NMinutes % 2 = 0
    BY <1>4, ModUnique, Sizes
<1> QED BY <1>1, <1>5, Sizes

\* What an element holds: the last minute written into it, or nothing.
Latest(i) == minute - (((minute - 1) - i) % NMinutes)

LEMMA InTheRing ==
    ASSUME minute \in Nat, NEW i \in 0..(NMinutes - 1)
    PROVE  /\ Latest(i) \in Int /\ Latest(i) <= minute /\ (Latest(i) - 1) % NMinutes = i
           /\ MinuteAt(i) \in {Nothing, Latest(i)}
           /\ MinuteAt(i) # Nothing => MinuteAt(i) >= 1
<1> DEFINE x == (minute - 1) - i
           q == x \div NMinutes
           r == x % NMinutes
<1>1. q \in Int /\ r \in 0..(NMinutes - 1) /\ x = q * NMinutes + r
    BY Sizes, x \in Int
<1>a. Latest(i) = minute - r /\ x = (minute - 1) - i
    BY DEF Latest
<1> HIDE DEF x, q, r
<1>2. Latest(i) \in Int /\ Latest(i) <= minute
    BY <1>1, <1>a
<1>3. Latest(i) - 1 = q * NMinutes + i
    BY <1>1, <1>a, Sizes
<1>4. (Latest(i) - 1) % NMinutes = i
    <2> DEFINE y == Latest(i) - 1
    <2>1. y \in Int /\ y = q * NMinutes + i
        BY <1>2, <1>3
    <2> HIDE DEF y
    <2>2. y % NMinutes = i
        BY <1>1, <2>1, ModUnique, Sizes
    <2> QED BY <2>2 DEF y
<1>5. /\ MinuteAt(i) = Nothing \/ MinuteAt(i) = Latest(i)
      /\ MinuteAt(i) # Nothing => MinuteAt(i) >= 1
    BY <1>2, Sizes DEF MinuteAt, Cell, Latest, Nothing
<1> QED BY <1>2, <1>4, <1>5

\* An element that is not the pointer's and not the end has been written.
LEMMA FoundShown ==
    ASSUME minute \in Nat, NEW i \in 0..(NMinutes - 1), i # Ptr(NMinutes, minute), ~EndOfMinutes(i)
    PROVE  MinuteAt(i) # Nothing
<1> DEFINE first == i - (i % 2)
           p == Ptr(NMinutes, minute)
           other == IF i % 2 = 0 THEN i + 1 ELSE i - 1
<1>1. i % 2 \in {0, 1} /\ p \in 0..(NMinutes - 1) /\ i # p
    BY Sizes DEF Ptr
<1>2. SUFFICES ASSUME MinuteAt(i) = Nothing PROVE MinuteAt(other) = Nothing
    <2>1. i % 2 = 0 => first = i /\ first + 1 = other
        OBVIOUS
    <2>2. i % 2 = 1 => first = other /\ first + 1 = i
        OBVIOUS
    <2>3. i # NMinutes
        BY Sizes
    <2> HIDE DEF other
    <2> QED BY <1>1, <2>1, <2>2, <2>3 DEF EndOfMinutes
<1>3. other \in 0..(NMinutes - 1) /\ (other = i + 1 \/ (other = i - 1 /\ i >= 1))
    <2>1. CASE i % 2 = 0
        <3>1. i # NMinutes - 1
            <4> SUFFICES ASSUME i = NMinutes - 1 PROVE FALSE
                OBVIOUS
            <4>1. i % 2 = 0 /\ (i + 1) % 2 = 0
                BY <2>1, RingOfWords, Sizes
            <4> QED BY <4>1
        <3> QED BY <2>1, <3>1, Sizes
    <2>2. CASE i % 2 = 1
        <3>1. i >= 1
            BY <2>2
        <3> QED BY <2>2, <3>1, Sizes
    <2> QED BY <1>1, <2>1, <2>2
<1>4. other \div MinSector = i \div MinSector
    <2>1. CASE i % 2 = 0
        <3>1. other = i + 1 /\ i \in Nat
            BY <2>1, Sizes
        <3> HIDE DEF other
        <3>2. (i + 1) \div MinSector = i \div MinSector
            BY <2>1, <3>1, WordInSector, RingOfWords, Sizes
        <3> QED BY <3>1, <3>2
    <2>2. CASE i % 2 = 1
        <3>1. (i - 1) % 2 = 0 /\ i - 1 \in Nat /\ (i - 1) + 1 = i /\ other = i - 1
            BY <2>2
        <3> HIDE DEF other
        <3>2. ((i - 1) + 1) \div MinSector = (i - 1) \div MinSector
            BY <3>1, WordInSector, RingOfWords, Sizes
        <3> QED BY <3>1, <3>2
    <2> QED BY <1>1, <2>1, <2>2
<1> HIDE DEF other
<1>5. CASE i >= p /\ i \div MinSector = p \div MinSector
    <2>1. other >= p /\ other \div MinSector = p \div MinSector /\ other # NMinutes
        BY <1>1, <1>3, <1>4, <1>5, Sizes
    <2> QED BY <2>1 DEF MinuteAt, Cell
<1>6. CASE Latest(i) < 1
    <2> DEFINE x == (minute - 1) - i
               q == x \div NMinutes
               r == x % NMinutes
    <2>1. q \in Int /\ r \in 0..(NMinutes - 1) /\ x = q * NMinutes + r
        BY Sizes, x \in Int
    <2>2. r >= minute /\ x = (minute - 1) - i /\ x \in Int /\ i \in Nat
        BY <1>6, <2>1 DEF Latest
    <2> HIDE DEF x, q, r
    <2>3. q <= -1
        <3> SUFFICES ASSUME q >= 0 PROVE FALSE
            BY <2>1
        <3>1. q * NMinutes \in Int /\ q * NMinutes >= 0
            BY <2>1, Sizes
        <3> DEFINE t == q * NMinutes
        <3> HIDE DEF t
        <3>2. t \in Int /\ t >= 0 /\ x = t + r
            BY <2>1, <3>1 DEF t
        <3> QED BY <2>1, <2>2, <3>2
    <2>4. minute = 0 * NMinutes + minute /\ minute \in 0..(NMinutes - 1)
        BY <2>1, <2>2, Sizes
    <2>5. p = minute
        BY <2>4, ModUnique, Sizes DEF Ptr
    <2>6. i >= minute
        <3>1. x \in Int /\ x <= NMinutes - 1
            BY <2>2, <2>4, Sizes
        <3>2. ASSUME x >= 0 PROVE x \div NMinutes = 0
            <4>1. x = 0 * NMinutes + x /\ x \in 0..(NMinutes - 1) /\ 0 \in Int
                BY <3>1, <3>2, Sizes
            <4> QED BY <3>1, <4>1, DivUnique, Sizes
        <3> QED BY <2>2, <2>3, <3>2 DEF q
    <2>7. other >= minute
        BY <1>1, <1>3, <2>5, <2>6
    <2>8. /\ (minute - 1) - other = (-1) * NMinutes + (NMinutes + minute - 1 - other)
          /\ NMinutes + minute - 1 - other \in 0..(NMinutes - 1)
        BY <1>3, <2>4, <2>7, Sizes
    <2>9. ((minute - 1) - other) % NMinutes = NMinutes + minute - 1 - other
        BY <1>3, <2>8, ModUnique, Sizes
    <2>10. Latest(other) < 1 /\ other # NMinutes
        BY <1>3, <2>9, Sizes DEF Latest
    <2> QED BY <2>10 DEF MinuteAt, Cell, Latest
<1>7. Latest(i) < 1 \/ (i >= p /\ i \div MinSector = p \div MinSector)
    <2>1. i # NMinutes /\ (MinuteAt(i) = Nothing => Latest(i) < 1 \/ Latest(i) = 0 \/ (i >= p /\ i \div MinSector = p \div MinSector))
        BY Sizes DEF MinuteAt, Cell, Latest, Nothing
    <2> QED BY <1>2, <2>1, InTheRing
<1> QED BY <1>5, <1>6, <1>7

-----------------------------------------------------------------------------
(***************************************************************************)
(* Where a page of minutes is.  Its last row shows the minute LastShown,   *)
(* and c is that minute's element.  The pointer is there, or one place on  *)
(* when a buffer was full; when a row has been read behind the ring, which *)
(* shows no minute, it is there or at the last element, and c is one of    *)
(* the first two.  So at most three elements are gone over for a row.      *)
(***************************************************************************)
Waited(r) == busy # r \/ room = Room

Element(m) == (m - 1) % NMinutes

Placed(p, waited) ==
    LET c == Element(LastShown(p))
    IN IF p.row.shows > 0
       THEN p.ptr = (IF waited THEN MinuteBefore(c) ELSE c)
       ELSE c \in {0, 1} /\ p.ptr = (IF waited THEN NMinutes - 1 ELSE NMinutes)

Silent(p) == p.row.shows = Nothing /\ p.before = Nothing

GoesBack(p, m) ==
    p.row.shows > 0 /\ p.before > 0 /\ m < p.before + NMinutes - 3 => p.row.shows < p.before

PageBack(p, waited, m) ==
    /\ p.at \in {"idle", "days"} => p.before = Nothing
    /\ p.at \in {"minutes", "hours"} => p.ptr \in 0..NMinutes
    /\ p.at = "hours" \/ (p.at = "minutes" /\ ByHour \in p.out) => Silent(p)
    /\ p.at = "minutes" /\ LastShown(p) > 0 => Placed(p, waited)
    /\ GoesBack(p, m)

BackInv ==
    /\ IInv
    /\ \A r \in Readers : PageBack(read[r], Waited(r), minute)

\* An element up to three places behind the one of the minute b holds an
\* earlier minute, until it is written again.
LEMMA EarlierBehind ==
    ASSUME minute \in Nat, NEW b \in Nat \ {0}, NEW i \in 0..(NMinutes - 1), NEW j \in 1..3,
           Element(b) - i \in {j, j - NMinutes}, minute < b + NMinutes - 3
    PROVE  MinuteAt(i) < b
<1> DEFINE v == Latest(i)
           c == Element(b)
           qb == (b - 1) \div NMinutes
           qv == (v - 1) \div NMinutes
<1>1. v \in Int /\ v <= minute /\ (v - 1) % NMinutes = i /\ MinuteAt(i) \in {Nothing, v}
    BY InTheRing
<1>2. qb \in Int /\ c \in 0..(NMinutes - 1) /\ b - 1 = qb * NMinutes + c
    BY Sizes DEF Element
<1>a. c - i \in {j, j - NMinutes}
    OBVIOUS
<1> HIDE DEF v, c
<1>3. qv \in Int /\ v - 1 = qv * NMinutes + i
    BY <1>1, Sizes
<1> HIDE DEF qb, qv
<1>4. SUFFICES ASSUME v >= b PROVE FALSE
    BY <1>1 DEF Nothing
<1> DEFINE d == qv - qb
           t == d * NMinutes
<1>5. d \in Int /\ t \in Int /\ v - b = t + (i - c)
    BY <1>1, <1>2, <1>3, Sizes
<1>6. /\ d >= 1 => t >= NMinutes
      /\ d = 0 => t = 0
      /\ d <= -1 => t <= 0 - NMinutes
    BY <1>5, Sizes
<1> HIDE DEF d, t
<1>7. CASE c - i = j
    <2>1. d >= 1
        BY <1>1, <1>2, <1>4, <1>5, <1>6, <1>7, Sizes
    <2>2. v - b >= NMinutes - 3
        BY <1>1, <1>2, <1>5, <1>6, <1>7, <2>1, Sizes
    <2> QED BY <1>1, <2>2, Sizes
<1>8. CASE c - i = j - NMinutes
    <2>1. d >= 0
        BY <1>1, <1>2, <1>4, <1>5, <1>6, <1>8, Sizes
    <2>2. v - b >= NMinutes - 3
        BY <1>1, <1>2, <1>5, <1>6, <1>8, <2>1, Sizes
    <2> QED BY <1>1, <2>2, Sizes
<1> QED BY <1>a, <1>7, <1>8

\* A page that has shown no minute, and one of days.
LEMMA SilentBack ==
    ASSUME NEW p, NEW w, NEW m, Silent(p),
           p.at \in {"minutes", "hours"} => p.ptr \in 0..NMinutes
    PROVE  PageBack(p, w, m)
    BY DEF PageBack, Silent, LastShown, GoesBack, Nothing

LEMMA DaysBack ==
    ASSUME NEW p, NEW w, NEW m, p.at = "days", p.before = Nothing
    PROVE  PageBack(p, w, m)
    BY DEF PageBack, GoesBack, Nothing

LEMMA IdleBack ==
    ASSUME NEW w, NEW m
    PROVE  PageBack(Idle, w, m)
<1>1. Silent(Idle) /\ Idle.at = "idle"
    BY DEF Idle, Page, NoRow, Silent, Nothing
<1> QED BY <1>1, SilentBack

(***************************************************************************)
(* A step of one reader, or one that takes HistorySums from others.        *)
(***************************************************************************)
LEMMA OneBack ==
    ASSUME BackInv, IInv', NEW r \in Readers, NEW p, minute' = minute,
           PageBack(p, Waited(r)', minute),
           \/ read' = [read EXCEPT ![r] = p]
           \/ read' = [Taken(r) EXCEPT ![r] = p],
           busy \in {r, NoOne}, busy' \in {r, NoOne}
    PROVE  BackInv'
<1>1. read \in [Readers -> Reads]
    BY DEF BackInv, IInv, TypeOK
<1>2. ASSUME NEW q \in Readers PROVE PageBack(read'[q], Waited(q)', minute')
    <2>1. CASE q = r
        BY <1>1, <2>1 DEF Taken
    <2>2. CASE q # r
        <3>1. read'[q] = read[q] \/ read'[q] = [read[q] EXCEPT !.alone = FALSE]
            BY <1>1, <2>2 DEF Taken
        <3>2. /\ read'[q].at = read[q].at /\ read'[q].out = read[q].out
              /\ read'[q].ptr = read[q].ptr /\ read'[q].row = read[q].row
              /\ read'[q].before = read[q].before
            BY <1>1, <3>1 DEF Reads
        <3>3. PageBack(read[q], Waited(q), minute)
            BY DEF BackInv
        <3>4. Waited(q) /\ Waited(q)'
            BY <2>2, NoReader DEF Waited
        <3> QED BY <3>2, <3>3, <3>4 DEF PageBack, Placed, LastShown, GoesBack, Silent
    <2> QED BY <2>1, <2>2
<1> QED BY <1>2 DEF BackInv

LEMMA InitBack == Init => BackInv
<1> SUFFICES ASSUME Init PROVE BackInv
    OBVIOUS
<1>1. \A r \in Readers : PageBack(read[r], Waited(r), minute)
    BY IdleBack DEF Init
<1> QED BY <1>1, InitIInv DEF BackInv

\* The more minutes are written, the less is claimed.
LEMMA NewMinuteBack == BackInv /\ IInv' /\ NewMinute => BackInv'
<1> SUFFICES ASSUME BackInv, IInv', NewMinute PROVE BackInv'
    OBVIOUS
<1>1. minute \in Nat /\ read \in [Readers -> Reads]
    BY DEF BackInv, IInv, TypeOK
<1>2. ASSUME NEW q \in Readers PROVE PageBack(read'[q], Waited(q)', minute')
    <2>1. read'[q] = read[q] /\ Waited(q)' = Waited(q) /\ minute' = minute + 1
        BY DEF NewMinute, Waited
    <2>2. PageBack(read[q], Waited(q), minute)
        BY DEF BackInv
    <2>3. GoesBack(read[q], minute) => GoesBack(read[q], minute + 1)
        <3>1. read[q].before \in Int /\ NMinutes \in Int
            BY <1>1, Sizes DEF Reads
        <3> QED BY <1>1, <3>1 DEF GoesBack
    <2> QED BY <2>1, <2>2, <2>3 DEF PageBack
<1> QED BY <1>2 DEF BackInv

LEMMA NewDayBack == BackInv /\ IInv' /\ NewDay => BackInv'
<1> SUFFICES ASSUME BackInv, IInv', NewDay PROVE BackInv'
    OBVIOUS
<1>1. read \in [Readers -> Reads]
    BY DEF BackInv, IInv, TypeOK
<1>2. ASSUME NEW q \in Readers PROVE PageBack(read'[q], Waited(q)', minute')
    <2>1. read'[q] = read[q] \/ read'[q] = [read[q] EXCEPT !.alone = FALSE]
        BY <1>1 DEF NewDay
    <2>2. /\ read'[q].at = read[q].at /\ read'[q].out = read[q].out
          /\ read'[q].ptr = read[q].ptr /\ read'[q].row = read[q].row
          /\ read'[q].before = read[q].before
        BY <1>1, <2>1 DEF Reads
    <2>3. PageBack(read[q], Waited(q), minute)
        BY DEF BackInv
    <2>4. Waited(q)' = Waited(q) /\ minute' = minute
        BY DEF NewDay, Waited
    <2> QED BY <2>2, <2>3, <2>4 DEF PageBack, Placed, LastShown, GoesBack, Silent
<1> QED BY <1>2 DEF BackInv

\* Retry: nothing is asked of the page but that it was waiting.
LEMMA RetryBack ==
    ASSUME BackInv, IInv', NEW r \in Readers, Retry(r)
    PROVE  BackInv'
<1>1. ASSUME NEW q \in Readers PROVE PageBack(read'[q], Waited(q)', minute')
    <2>1. Waited(q) /\ Waited(q)' /\ read' = read /\ minute' = minute
        BY NoReader DEF Retry, Waited
    <2>2. PageBack(read[q], Waited(q), minute)
        BY DEF BackInv
    <2> QED BY <2>1, <2>2 DEF PageBack
<1> QED BY <1>1 DEF BackInv

LEMMA AskMinutesBack ==
    ASSUME BackInv, IInv', NEW r \in Readers, AskMinutes(r)
    PROVE  BackInv'
<1>1. PICK n \in 0..MaxRows, h \in SUBSET {ByHour} :
        read' = [read EXCEPT ![r] = Page("minutes", h, Ptr(NMinutes, minute), minute, n, NoRow)]
    BY DEF AskMinutes
<1> DEFINE p == Page("minutes", h, Ptr(NMinutes, minute), minute, n, NoRow)
<1>2. Silent(p) /\ p.ptr = Ptr(NMinutes, minute)
    BY DEF Page, NoRow, Silent, Nothing
<1>3. Ptr(NMinutes, minute) \in 0..NMinutes
    BY Sizes DEF BackInv, IInv, TypeOK, Ptr
<1> HIDE DEF p
<1>4. PageBack(p, Waited(r)', minute)
    BY <1>2, <1>3, SilentBack
<1>5. read' = [read EXCEPT ![r] = p] /\ busy = NoOne /\ busy' = r /\ minute' = minute
    BY <1>1 DEF p, AskMinutes
<1> QED BY <1>4, <1>5, OneBack

LEMMA AskDaysBack ==
    ASSUME BackInv, IInv', NEW r \in Readers, AskDays(r)
    PROVE  BackInv'
<1>0. day \in Nat
    BY DEF BackInv, IInv, TypeOK
<1>1. PICK p :
        /\ p.at = "days" /\ p.before = Nothing
        /\ read' = [read EXCEPT ![r] = p] \/ read' = [Taken(r) EXCEPT ![r] = p]
    <2>1. PICK n \in Asked :
            \/ read' = [read EXCEPT ![r] = DaysPage({}, n, NoRow)]
            \/ read' = [Taken(r) EXCEPT ![r] =
                          NextDay(DaysPage({TotalCnt}, n,
                                           [date |-> day - (n \div HalfWord), shows |-> day]))]
        BY DEF AskDays
    <2> DEFINE p == DaysPage({}, n, NoRow)
               first == [date |-> day - (n \div HalfWord), shows |-> day]
               t == DaysPage({TotalCnt}, n, first)
    <2>2. NoRow \in [date : Int, shows : Int] /\ first \in [date : Int, shows : Int]
        BY <1>0, Halves DEF NoRow, Nothing
    <2> HIDE DEF first
    <2>3. p.at = "days" /\ p.before = Nothing
        <3>1. PICK none : none = {}
            OBVIOUS
        <3>2. p = DaysPage(none, n, NoRow) /\ none \in SUBSET {TotalCnt}
            BY <3>1
        <3> HIDE DEF p
        <3>3. p.at = "days" /\ p.ptr = day % NDays /\ p.before = Nothing
            BY <1>0, <2>2, <3>2, DaysPageOK
        <3> QED BY <3>3
    <2>4. t \in Reads /\ t.at = "days" /\ t.before = Nothing
        BY <1>0, <2>2, DaysPageOK
    <2>5. NextDay(t).at = "days" /\ NextDay(t).before = Nothing
        BY <2>4, NextDayOK
    <2> QED BY <2>1, <2>3, <2>5 DEF first
<1>3. PageBack(p, Waited(r)', minute)
    BY <1>1, DaysBack
<1>4. busy = NoOne /\ busy' = r /\ minute' = minute
    BY DEF AskDays
<1> QED BY <1>1, <1>3, <1>4, OneBack

\* The callback of r returns, or goes on, with a page that is well placed.
LEMMA TurnBack ==
    ASSUME BackInv, IInv', NEW r \in Readers, NEW p, busy = r, PageBack(p, Waited(r)', minute),
           Returns(r, p) \/ Continues(r, p)
    PROVE  BackInv'
    BY OneBack DEF Returns, Continues

LEMMA HoursBack ==
    ASSUME BackInv, IInv', NEW r \in Readers, HourWaits(r) \/ HourRow(r)
    PROVE  BackInv'
<1> DEFINE p == read[r]
<1>1. p \in Reads /\ p.at = "hours" /\ busy = r /\ PageBack(p, Waited(r), minute)
    BY DEF BackInv, IInv, TypeOK, HourWaits, HourRow, HoursTurn
<1>2. Silent(p) /\ p.ptr \in 0..NMinutes
    BY <1>1 DEF PageBack
<1>3. PICK h : /\ h \in {Idle, p, [p EXCEPT !.at = "minutes"], [p EXCEPT !.hour = @ - 1]}
               /\ Returns(r, h) \/ Continues(r, h)
    BY DEF HourWaits, HourRow, LastHour
<1>4. CASE h = Idle
    BY <1>1, <1>3, <1>4, IdleBack, TurnBack
<1>5. CASE h # Idle
    <2>1. h.row = p.row /\ h.before = p.before /\ h.ptr = p.ptr
        BY <1>1, <1>3, <1>5 DEF Reads
    <2>2. Silent(h)
        BY <1>2, <2>1 DEF Silent
    <2>3. PageBack(h, Waited(r)', minute)
        BY <1>2, <2>1, <2>2, SilentBack
    <2> QED BY <1>1, <1>3, <2>3, TurnBack
<1> QED BY <1>4, <1>5

LEMMA DaysPauseBack ==
    ASSUME BackInv, IInv', NEW r \in Readers, DaysEnd(r) \/ DayWaits(r)
    PROVE  BackInv'
<1>1. busy = r /\ read[r].at = "days" /\ PageBack(read[r], Waited(r), minute)
    BY DEF BackInv, DaysEnd, DayWaits, DaysTurn
<1>2. PageBack(read[r], Waited(r)', minute)
    BY <1>1, DaysBack DEF PageBack
<1> QED BY <1>1, <1>2, IdleBack, TurnBack DEF DaysEnd, DayWaits

LEMMA DayRowBack ==
    ASSUME BackInv, IInv', NEW r \in Readers, DayRow(r)
    PROVE  BackInv'
<1> DEFINE c == read[r]
<1>1. c \in Reads /\ c.at = "days" /\ busy = r /\ PageBack(c, Waited(r), minute)
    BY DEF BackInv, IInv, TypeOK, DayRow, DaysTurn
<1>2. PICK row :
        LET p == NextDay([c EXCEPT !.ptr = DayPtr(r)])
        IN read' = [(IF TotalCnt \in p.out THEN Taken(r) ELSE read) EXCEPT ![r] = [p EXCEPT !.row = row]]
    BY DEF DayRow
<1> DEFINE a == [c EXCEPT !.ptr = DayPtr(r)]
           p == NextDay(a)
           q == [p EXCEPT !.row = row]
<1>3. q.at = "days" /\ q.before = Nothing
    <2>1. a.at = "days" /\ a.before = Nothing
        BY <1>1 DEF PageBack, Reads
    <2>2. DayPtr(r) \in 0..(IF NDays > NMinutes THEN NDays ELSE NMinutes)
        BY <1>1, Sizes DEF DayPtr, DayBefore, Reads
    <2>3. a \in Reads
        BY <1>1, <2>2 DEF Reads
    <2> HIDE DEF a
    <2>4. p \in Reads /\ p.at = "days" /\ p.before = Nothing
        BY <2>1, <2>3, NextDayOK
    <2> HIDE DEF p
    <2> QED BY <2>4 DEF Reads
<1>4. read' = [read EXCEPT ![r] = q] \/ read' = [Taken(r) EXCEPT ![r] = q]
    BY <1>2
<1> HIDE DEF q
<1>5. PageBack(q, Waited(r)', minute)
    BY <1>3, DaysBack
<1>6. minute' = minute /\ busy' = busy
    BY DEF DayRow
<1> QED BY <1>1, <1>4, <1>5, <1>6, OneBack

-----------------------------------------------------------------------------
\* One turn of a page of minutes.
LEMMA MovedBack ==
    ASSUME BackInv, NEW r \in Readers, read[r].at = "minutes"
    PROVE  /\ Moved(r).out = read[r].out /\ Moved(r).row = read[r].row
           /\ Moved(r).before = read[r].before /\ Moved(r).at = "minutes"
           /\ Moved(r).ptr = MinuteBefore(read[r].ptr)
           /\ LastShown(Moved(r)) = LastShown(read[r])
           /\ read[r].ptr \in 0..NMinutes /\ Moved(r).ptr \in 0..NMinutes
<1>1. read[r] \in Reads
    BY DEF BackInv, IInv, TypeOK
<1>2. /\ Moved(r).out = read[r].out /\ Moved(r).at = "minutes"
      /\ Moved(r).before = read[r].before /\ Moved(r).ptr = MinuteBefore(read[r].ptr)
    BY <1>1 DEF Moved, Reads
<1>3. Moved(r).row = read[r].row
    BY <1>1 DEF Moved, Reads
<1>4. read[r].ptr \in 0..NMinutes
    BY DEF BackInv, PageBack
<1>5. MinuteBefore(read[r].ptr) \in 0..NMinutes
    BY <1>4, Sizes DEF MinuteBefore
<1> QED BY <1>2, <1>3, <1>4, <1>5 DEF LastShown

LEMMA MinutesEndBack ==
    ASSUME BackInv, IInv', NEW r \in Readers, MinutesEnd(r)
    PROVE  BackInv'
<1>1. read[r].at = "minutes" /\ busy = r
    BY DEF MinutesEnd, MinutesTurn
<1>2. PICK p \in {read[r], Moved(r)} :
        IF ByHour \in p.out
        THEN Continues(r, [p EXCEPT !.at = "hours", !.hour = NHours - 1])
        ELSE Returns(r, Idle)
    BY DEF MinutesEnd
<1>3. /\ p.out = read[r].out /\ p.row = read[r].row /\ p.before = read[r].before
      /\ p.ptr \in 0..NMinutes
    BY <1>1, <1>2, MovedBack
<1>4. CASE ByHour \in p.out
    <2> DEFINE h == [p EXCEPT !.at = "hours", !.hour = NHours - 1]
    <2>1. Silent(p)
        BY <1>1, <1>3, <1>4 DEF BackInv, PageBack, Silent
    <2>2. p \in Reads
        BY <1>1, MovedOK DEF BackInv
    <2>3. h.row = p.row /\ h.before = p.before /\ h.ptr = p.ptr
        BY <2>2 DEF Reads
    <2>4. Continues(r, h)
        BY <1>2, <1>4
    <2> HIDE DEF h
    <2>5. PageBack(h, Waited(r)', minute)
        BY <1>3, <2>1, <2>3, SilentBack DEF Silent
    <2> QED BY <1>1, <2>4, <2>5, TurnBack
<1>5. CASE ByHour \notin p.out
    BY <1>1, <1>2, <1>5, IdleBack, TurnBack
<1> QED BY <1>4, <1>5

\* A full buffer leaves the page one place on.
LEMMA MinuteWaitsBack ==
    ASSUME BackInv, IInv', NEW r \in Readers, MinuteWaits(r)
    PROVE  BackInv'
<1> DEFINE c == read[r]
           p == Moved(r)
<1>1. c.at = "minutes" /\ busy = r /\ room < Room /\ Returns(r, p)
    BY DEF MinuteWaits, MinuteFound, MinutesTurn, AsItIs
<1>2. /\ p.out = c.out /\ p.row = c.row /\ p.before = c.before /\ p.at = "minutes"
      /\ p.ptr = MinuteBefore(c.ptr) /\ LastShown(p) = LastShown(c) /\ p.ptr \in 0..NMinutes
    BY <1>1, MovedBack
<1>3. ~Waited(r) /\ Waited(r)'
    BY <1>1, NoReader, Sizes DEF Waited, Returns, BackInv, IInv, TypeOK
<1>4. PageBack(c, Waited(r), minute)
    BY DEF BackInv
<1> HIDE DEF c, p
<1>5. ASSUME LastShown(p) > 0 PROVE Placed(p, TRUE)
    <2>1. Placed(c, Waited(r))
        BY <1>1, <1>2, <1>4, <1>5 DEF PageBack
    <2>2. MinuteBefore(NMinutes) = NMinutes - 1
        BY Sizes DEF MinuteBefore
    <2> QED BY <1>2, <1>3, <2>1, <2>2 DEF Placed
<1>6. PageBack(p, TRUE, minute)
    BY <1>1, <1>2, <1>4, <1>5 DEF PageBack, GoesBack, Silent
<1>7. PageBack(p, Waited(r)', minute)
    BY <1>3, <1>6 DEF PageBack
<1> QED BY <1>1, <1>7, TurnBack

\* The place that is gone to from a page's place.
LEMMA NextPlace ==
    ASSUME NEW p, NEW w \in BOOLEAN, NEW i, LastShown(p) \in Nat \ {0}, Placed(p, w),
           i = MinuteBefore(p.ptr)
    PROVE  /\ i = NMinutes => Element(LastShown(p)) \in {0, 1}
           /\ i # NMinutes => /\ i \in 0..(NMinutes - 1)
                              /\ \E j \in 1..3 : Element(LastShown(p)) - i \in {j, j - NMinutes}
<1> DEFINE c == Element(LastShown(p))
<1>1. c \in 0..(NMinutes - 1)
    BY Sizes DEF Element
<1>2. \/ p.ptr = c
      \/ p.ptr = MinuteBefore(c)
      \/ c \in {0, 1} /\ p.ptr = NMinutes
      \/ c \in {0, 1} /\ p.ptr = NMinutes - 1
    BY DEF Placed
<1> HIDE DEF c
<1>3. CASE p.ptr = c
    <2>1. \/ c = 0 /\ i = NMinutes
          \/ c # 0 /\ i = c - 1 /\ c - i = 1
        BY <1>1, <1>3, Sizes DEF MinuteBefore
    <2> QED BY <1>1, <2>1, Sizes DEF c
<1>4. CASE p.ptr = MinuteBefore(c)
    <2>1. \/ c = 0 /\ i = NMinutes - 1 /\ c - i = 1 - NMinutes
          \/ c = 1 /\ i = NMinutes
          \/ c \notin {0, 1} /\ i = c - 2 /\ c - i = 2
        BY <1>1, <1>4, Sizes DEF MinuteBefore
    <2> QED BY <1>1, <2>1, Sizes DEF c
<1>5. CASE c \in {0, 1} /\ p.ptr = NMinutes
    <2>1. i = NMinutes - 1 /\ (c - i = 1 - NMinutes \/ c - i = 2 - NMinutes)
        BY <1>1, <1>5, Sizes DEF MinuteBefore
    <2> QED BY <1>1, <2>1, Sizes DEF c
<1>6. CASE c \in {0, 1} /\ p.ptr = NMinutes - 1
    <2>1. i = NMinutes - 2 /\ (c - i = 2 - NMinutes \/ c - i = 3 - NMinutes)
        BY <1>1, <1>6, RingOfWords, Sizes DEF MinuteBefore
    <2> QED BY <1>1, <2>1, RingOfWords, Sizes DEF c
<1> QED BY <1>2, <1>3, <1>4, <1>5, <1>6

\* A row shows an earlier minute than the row before it, or is behind the ring.
LEMMA MinuteRowBack ==
    ASSUME BackInv, IInv', NEW r \in Readers, MinuteRow(r)
    PROVE  BackInv'
<1> DEFINE c == read[r]
           p == Moved(r)
           i == p.ptr
           q == [p EXCEPT !.date = @ - 1, !.left = @ - 1]
           w == [date |-> p.date, shows |-> MinuteAt(i)]
           s == [q EXCEPT !.before = LastShown(p), !.row = w]
<1>1. /\ c.at = "minutes" /\ busy = r /\ room > 0 /\ i # Ptr(NMinutes, minute) /\ ~EndOfMinutes(i)
      /\ \/ ByHour \in p.out /\ Continues(r, q)
         \/ ByHour \notin p.out /\ Continues(r, s) /\ room' = room - 1
    BY DEF MinuteRow, MinuteFound, MinutesTurn
<1>2. /\ p.out = c.out /\ p.row = c.row /\ p.before = c.before /\ p.at = "minutes"
      /\ i = MinuteBefore(c.ptr) /\ LastShown(p) = LastShown(c) /\ i \in 0..NMinutes
    BY <1>1, MovedBack
<1>3. /\ p \in Reads /\ minute \in Nat /\ room \in 0..Room /\ c \in Reads
      /\ PageBack(c, Waited(r), minute)
    BY <1>1, MovedOK DEF BackInv, IInv, TypeOK
<1> HIDE DEF c, p
<1>4. /\ q.at = "minutes" /\ q.out = p.out /\ q.ptr = i /\ q.row = p.row /\ q.before = p.before
      /\ q = [p EXCEPT !.date = p.date - 1, !.left = p.left - 1]
    BY <1>2, <1>3 DEF Reads
<1>5. CASE ByHour \in p.out /\ Continues(r, q)
    <2>1. Silent(c)
        BY <1>1, <1>2, <1>3, <1>5 DEF PageBack
    <2>2. Silent(q) /\ q.ptr \in 0..NMinutes
        BY <1>2, <1>4, <2>1 DEF Silent
    <2> HIDE DEF q
    <2>3. PageBack(q, Waited(r)', minute)
        BY <2>2, SilentBack
    <2> QED BY <1>1, <1>5, <2>3, TurnBack
<1>6. CASE ByHour \notin p.out /\ Continues(r, s) /\ room' = room - 1
    <2>1. /\ s.at = "minutes" /\ s.out = p.out /\ s.ptr = i
          /\ s.before = LastShown(c) /\ s.row.shows = MinuteAt(i)
        BY <1>2, <1>3, <1>4 DEF Reads
    <2>2. Waited(r)' = FALSE
        BY <1>1, <1>3, <1>6, Sizes DEF Waited, Continues
    <2>3. LastShown(c) \in Nat
        BY <1>3 DEF LastShown, Reads
    <2> HIDE DEF q, w, s
    <2>4. /\ LastShown(c) > 0 =>
               /\ i = NMinutes => Element(LastShown(c)) \in {0, 1}
               /\ i # NMinutes => \E j \in 1..3 : Element(LastShown(c)) - i \in {j, j - NMinutes}
        <3> SUFFICES ASSUME LastShown(c) > 0
                     PROVE  /\ i = NMinutes => Element(LastShown(c)) \in {0, 1}
                            /\ i # NMinutes => \E j \in 1..3 : Element(LastShown(c)) - i \in {j, j - NMinutes}
            OBVIOUS
        <3>1. Placed(c, Waited(r)) /\ Waited(r) \in BOOLEAN
            BY <1>1, <1>3 DEF PageBack, Waited
        <3>2. LastShown(c) \in Nat \ {0}
            BY <2>3
        <3> HIDE DEF i
        <3> QED BY <1>2, <3>1, <3>2, NextPlace
    <2> HIDE DEF i
    <2>5. CASE i = NMinutes
        <3>1. MinuteAt(i) = Outside
            BY <2>5 DEF MinuteAt, Cell
        <3>2. LastShown(s) = LastShown(c) /\ ~(s.row.shows > 0)
            BY <2>1, <3>1 DEF LastShown, Outside
        <3>3. LastShown(s) > 0 => Placed(s, FALSE)
            BY <2>1, <2>4, <2>5, <3>2 DEF Placed
        <3> QED BY <1>1, <1>2, <1>6, <2>1, <2>2, <3>2, <3>3, TurnBack DEF PageBack, GoesBack
    <2>6. CASE i # NMinutes
        <3>1. i \in 0..(NMinutes - 1)
            BY <1>2, <2>6, Sizes
        <3>2. MinuteAt(i) # Nothing
            BY <1>1, <1>3, <3>1, FoundShown
        <3>3. MinuteAt(i) >= 1 /\ MinuteAt(i) \in Int /\ (MinuteAt(i) - 1) % NMinutes = i
            BY <1>3, <3>1, <3>2, InTheRing
        <3>4. LastShown(s) = MinuteAt(i) /\ s.row.shows > 0
            BY <2>1, <3>3 DEF LastShown
        <3>5. Placed(s, FALSE)
            BY <2>1, <3>3, <3>4 DEF Placed, Element
        <3>6. GoesBack(s, minute)
            <4> SUFFICES ASSUME LastShown(c) > 0, minute < LastShown(c) + NMinutes - 3
                         PROVE  MinuteAt(i) < LastShown(c)
                BY <2>1 DEF GoesBack
            <4>1. PICK j \in 1..3 : Element(LastShown(c)) - i \in {j, j - NMinutes}
                BY <2>4, <2>6
            <4>2. LastShown(c) \in Nat \ {0}
                BY <2>3
            <4> QED BY <1>3, <3>1, <4>1, <4>2, EarlierBehind
        <3>7. PageBack(s, Waited(r)', minute)
            BY <1>2, <1>6, <2>1, <2>2, <3>5, <3>6 DEF PageBack
        <3> QED BY <1>1, <1>6, <3>7, TurnBack
    <2> QED BY <2>5, <2>6
<1> QED BY <1>1, <1>5, <1>6

LEMMA NextBack == BackInv /\ [Next]_vars => BackInv'
<1> SUFFICES ASSUME BackInv, [Next]_vars PROVE BackInv'
    OBVIOUS
<1>0. IInv'
    BY NextIInv DEF BackInv
<1>1. CASE UNCHANGED vars
    BY <1>0, <1>1 DEF BackInv, PageBack, Waited, vars
<1>2. CASE NewMinute
    BY <1>0, <1>2, NewMinuteBack
<1>3. CASE NewDay
    BY <1>0, <1>3, NewDayBack
<1>4. ASSUME NEW r \in MinuteReaders, AskMinutes(r) PROVE BackInv'
    BY <1>0, <1>4, AskMinutesBack DEF Readers
<1>5. ASSUME NEW r \in DayReaders, AskDays(r) PROVE BackInv'
    BY <1>0, <1>5, AskDaysBack DEF Readers
<1>6. ASSUME NEW r \in Readers, Retry(r) PROVE BackInv'
    BY <1>0, <1>6, RetryBack
<1>7. ASSUME NEW r \in Readers, Callback(r) PROVE BackInv'
    BY <1>0, <1>7, MinutesEndBack, MinuteWaitsBack, MinuteRowBack, HoursBack, DaysPauseBack, DayRowBack
       DEF Callback
<1> QED BY <1>1, <1>2, <1>3, <1>4, <1>5, <1>6, <1>7 DEF Next

\* A history by minutes never turns back while its ring is not written all
\* around, for any sizes of the ring, its sectors and the buffers
\* (web_get_history).
THEOREM MinutesNeverTurn == Spec => []MinutesGoBack
<1>1. BackInv => MinutesGoBack
    BY DEF BackInv, PageBack, GoesBack, MinutesGoBack
<1> QED BY <1>1, InitBack, NextBack, PTL DEF Spec
=============================================================================
