------------------------ MODULE MercuryRequestsProof ------------------------
(***************************************************************************)
(* What the requests in the queue are and in which order they stand, for   *)
(* every value of the constants: the months of the archive that are asked  *)
(* for, the three requests that set the meter's clock, and Yesterday in    *)
(* front of Today, whose arrival ends the first portion of the archive.    *)
(***************************************************************************)
EXTENDS MercuryProof, SequenceTheorems

\* The requests of a queue that asks for no month behind the array.
InArray(r) == r.type = "NUMBER" /\ r.var < CurBase => r.var < Month(NMonths)
GoodRecords == {r \in Records : InArray(r)}
Good(q) == q \in Seq(GoodRecords)

\* The portion that is being read begins in the array.
PortionOK(st) == (st - 4) * Quarter < NMonths

LEMMA QuarterSize ==
  /\ Quarter \in Nat /\ Quarter >= 3 /\ ArchBuf = 2 * Quarter
  /\ NMonths \in Nat \ {0} /\ NMonths % Quarter = 0
PROOF
  BY MercuryAssumption DEF Quarter

\* A portion that begins in the array ends in it: the array is whole portions.
LEMMA PortionEnds ==
  ASSUME NEW st \in Nat, PortionOK(st)
  PROVE  (st - 4) * Quarter \in Int /\ (st - 4) * Quarter + Quarter <= NMonths
PROOF
  <1> DEFINE c == NMonths \div Quarter
             p == st - 4
  <1>1. p \in Int /\ c \in Int /\ NMonths = Quarter * c /\ p * Quarter \in Int
    BY QuarterSize
  <1>2. p * Quarter < Quarter * c
    BY <1>1 DEF PortionOK
  <1> HIDE DEF p, c
  <1>3. p < c
    <2> SUFFICES ASSUME p >= c PROVE FALSE
      BY <1>1
    <2>1. p * Quarter >= Quarter * c
      BY <1>1, QuarterSize
    <2> QED
      BY <1>1, <1>2, <2>1
  <1>4. (p + 1) * Quarter <= Quarter * c
    BY <1>1, <1>3, QuarterSize
  <1>5. (p + 1) * Quarter = p * Quarter + Quarter
    BY <1>1, QuarterSize
  <1> QED
    BY <1>1, <1>4, <1>5 DEF p

----------------------------------------------------------------------------
(* The requests that the driver makes.                                     *)
LEMMA RequestsGood ==
  /\ \A v \in Int : v < Month(NMonths) \/ v >= CurBase => Number(v) \in GoodRecords
  /\ \A u \in 1..2 : Connect(u) \in GoodRecords
  /\ \A z \in 0..1 : SetTime(z) \in GoodRecords
  /\ \A t \in Types \ {"NUMBER"}, v \in Int : Record(t, v, 0) \in GoodRecords
  /\ CurTime \in Int /\ TimeArray \in Int /\ NoVar \in Int
PROOF
  <1>1. CurTime \in Int /\ TimeArray \in Int /\ NoVar \in Int
    BY MercuryAssumption DEF NoVar, TimeArray, CurTime, Total, TotalT1, CurBase
  <1>2. ASSUME NEW v \in Int, v < Month(NMonths) \/ v >= CurBase PROVE Number(v) \in GoodRecords
    BY <1>2, RecordsMade DEF GoodRecords, InArray, Number, Record, CurBase
  <1>3. \A u \in 1..2 : Connect(u).type # "NUMBER"
    BY DEF Connect, Record
  <1>4. \A z \in 0..1 : SetTime(z).type # "NUMBER"
    BY DEF SetTime, Record
  <1>5. \A t \in Types, v \in Int : Record(t, v, 0).type = t
    BY DEF Record
  <1> QED
    BY <1>1, <1>2, <1>3, <1>4, <1>5, RecordsMade DEF GoodRecords, InArray

\* Requests that the driver marks, drops and sends.
LEMMA FlaggedGood ==
  ASSUME NEW q, Good(q), q # <<>>, NEW f \in Flags
  PROVE  Good(Flagged(q, f))
PROOF
  <1>1. Len(q) >= 1 /\ q[1] \in GoodRecords
    BY DEF Good
  <1>2. [q[1] EXCEPT !.flag = f] \in Records
    BY <1>1 DEF GoodRecords, Records
  <1>3. [q[1] EXCEPT !.flag = f].type = q[1].type /\ [q[1] EXCEPT !.flag = f].var = q[1].var
    BY <1>1 DEF GoodRecords, Records
  <1>4. [q[1] EXCEPT !.flag = f] \in GoodRecords
    BY <1>1, <1>2, <1>3 DEF GoodRecords, InArray
  <1> QED
    BY <1>1, <1>4 DEF Good, Flagged

LEMMA SendGood ==
  ASSUME NEW q, Good(q), NEW c, NEW cs, NEW r, NEW mux, SendToUart(q, c, cs, r, mux)
  PROVE  Good(queue')
PROOF
  <1>1. Good(Dropped(q))
    BY DEF Good, Dropped, HeadIs
  <1>2. queue' = Dropped(q) \/ (Dropped(q) # <<>> /\ queue' = Flagged(Dropped(q), "waiting"))
    BY DEF SendToUart, HeadIs
  <1> QED
    BY <1>1, <1>2, FlaggedGood DEF Flags

----------------------------------------------------------------------------
(* The batches that the driver adds behind the requests in the queue.  No   *)
(* batch sets the clock or opens the channel for the administrator, but the *)
(* correction of the clock.                                                *)
IsConnect(r, user) == r.type = "CONNECT" /\ r.arg = user
IsSet(r) == r.type = "SETTIME" /\ r.arg = 1

Ordinary(r) == ~IsSet(r) /\ (r.type = "CONNECT" => r.arg = 1) /\ r.flag = "send"
BatchRecords == {r \in GoodRecords : Ordinary(r)}
NumberRecords == {r \in BatchRecords : r.type = "NUMBER"}

\* r is q with a batch of requests of S behind it.
Adds(S, q, r) == \E b \in Seq(S) : r = q \o b

LEMMA BatchesMade ==
  /\ \A v \in Int : v < Month(NMonths) \/ v >= CurBase => Number(v) \in NumberRecords
  /\ Connect(1) \in BatchRecords
  /\ \A t \in {"TIME", "CURTIME", "STR"}, v \in Int : Record(t, v, 0) \in BatchRecords
  /\ CurTime \in Int /\ TimeArray \in Int /\ NoVar \in Int
PROOF
  <1>1. \A v : Ordinary(Number(v)) /\ Number(v).type = "NUMBER"
    BY DEF Ordinary, IsSet, Number, Record
  <1>2. Ordinary(Connect(1))
    BY DEF Ordinary, IsSet, Connect, Record
  <1>3. \A t \in {"TIME", "CURTIME", "STR"} : \A v : Ordinary(Record(t, v, 0))
    BY DEF Ordinary, IsSet, Record
  <1>4. {"TIME", "CURTIME", "STR"} \subseteq Types \ {"NUMBER"}
    BY DEF Types
  <1> QED
    BY <1>1, <1>2, <1>3, <1>4, RequestsGood DEF BatchRecords, NumberRecords

\* Adding nothing, adding twice.
LEMMA AddsChain ==
  ASSUME NEW S, NEW q \in Seq(Records)
  PROVE  /\ Adds(S, q, q)
         /\ \A r, s : S \subseteq Records /\ Adds(S, q, r) /\ Adds(S, r, s) => Adds(S, q, s)
PROOF
  <1>1. Adds(S, q, q)
    <2>1. <<>> \in Seq(S) /\ q = q \o <<>>
      OBVIOUS
    <2> QED
      BY <2>1 DEF Adds
  <1>2. ASSUME NEW r, NEW s, S \subseteq Records, Adds(S, q, r), Adds(S, r, s)
        PROVE  Adds(S, q, s)
    <2>1. PICK b \in Seq(S) : r = q \o b
      BY <1>2 DEF Adds
    <2>2. PICK c \in Seq(S) : s = r \o c
      BY <1>2 DEF Adds
    <2>3. b \in Seq(Records) /\ c \in Seq(Records)
      BY <1>2, SeqMonotonic
    <2>4. s = q \o (b \o c)
      BY <2>1, <2>2, <2>3, ConcatAssociative
    <2>5. b \o c \in Seq(S)
      OBVIOUS
    <2> QED
      BY <2>4, <2>5 DEF Adds
  <1> QED
    BY <1>1, <1>2

\* The queue with what was added is one of records, and of more kinds too.
LEMMA AddsSeq ==
  ASSUME NEW q \in Seq(Records), NEW S, S \subseteq Records, NEW r, Adds(S, q, r)
  PROVE  r \in Seq(Records)
PROOF
  <1>1. PICK b \in Seq(S) : r = q \o b
    BY DEF Adds
  <1>2. b \in Seq(Records)
    BY SeqMonotonic
  <1> QED
    BY <1>1, <1>2

LEMMA AddsMore ==
  ASSUME NEW S, NEW T, S \subseteq T, NEW q, NEW r, Adds(S, q, r)
  PROVE  Adds(T, q, r)
PROOF
  BY SeqMonotonic DEF Adds

LEMMA AddsGood ==
  ASSUME NEW q, Good(q), NEW S, S \subseteq GoodRecords, NEW r, Adds(S, q, r)
  PROVE  Good(r)
PROOF
  <1>1. PICK b \in Seq(S) : r = q \o b
    BY DEF Adds
  <1>2. b \in Seq(GoodRecords)
    BY SeqMonotonic
  <1> QED
    BY <1>1, <1>2 DEF Good

LEMMA PushConnectAdds ==
  ASSUME NEW q \in Seq(Records)
  PROVE  Adds(BatchRecords, q, PushConnect(q, 1))
PROOF
  <1>1. <<Connect(1)>> \in Seq(BatchRecords)
    BY BatchesMade
  <1>2. PushConnect(q, 1) = q \/ PushConnect(q, 1) = q \o <<Connect(1)>>
    BY DEF PushConnect
  <1>3. Adds(BatchRecords, q, q \o <<Connect(1)>>)
    BY <1>1 DEF Adds
  <1>4. Adds(BatchRecords, q, q)
    BY AddsChain
  <1> QED
    BY <1>2, <1>3, <1>4

LEMMA ReadCurrentAdds ==
  ASSUME NEW q \in Seq(Records)
  PROVE  Adds(BatchRecords, q, ReadCurrent(q))
PROOF
  <1> DEFINE a == [i \in 1..CurrentNumbers + 2 |-> Number(CurBase + i - 1)]
             z == <<Record("CURTIME", CurTime, 0)>>
  <1>1. CurrentNumbers + 2 \in Nat /\ \A i \in 1..CurrentNumbers + 2 : CurBase + i - 1 \in Int
    BY MercuryAssumption DEF CurBase
  <1>2. \A i \in 1..CurrentNumbers + 2 : Number(CurBase + i - 1) \in BatchRecords
    BY <1>1, BatchesMade DEF CurBase, NumberRecords
  <1>3. a \in Seq(BatchRecords)
    BY <1>1, <1>2
  <1>4. z \in Seq(BatchRecords)
    BY BatchesMade
  <1> HIDE DEF a, z
  <1>5. CurrentArray \in Seq(BatchRecords)
    BY <1>3, <1>4 DEF CurrentArray, a, z
  <1> QED
    BY <1>5, AddsChain DEF ReadCurrent, Adds

LEMMA ReadArchiveAdds ==
  ASSUME NEW q \in Seq(Records), NEW st \in Nat, PortionOK(st)
  PROVE  Adds(NumberRecords, q, ReadArchive(q, st))
PROOF
  <1>1. ASSUME NEW t \in {0, 1} PROVE YearPortion(t) \in Seq(NumberRecords)
    <2> DEFINE v == {PrevYear + t, Yesterday + t, PrevMonth + t, ThisMonth + t,
                     ThisYear + t, Today + t}
    <2>1. \A w \in v : w \in Int /\ w < Month(NMonths)
      BY <1>1, QuarterSize
         DEF PrevYear, Yesterday, PrevMonth, ThisMonth, ThisYear, Today, Month
    <2>2. \A w \in v : Number(w) \in NumberRecords
      BY <2>1, BatchesMade
    <2> QED
      BY <2>2 DEF YearPortion
  <1>2. MonthPortion(st) \in Seq(NumberRecords)
    <2> DEFINE v(i) == Month((st - 4) * Quarter + ((i - 1) \div 2)) + ((i - 1) % 2)
    <2>1. ASSUME NEW i \in 1..ArchBuf PROVE v(i) \in Int /\ v(i) < Month(NMonths)
      <3>1. (i - 1) \div 2 \in Int /\ (i - 1) \div 2 <= Quarter - 1 /\ (i - 1) % 2 \in 0..1
        BY QuarterSize
      <3>2. (st - 4) * Quarter \in Int /\ (st - 4) * Quarter + Quarter <= NMonths
        BY PortionEnds
      <3> QED
        BY <3>1, <3>2, QuarterSize DEF Month
    <2> HIDE DEF v
    <2>2. \A i \in 1..ArchBuf : Number(v(i)) \in NumberRecords
      BY <2>1, BatchesMade
    <2>3. MonthPortion(st) = [i \in 1..ArchBuf |-> Number(v(i))]
      BY DEF MonthPortion, v
    <2> QED
      BY <2>2, <2>3, QuarterSize
  <1>3. ReadArchive(q, st) \in {q, q \o YearPortion(0), q \o YearPortion(1), q \o MonthPortion(st)}
    BY DEF ReadArchive
  <1>4. Adds(NumberRecords, q, q)
    BY AddsChain
  <1>5. ASSUME NEW b \in {YearPortion(0), YearPortion(1), MonthPortion(st)}
        PROVE  Adds(NumberRecords, q, q \o b)
    <2>1. b \in Seq(NumberRecords)
      BY <1>1, <1>2
    <2> QED
      BY <2>1 DEF Adds
  <1> QED
    BY <1>3, <1>4, <1>5

LEMMA TimeRequestsAdd ==
  ASSUME NEW q, WellFormed(q)
  PROVE  Adds(BatchRecords, q, q \o TimeRequests(q))
PROOF
  <1> DEFINE n == IF Room(q) < TimeRecs THEN Room(q) ELSE TimeRecs
  <1>1. n \in Nat
    BY MercuryAssumption DEF Room, WellFormed, QueueMax
  <1>2. Record("TIME", TimeArray, 0) \in BatchRecords
    BY BatchesMade
  <1>3. TimeRequests(q) = [i \in 1..n |-> Record("TIME", TimeArray, 0)]
    BY DEF TimeRequests
  <1> HIDE DEF n
  <1>4. TimeRequests(q) \in Seq(BatchRecords)
    BY <1>1, <1>2, <1>3
  <1> QED
    BY <1>4 DEF Adds

\* What update of the queue a request of the page, or of the timer, makes.
LEMMA PeriodAdds ==
  ASSUME WellFormed(queue), archStatus \in Nat, PortionOK(archStatus),
         NEW q \in {queue, PushConnect(queue, 1)}
  PROVE  Adds(BatchRecords, queue, ReadCurrent(ReadArchive(q, archStatus)))
PROOF
  <1>1. queue \in Seq(Records) /\ BatchRecords \subseteq Records
    BY DEF WellFormed, BatchRecords, GoodRecords
  <1>2. Adds(BatchRecords, queue, q) /\ q \in Seq(Records)
    <2>1. Adds(BatchRecords, queue, q)
      BY <1>1, AddsChain, PushConnectAdds
    <2> QED
      BY <2>1, <1>1, AddsSeq
  <1>3. Adds(BatchRecords, q, ReadArchive(q, archStatus))
    <2>1. Adds(NumberRecords, q, ReadArchive(q, archStatus))
      BY <1>2, ReadArchiveAdds
    <2> QED
      BY <2>1, AddsMore DEF NumberRecords
  <1>4. ReadArchive(q, archStatus) \in Seq(Records)
    BY <1>1, <1>2, <1>3, AddsSeq
  <1>5. Adds(BatchRecords, ReadArchive(q, archStatus), ReadCurrent(ReadArchive(q, archStatus)))
    BY <1>4, ReadCurrentAdds
  <1> QED
    BY <1>1, <1>2, <1>3, <1>5, AddsChain

LEMMA CorrectionGood ==
  ASSUME NEW q, Good(q), NEW c \in ClockCorrections(q)
  PROVE  Good(q \o c)
PROOF
  <1>1. /\ SetTime(0) \in GoodRecords /\ SetTime(1) \in GoodRecords
        /\ Connect(1) \in GoodRecords /\ Connect(2) \in GoodRecords
    BY RequestsGood
  <1>2. Good(<<>>) /\ Good(<<SetTime(0)>>) /\ Good(<<Connect(2), SetTime(1), Connect(1)>>)
    BY <1>1 DEF Good
  <1>3. c \in {<<>>, <<SetTime(0)>>, <<Connect(2), SetTime(1), Connect(1)>>}
    BY DEF ClockCorrections
  <1>4. Good(c)
    BY <1>2, <1>3
  <1> QED
    BY <1>4 DEF Good

----------------------------------------------------------------------------
ArchiveInv == IInv /\ Good(queue) /\ PortionOK(archStatus)

LEMMA InitArchiveInv == Init => ArchiveInv
PROOF
  <1> SUFFICES ASSUME Init PROVE Good(queue) /\ PortionOK(archStatus)
    BY InitIInv DEF ArchiveInv
  <1>1. Good(queue)
    BY DEF Init, Good
  <1>2. PortionOK(0)
    BY QuarterSize DEF PortionOK
  <1> QED
    BY <1>1, <1>2 DEF Init

\* The status moves on to portions of the array only.
LEMMA NextStatusOK ==
  ASSUME ArchiveInv, NEW v
  PROVE  NextStatus(v) \in Nat /\ PortionOK(NextStatus(v))
PROOF
  <1>1. archStatus \in Nat /\ PortionOK(archStatus)
    BY DEF ArchiveInv, IInv, RestOK, ArchiveOK
  <1>2. PortionOK(1) /\ PortionOK(3) /\ PortionOK(4)
    BY QuarterSize DEF PortionOK
  <1>3. ~AllMonths(archStatus + 1) => PortionOK(archStatus + 1)
    <2>1. ((archStatus + 1) - 4) * Quarter \in Int
      BY <1>1, QuarterSize
    <2> QED
      BY <2>1, QuarterSize DEF AllMonths, PortionOK
  <1>4. NextStatus(v) \in {1, 3, 4, archStatus}
          \/ (~AllMonths(archStatus + 1) /\ NextStatus(v) = archStatus + 1)
    BY DEF NextStatus
  <1> QED
    BY <1>1, <1>2, <1>3, <1>4

\* The queue after a step holds requests of the array only.
LEMMA GoodStep ==
  ASSUME ArchiveInv, [Next]_vars
  PROVE  Good(queue')
PROOF
  <1>a. Good(queue) /\ WellFormed(queue) /\ archStatus \in Nat /\ PortionOK(archStatus)
    BY DEF ArchiveInv, IInv, QueueInv, RestOK, ArchiveOK
  <1>b. \A f \in Flags : queue # <<>> => Good(Flagged(queue, f))
    BY <1>a, FlaggedGood
  <1>c. BatchRecords \subseteq GoodRecords /\ NumberRecords \subseteq GoodRecords
    BY DEF BatchRecords, NumberRecords
  <1>1. CASE TimerSend
    BY <1>1, <1>a, SendGood DEF TimerSend
  <1>2. CASE JudgeOk \/ JudgeRepeat \/ JudgeSleepUnconnected
    <2>1. \/ queue' = queue
          \/ queue # <<>> /\ \E f \in Flags : queue' = Flagged(queue, f)
      BY <1>2, HeadFlags DEF JudgeOk, JudgeRepeat, JudgeSleepUnconnected, CountError, Judged, Awake
    <2> QED
      BY <2>1, <1>a, <1>b
  <1>3. CASE JudgeCustomFailed \/ JudgeDrop
    <2>1. queue # <<>>
      BY <1>3, HeadFlags DEF JudgeCustomFailed, JudgeDrop, CountError, Judged, Awake
    <2>2. Good(Flagged(queue, "deleted"))
      BY <1>b, <2>1, HeadFlags
    <2>3. \/ queue' = Flagged(queue, "deleted")
          \/ \E cs : SendToUart(Flagged(queue, "deleted"), conn, cs, rx, muxOn)
      BY <1>3 DEF JudgeCustomFailed, JudgeDrop
    <2> QED
      BY <2>2, <2>3, SendGood
  <1>4. CASE UartReceiveTimer /\ Decoding
    <2>1. queue # <<>>
      BY <1>4, HeadFlags DEF Decoding, Awake
    <2>2. ASSUME NEW q, NEW c, NEW cs, Good(q), q # <<>>, Finish(q, c, cs)
          PROVE  Good(queue')
      <3>1. Good(Flagged(q, "deleted"))
        BY <2>2, FlaggedGood, HeadFlags
      <3> QED
        BY <2>2, <3>1, SendGood DEF Finish
    <2>3. ASSUME NEW b, Good(queue \o b) PROVE queue \o b # <<>>
      <3>1. queue \in Seq(GoodRecords) /\ Len(queue) >= 1
        BY <1>a, <2>1 DEF Good
      <3> QED
        BY <2>3, <3>1 DEF Good
    <2>4. CASE DecodeNotConnected
      <3> DEFINE q == <<Head(queue), Connect(1)>>
      <3>1. Head(queue) \in GoodRecords /\ Connect(1) \in GoodRecords
        BY <1>a, <2>1, RequestsGood DEF Good
      <3>2. Good(q) /\ q # <<>>
        BY <3>1 DEF Good
      <3>3. Finish(q, conn, cmdStatus)
        BY <2>4 DEF DecodeNotConnected
      <3> HIDE DEF q
      <3> QED
        BY <2>2, <3>2, <3>3
    <2>5. CASE DecodeCorrectedToday \/ DecodeStatus \/ DecodeOther \/ DecodeCustom
      <3>1. \E c, cs : Finish(queue, c, cs)
        BY <2>5 DEF DecodeCorrectedToday, DecodeStatus, DecodeOther, DecodeCustom
      <3> QED
        BY <1>a, <2>1, <2>2, <3>1
    <2>6. CASE DecodeNumber
      <3> DEFINE st == NextStatus(Head(queue).var)
      <3>1. st \in Nat /\ PortionOK(st)
        BY NextStatusOK
      <3>2. PICK q \in {queue, ReadArchive(queue, st)} : Finish(q, conn, cmdStatus)
        BY <2>6 DEF DecodeNumber
      <3> HIDE DEF st
      <3>3. Good(q)
        BY <1>a, <1>c, <3>1, <3>2, ReadArchiveAdds, AddsGood DEF WellFormed
      <3>4. q # <<>>
        <4>1. Filled(queue, q)
          BY <1>a, <3>1, <3>2, ReadArchiveFills, FilledChain
        <4> QED
          BY <2>1, <4>1 DEF Filled
      <3> QED
        BY <2>2, <3>2, <3>3, <3>4
    <2>7. CASE DecodeCurTime
      <3>1. PICK c \in ClockCorrections(queue) : Finish(queue \o c, conn, cmdStatus)
        BY <2>7 DEF DecodeCurTime
      <3>2. Good(queue \o c) /\ queue \o c # <<>>
        BY <1>a, <2>3, CorrectionGood
      <3> QED
        BY <2>2, <3>1, <3>2
    <2>8. ~TimerSend /\ ~JudgeOk /\ ~JudgeCustomFailed /\ ~CountError
      BY <1>4 DEF Decoding, TimerSend, JudgeOk, JudgeCustomFailed, CountError,
                  Judged, Awake, HeadIs
    <2> QED
      BY <1>4, <2>4, <2>5, <2>6, <2>7, <2>8
         DEF UartReceiveTimer, JudgeRepeat, JudgeSleepUnconnected, JudgeDrop
  <1>5. CASE UartReceiveTimer
    <2>1. DecodeNotConnected \/ DecodeCorrectedToday \/ DecodeStatus \/ DecodeNumber
            \/ DecodeOther \/ DecodeCurTime \/ DecodeCustom => Decoding
      BY DEF DecodeNotConnected, DecodeCorrectedToday, DecodeStatus, DecodeNumber,
             DecodeOther, DecodeCurTime, DecodeCustom, StatusAnswer, DataAnswer
    <2> QED
      BY <1>1, <1>2, <1>3, <1>4, <1>5, <2>1 DEF UartReceiveTimer
  <1>6. CASE UartTask
    <2>1. \/ queue' = queue
          \/ queue # <<>> /\ queue' = Flagged(queue, "reading")
      BY <1>6, HeadFlags DEF UartTask
    <2> QED
      BY <2>1, <1>a, <1>b, HeadFlags
  <1>7. CASE RequestTimer
    <2>1. PICK q \in {queue, PushConnect(queue, 1)} :
            LET r == ReadCurrent(ReadArchive(q, archStatus))
            IN  queue' = r \/ SendToUart(r, conn, cmdStatus, rx, muxOn)
      BY <1>7 DEF RequestTimer
    <2>3. Good(ReadCurrent(ReadArchive(q, archStatus)))
      BY <1>a, <1>c, PeriodAdds, AddsGood
    <2> QED
      BY <2>1, <2>3, SendGood
  <1>8. CASE Tick
    <2>1. \/ queue' = queue
          \/ SendToUart(queue, conn, cmdStatus, rx, TRUE)
          \/ queue # <<>> /\ SendToUart(Flagged(queue, "deleted"), conn, cmdStatus, rx, TRUE)
      BY <1>8 DEF Tick
    <2> QED
      BY <2>1, <1>a, <1>b, SendGood, HeadFlags
  <1>9. CASE WebSendNow
    <2>1. PICK q \in {queue, Append(queue, Record("STR", NoVar, 0))} :
            queue' = q \/ SendToUart(q, conn, cmdStatus, rx, muxOn)
      BY <1>9 DEF WebSendNow
    <2>2. Record("STR", NoVar, 0) \in GoodRecords
      BY RequestsGood DEF Types
    <2>3. Good(q)
      BY <1>a, <2>2 DEF Good
    <2> QED
      BY <2>1, <2>3, SendGood
  <1>10. CASE WebReadArchive
    <2>1. PortionOK(2)
      BY QuarterSize DEF PortionOK
    <2> QED
      BY <1>10, <1>a, <1>c, <2>1, ReadArchiveAdds, AddsGood DEF WebReadArchive, WellFormed
  <1>11. CASE WebTimeLog
    <2>1. Good(queue \o TimeRequests(queue))
      BY <1>a, <1>c, TimeRequestsAdd, AddsGood
    <2> QED
      BY <1>11, <2>1, SendGood DEF WebTimeLog
  <1>12. CASE WebSave \/ WebRequestPeriod
    <2>1. queue' = <<Connect(1)>> \/ queue' = <<>>
      BY <1>12 DEF WebSave, WebRequestPeriod, IrdaInit
    <2>2. Connect(1) \in GoodRecords
      BY RequestsGood
    <2>3. Good(<<Connect(1)>>) /\ Good(<<>>)
      BY <2>2 DEF Good
    <2> QED
      BY <2>1, <2>3 DEF Good
  <1>13. CASE MeterAnswers \/ Disturbance \/ MeterMidnight \/ SessionExpires \/ UNCHANGED vars
    <2>1. queue' = queue
      BY <1>13 DEF MeterAnswers, Disturbance, MeterMidnight, SessionExpires, vars
    <2> QED
      BY <2>1, <1>a
  <1> QED
    BY <1>5, <1>6, <1>7, <1>8, <1>9, <1>10, <1>11, <1>12, <1>13 DEF Next

\* The portion stays in the array.
LEMMA PortionStep ==
  ASSUME ArchiveInv, [Next]_vars
  PROVE  PortionOK(archStatus')
PROOF
  <1>1. CASE DecodeNumber
    BY <1>1, NextStatusOK DEF DecodeNumber
  <1>2. CASE WebReadArchive
    BY <1>2, QuarterSize DEF WebReadArchive, PortionOK
  <1>3. CASE ~DecodeNumber /\ ~WebReadArchive
    <2>1. archStatus' = archStatus
      <3>1. CASE UartReceiveTimer
        BY <1>3, <3>1
           DEF UartReceiveTimer, TimerSend, JudgeOk, JudgeCustomFailed, JudgeRepeat,
               JudgeSleepUnconnected, JudgeDrop, CountError, DecodeNotConnected,
               DecodeCorrectedToday, DecodeStatus, DecodeOther, DecodeCurTime, DecodeCustom,
               KeepArchive, archive
      <3>2. CASE UartTask \/ RequestTimer \/ Tick \/ WebSendNow \/ WebTimeLog \/ WebSave
                   \/ WebRequestPeriod
        BY <3>2 DEF UartTask, RequestTimer, Tick, WebSendNow, WebTimeLog, WebSave,
                    WebRequestPeriod, IrdaInit, archive
      <3>3. CASE MeterAnswers \/ Disturbance \/ MeterMidnight \/ SessionExpires \/ UNCHANGED vars
        BY <3>3 DEF MeterAnswers, Disturbance, MeterMidnight, SessionExpires, vars, archive
      <3> QED
        BY <1>3, <3>1, <3>2, <3>3 DEF Next
    <2> QED
      BY <2>1 DEF ArchiveInv, PortionOK
  <1> QED
    BY <1>1, <1>2, <1>3

LEMMA NextArchiveInv == ArchiveInv /\ [Next]_vars => ArchiveInv'
PROOF
  <1> SUFFICES ASSUME ArchiveInv, [Next]_vars PROVE ArchiveInv'
    OBVIOUS
  <1>1. IInv'
    BY NextIInv DEF ArchiveInv
  <1>2. Good(queue)'
    BY GoodStep DEF Good
  <1>3. PortionOK(archStatus)'
    BY PortionStep DEF PortionOK
  <1> QED
    BY <1>1, <1>2, <1>3 DEF ArchiveInv

\* A month is asked for only by its index in pwmt_arch.Month, for any number of
\* months that is whole portions and in whatever order the page and the answers
\* move the status of the archive (pwmt_read_archive).
THEOREM MonthsStayInArray == Spec => []MonthsInArray
PROOF
  <1>1. ArchiveInv => MonthsInArray
    <2> SUFFICES ASSUME Good(queue), NEW i \in 1..Len(queue) PROVE InArray(queue[i])
      BY DEF ArchiveInv, MonthsInArray, InArray
    <2>1. queue[i] \in GoodRecords
      BY DEF Good
    <2> QED
      BY <2>1 DEF GoodRecords
  <1> QED
    BY <1>1, InitArchiveInv, NextArchiveInv, PTL DEF Spec

----------------------------------------------------------------------------
(* The three requests that set the meter's clock: connect as administrator, *)
(* set the clock, connect as user.  In every queue the second has the first *)
(* in front of it, unless it is the head, and the third behind it.          *)
Bracketed(q) ==
  \A i \in 1..Len(q) :
    /\ q[i].type = "CONNECT" => q[i].arg \in {1, 2}
    /\ IsConnect(q[i], 2) => i + 2 <= Len(q) /\ IsSet(q[i + 1])
    /\ IsSet(q[i]) => i + 1 <= Len(q) /\ IsConnect(q[i + 1], 1)
    /\ IsSet(q[i]) /\ i > 1 => IsConnect(q[i - 1], 2)

\* The connect that ends the administrator's session is queued.
HasUser(q) == \E i \in 1..Len(q) : IsConnect(q[i], 1)

\* A valid frame in the buffer r, and a request h that it answers.
ValidFrame(r) == r.n >= 4 /\ r.ok
Answered(h, r) == h.flag = "ready" \/ (h.flag \in InFlight /\ ValidFrame(r))

\* The head h, while the driver's connection is c, the meter's channel s and
\* the buffer r: the answer to a connect says that the meter did it.
HeadFine(h, c, s, r) ==
  /\ h.type = "CONNECT" => c # "Connected" /\ h.flag # "deleted"
  /\ IsConnect(h, 1) /\ Answered(h, r) => s # "admin"
  /\ IsConnect(h, 2) /\ Answered(h, r) => s # "user"
  /\ IsSet(h) => s # "user"

UserBehind(q, c) == session = "admin" /\ c # "NotConnected" => HasUser(q)

BracketNow ==
  /\ Bracketed(queue)
  /\ queue # <<>> => HeadFine(Head(queue), conn, session, rx)
  /\ UserBehind(queue, conn)

BracketInv == ArchiveInv /\ BracketNow

\* What the meter's answers must be taken for: the meter refuses no connect and
\* a disturbed line leaves nothing that looks like an answer.
HonestAnswers == Refusals = {} /\ \A f \in FaultFrames : ~ValidFrame(f)

\* Marking the head changes neither.
LEMMA FlaggedBracketed ==
  ASSUME NEW q \in Seq(Records), q # <<>>, NEW f \in Flags
  PROVE  /\ Bracketed(q) => Bracketed(Flagged(q, f))
         /\ HasUser(q) => HasUser(Flagged(q, f))
         /\ \A u : IsConnect(Head(Flagged(q, f)), u) = IsConnect(Head(q), u)
         /\ IsSet(Head(Flagged(q, f))) = IsSet(Head(q))
         /\ Head(Flagged(q, f)).type = Head(q).type
PROOF
  <1> DEFINE g == Flagged(q, f)
  <1>1. Len(q) \in Nat /\ Len(q) >= 1 /\ q[1] \in Records /\ Head(q) = q[1]
    OBVIOUS
  <1>2. [q[1] EXCEPT !.flag = f] \in Records
    BY <1>1 DEF Records
  <1>3. g \in Seq(Records) /\ Len(g) = Len(q) /\ Head(g) = g[1]
    BY <1>1, <1>2 DEF Flagged
  <1>4. \A i \in 1..Len(q) : g[i].type = q[i].type /\ g[i].arg = q[i].arg
    <2>1. \A i \in 1..Len(q) : g[i] = IF i = 1 THEN [q[1] EXCEPT !.flag = f] ELSE q[i]
      BY <1>1, <1>2 DEF Flagged
    <2>2. /\ [q[1] EXCEPT !.flag = f].type = q[1].type
          /\ [q[1] EXCEPT !.flag = f].arg = q[1].arg
      BY <1>1 DEF Records
    <2> HIDE DEF g
    <2> QED
      BY <2>1, <2>2
  <1> HIDE DEF g
  <1>5. \A i \in 1..Len(q) : /\ \A u : IsConnect(g[i], u) = IsConnect(q[i], u)
                             /\ IsSet(g[i]) = IsSet(q[i])
    BY <1>4 DEF IsConnect, IsSet
  <1>6. Bracketed(q) => Bracketed(g)
    <2> SUFFICES ASSUME Bracketed(q), NEW i \in 1..Len(q)
                 PROVE  /\ g[i].type = "CONNECT" => g[i].arg \in {1, 2}
                        /\ IsConnect(g[i], 2) => i + 2 <= Len(q) /\ IsSet(g[i + 1])
                        /\ IsSet(g[i]) => i + 1 <= Len(q) /\ IsConnect(g[i + 1], 1)
                        /\ IsSet(g[i]) /\ i > 1 => IsConnect(g[i - 1], 2)
      BY <1>3 DEF Bracketed
    <2>1. i + 2 <= Len(q) => i + 1 \in 1..Len(q)
      BY <1>1
    <2>2. i + 1 <= Len(q) => i + 1 \in 1..Len(q)
      BY <1>1
    <2>3. i > 1 => i - 1 \in 1..Len(q)
      BY <1>1
    <2> QED
      BY <1>4, <1>5, <2>1, <2>2, <2>3 DEF Bracketed
  <1>7. HasUser(q) => HasUser(g)
    BY <1>3, <1>5 DEF HasUser
  <1> QED
    BY <1>1, <1>3, <1>4, <1>5, <1>6, <1>7 DEF g

\* Dropping the head of a queue.
LEMMA TailBracketed ==
  ASSUME NEW q \in Seq(Records), q # <<>>, Bracketed(q)
  PROVE  /\ Bracketed(Tail(q))
         /\ HasUser(q) /\ ~IsConnect(Head(q), 1) => HasUser(Tail(q))
         /\ Tail(q) # <<>> /\ IsSet(Head(Tail(q))) => IsConnect(Head(q), 2)
PROOF
  <1> DEFINE t == Tail(q)
  <1>1. /\ Len(q) \in Nat /\ Len(q) >= 1 /\ Head(q) = q[1]
        /\ t \in Seq(Records) /\ Len(t) = Len(q) - 1
        /\ \A i \in 1..Len(t) : t[i] = q[i + 1]
    OBVIOUS
  <1> HIDE DEF t
  <1>2. Bracketed(t)
    <2> SUFFICES ASSUME NEW i \in 1..Len(t)
                 PROVE  /\ t[i].type = "CONNECT" => t[i].arg \in {1, 2}
                        /\ IsConnect(t[i], 2) => i + 2 <= Len(t) /\ IsSet(t[i + 1])
                        /\ IsSet(t[i]) => i + 1 <= Len(t) /\ IsConnect(t[i + 1], 1)
                        /\ IsSet(t[i]) /\ i > 1 => IsConnect(t[i - 1], 2)
      BY DEF Bracketed
    <2> DEFINE j == i + 1
    <2>1. j \in 1..Len(q) /\ j > 1 /\ t[i] = q[j] /\ j - 1 = i
      BY <1>1
    <2>2. i + 1 <= Len(t) => t[i + 1] = q[j + 1] /\ j + 1 \in 1..Len(q)
      BY <1>1
    <2>3. i > 1 => t[i - 1] = q[j - 1]
      BY <1>1
    <2>4. /\ j + 2 <= Len(q) => i + 2 <= Len(t)
          /\ j + 1 <= Len(q) => i + 1 <= Len(t)
          /\ i + 2 <= Len(t) => i + 1 <= Len(t)
      BY <1>1
    <2> HIDE DEF j
    <2> QED
      BY <2>1, <2>2, <2>3, <2>4 DEF Bracketed
  <1>3. ASSUME HasUser(q), ~IsConnect(Head(q), 1) PROVE HasUser(t)
    <2>1. PICK i \in 1..Len(q) : IsConnect(q[i], 1)
      BY <1>3 DEF HasUser
    <2>2. i # 1
      BY <1>1, <1>3, <2>1
    <2>3. i - 1 \in 1..Len(t) /\ t[i - 1] = q[(i - 1) + 1] /\ (i - 1) + 1 = i
      BY <1>1, <2>2
    <2> QED
      BY <2>1, <2>3 DEF HasUser
  <1>4. ASSUME t # <<>>, IsSet(Head(t)) PROVE IsConnect(Head(q), 2)
    <2>1. Head(t) = t[1] /\ 1 \in 1..Len(t) /\ t[1] = q[1 + 1] /\ 2 \in 1..Len(q)
      BY <1>1, <1>4
    <2>2. IsSet(q[2]) /\ 2 > 1 /\ 2 - 1 = 1
      BY <1>4, <2>1
    <2> QED
      BY <1>1, <2>1, <2>2 DEF Bracketed
  <1> QED
    BY <1>2, <1>3, <1>4 DEF t

\* Appending a batch b, and what a batch may begin with.
LEMMA ConcatBracketed ==
  ASSUME NEW q \in Seq(Records), Bracketed(q), NEW b \in Seq(Records), Bracketed(b),
         b = <<>> \/ ~IsSet(b[1])
  PROVE  /\ Bracketed(q \o b)
         /\ HasUser(q) => HasUser(q \o b)
PROOF
  <1> DEFINE g == q \o b
             n == Len(q)
  <1>1. /\ n \in Nat /\ Len(b) \in Nat /\ Len(g) = n + Len(b)
        /\ \A i \in 1..n : g[i] = q[i]
        /\ \A i \in 1..Len(b) : g[n + i] = b[i]
    OBVIOUS
  <1>a. Len(b) = 0 \/ ~IsSet(b[1])
    OBVIOUS
  <1> HIDE DEF g, n
  <1>2. ASSUME NEW i \in 1..Len(g)
        PROVE  /\ g[i].type = "CONNECT" => g[i].arg \in {1, 2}
               /\ IsConnect(g[i], 2) => i + 2 <= Len(g) /\ IsSet(g[i + 1])
               /\ IsSet(g[i]) => i + 1 <= Len(g) /\ IsConnect(g[i + 1], 1)
               /\ IsSet(g[i]) /\ i > 1 => IsConnect(g[i - 1], 2)
    <2>1. CASE i <= n
      <3>1. i \in 1..n /\ g[i] = q[i]
        BY <1>1, <2>1
      <3>2. i + 1 <= n => g[i + 1] = q[i + 1]
        BY <1>1
      <3>3. i > 1 => g[i - 1] = q[i - 1]
        BY <1>1, <2>1
      <3>4. (i + 2 <= n => i + 2 <= Len(g) /\ i + 1 <= n) /\ (i + 1 <= n => i + 1 <= Len(g))
        BY <1>1
      <3> QED
        BY <3>1, <3>2, <3>3, <3>4 DEF Bracketed, n
    <2>2. CASE i > n
      <3> DEFINE j == i - n
      <3>1. j \in 1..Len(b) /\ g[i] = b[j] /\ i = n + j
        <4>1. j \in 1..Len(b) /\ n + j = i
          BY <1>1, <2>2
        <4>2. g[n + j] = b[j]
          BY <1>1, <4>1
        <4> QED
          BY <4>1, <4>2
      <3> HIDE DEF j
      <3>2. j + 1 <= Len(b) => g[i + 1] = b[j + 1]
        <4> SUFFICES ASSUME j + 1 <= Len(b) PROVE g[i + 1] = b[j + 1]
          OBVIOUS
        <4>1. j + 1 \in 1..Len(b) /\ n + (j + 1) = i + 1
          BY <1>1, <3>1
        <4>2. g[n + (j + 1)] = b[j + 1]
          BY <1>1, <4>1
        <4> QED
          BY <4>1, <4>2
      <3>3. j > 1 => g[i - 1] = b[j - 1]
        <4> SUFFICES ASSUME j > 1 PROVE g[i - 1] = b[j - 1]
          OBVIOUS
        <4>1. j - 1 \in 1..Len(b) /\ n + (j - 1) = i - 1
          BY <1>1, <3>1
        <4>2. g[n + (j - 1)] = b[j - 1]
          BY <1>1, <4>1
        <4> QED
          BY <4>1, <4>2
      <3>4. IsSet(b[j]) => j > 1
        BY <1>1, <1>a, <3>1
      <3>5. /\ j + 2 <= Len(b) => i + 2 <= Len(g) /\ j + 1 <= Len(b)
            /\ j + 1 <= Len(b) => i + 1 <= Len(g)
        BY <1>1, <3>1
      <3> QED
        BY <3>1, <3>2, <3>3, <3>4, <3>5 DEF Bracketed
    <2> QED
      BY <1>1, <2>1, <2>2
  <1>3. Bracketed(g)
    BY <1>2 DEF Bracketed
  <1>4. ASSUME HasUser(q) PROVE HasUser(g)
    <2>1. PICK i \in 1..n : IsConnect(q[i], 1)
      BY <1>4 DEF HasUser, n
    <2>2. i \in 1..Len(g) /\ g[i] = q[i]
      BY <1>1
    <2> QED
      BY <2>1, <2>2 DEF HasUser
  <1> QED
    BY <1>3, <1>4 DEF g

LEMMA BatchBracketed ==
  ASSUME NEW b \in Seq(BatchRecords)
  PROVE  b \in Seq(Records) /\ Bracketed(b) /\ (b = <<>> \/ ~IsSet(b[1]))
PROOF
  <1>1. \A i \in 1..Len(b) : b[i] \in BatchRecords
    OBVIOUS
  <1>2. b \in Seq(Records)
    BY SeqMonotonic DEF BatchRecords, GoodRecords
  <1>3. Bracketed(b)
    BY <1>1 DEF Bracketed, BatchRecords, Ordinary, IsConnect
  <1>4. b # <<>> => 1 \in 1..Len(b)
    OBVIOUS
  <1>5. b # <<>> => ~IsSet(b[1])
    BY <1>1, <1>4 DEF BatchRecords, Ordinary
  <1> QED
    BY <1>2, <1>3, <1>5

LEMMA AddsBracketed ==
  ASSUME NEW q \in Seq(Records), Bracketed(q), NEW r, Adds(BatchRecords, q, r)
  PROVE  Bracketed(r) /\ (HasUser(q) => HasUser(r))
PROOF
  <1>1. PICK b \in Seq(BatchRecords) : r = q \o b
    BY DEF Adds
  <1> QED
    BY <1>1, BatchBracketed, ConcatBracketed

LEMMA CorrectionBracketed ==
  ASSUME NEW q \in Seq(Records), Bracketed(q), NEW c \in ClockCorrections(q)
  PROVE  Bracketed(q \o c) /\ (HasUser(q) => HasUser(q \o c))
PROOF
  <1>1. c \in {<<>>, <<SetTime(0)>>, <<Connect(2), SetTime(1), Connect(1)>>}
    BY DEF ClockCorrections
  <1>2. /\ SetTime(0) \in Records /\ SetTime(1) \in Records
        /\ Connect(1) \in Records /\ Connect(2) \in Records
    BY RecordsMade
  <1>3. c \in Seq(Records)
    <2>1. /\ <<>> \in Seq(Records) /\ <<SetTime(0)>> \in Seq(Records)
          /\ <<Connect(2), SetTime(1), Connect(1)>> \in Seq(Records)
      BY <1>2
    <2> QED
      BY <1>1, <2>1
  <1>4. /\ ~IsSet(SetTime(0)) /\ IsSet(SetTime(1)) /\ ~IsSet(Connect(1)) /\ ~IsSet(Connect(2))
        /\ \A u : ~IsConnect(SetTime(0), u) /\ ~IsConnect(SetTime(1), u)
        /\ \A u, w : IsConnect(Connect(u), w) <=> u = w
        /\ \A u : Connect(u).arg = u /\ SetTime(u).type = "SETTIME"
    BY DEF IsSet, IsConnect, SetTime, Connect, Record
  <1>5. Bracketed(c) /\ (c = <<>> \/ ~IsSet(c[1]))
    <2>1. CASE c = <<>>
      BY <2>1 DEF Bracketed
    <2>2. CASE c = <<SetTime(0)>>
      BY <2>2, <1>4 DEF Bracketed
    <2>3. CASE c = <<Connect(2), SetTime(1), Connect(1)>>
      <3>1. Len(c) = 3 /\ c[1] = Connect(2) /\ c[2] = SetTime(1) /\ c[3] = Connect(1)
        BY <2>3
      <3>2. \A i \in 1..3 : i = 1 \/ i = 2 \/ i = 3
        OBVIOUS
      <3> QED
        BY <1>4, <3>1, <3>2 DEF Bracketed
    <2> QED
      BY <1>1, <2>1, <2>2, <2>3
  <1> QED
    BY <1>3, <1>5, ConcatBracketed

\* Behind every connect at the head there is one as user, or it is itself one.
LEMMA BracketHasUser ==
  ASSUME NEW q \in Seq(Records), Bracketed(q), q # <<>>, Head(q).type = "CONNECT"
  PROVE  HasUser(q)
PROOF
  <1>1. 1 \in 1..Len(q) /\ Head(q) = q[1]
    OBVIOUS
  <1>2. IsConnect(q[1], 1) \/ IsConnect(q[1], 2)
    BY <1>1 DEF Bracketed, IsConnect
  <1>3. CASE IsConnect(q[1], 2)
    <2>1. 1 + 2 <= Len(q) /\ IsSet(q[1 + 1])
      BY <1>1, <1>3 DEF Bracketed
    <2>2. 2 \in 1..Len(q) /\ 3 \in 1..Len(q) /\ IsSet(q[2])
      BY <2>1
    <2>3. IsConnect(q[2 + 1], 1)
      BY <2>2 DEF Bracketed
    <2> QED
      BY <2>2, <2>3 DEF HasUser
  <1> QED
    BY <1>1, <1>2, <1>3 DEF HasUser

----------------------------------------------------------------------------
(* What the steps make of the bracket.                                      *)

\* pwmt_send_to_uart on a queue q whose head, after a deleted one was dropped,
\* is still to be sent, or is the one that is on the line.
LEMMA SendBracketed ==
  ASSUME NEW q, WellFormed(q), NEW c, NEW cs, NEW r, NEW mux, SendToUart(q, c, cs, r, mux),
         Bracketed(Dropped(q)), UserBehind(Dropped(q), c), session' = session,
         HeadIs(Dropped(q), {"send"}) /\ IsSet(Head(Dropped(q))) => session # "user",
         HeadIs(Dropped(q), InFlight) => HeadFine(Head(Dropped(q)), c, session, r)
  PROVE  BracketNow'
PROOF
  <1> DEFINE d == Dropped(q)
  <1>1. WellFormed(d) /\ ~HeadIs(d, {"deleted"})
    BY DroppedWellFormed
  <1>2. d \in Seq(Records)
    BY <1>1 DEF WellFormed
  <1>3. CASE HeadIs(d, {"send"})
    <2>1. /\ queue' = Flagged(d, "waiting") /\ rx' = NoBytes
          /\ conn' = IF Head(d).type = "CONNECT" THEN "Connecting" ELSE c
      BY <1>3 DEF SendToUart
    <2>2. d # <<>> /\ "waiting" \in Flags
      BY <1>3 DEF HeadIs, Flags
    <2> HIDE DEF d
    <2>3. /\ Bracketed(queue') /\ (HasUser(d) => HasUser(queue'))
          /\ Head(queue').type = Head(d).type
          /\ IsSet(Head(queue')) = IsSet(Head(d))
          /\ Head(queue').flag = "waiting"
      BY <1>1, <1>2, <2>1, <2>2, FlaggedBracketed, FlaggedWellFormed DEF d
    <2>4. ~Answered(Head(queue'), rx')
      BY <2>1, <2>3 DEF Answered, ValidFrame, NoBytes
    <2>5. HeadFine(Head(queue'), conn', session', rx')
      BY <1>3, <2>1, <2>3, <2>4 DEF HeadFine, IsSet, d
    <2>6. Head(d).type = "CONNECT" => HasUser(d)
      BY <1>2, <2>2, BracketHasUser DEF d
    <2> QED
      BY <2>1, <2>3, <2>5, <2>6 DEF UserBehind, BracketNow, HasUser, d
  <1>4. CASE ~HeadIs(d, {"send"})
    <2>1. queue' = d /\ conn' = c /\ rx' = r
      BY <1>4 DEF SendToUart
    <2>2. d # <<>> => HeadIs(d, InFlight)
      <3> SUFFICES ASSUME d # <<>> PROVE Head(d).flag \in InFlight
        BY DEF HeadIs
      <3>1. Head(d) \in Records
        BY <1>2
      <3> HIDE DEF d
      <3> QED
        BY <3>1, <1>1, <1>4 DEF Records, Flags, InFlight, HeadIs
    <2> QED
      BY <2>1, <2>2 DEF UserBehind, BracketNow, HasUser
  <1> QED
    BY <1>3, <1>4

\* A deleted head is dropped and the next request sent.  The channel was opened
\* for the administrator when it is the clock's turn, and for the user when the
\* connect as user is gone.
LEMMA SendDeletedBracketed ==
  ASSUME NEW g, WellFormed(g), HeadIs(g, {"deleted"}), Bracketed(g),
         NEW c, NEW cs, NEW r, NEW mux, SendToUart(g, c, cs, r, mux), session' = session,
         UserBehind(g, c),
         IsConnect(Head(g), 1) => session # "admin",
         IsConnect(Head(g), 2) => session # "user"
  PROVE  BracketNow'
PROOF
  <1> DEFINE d == Dropped(g)
  <1>1. d = Tail(g) /\ g \in Seq(Records) /\ g # <<>>
    BY DEF Dropped, HeadIs, WellFormed
  <1>2. /\ Bracketed(d)
        /\ HasUser(g) /\ ~IsConnect(Head(g), 1) => HasUser(d)
        /\ d # <<>> /\ IsSet(Head(d)) => IsConnect(Head(g), 2)
    BY <1>1, TailBracketed
  <1>3. ~HeadIs(d, InFlight)
    <2>1. \A i \in 1..Len(d) : d[i].flag = "send"
      <3> SUFFICES ASSUME NEW i \in 1..Len(d) PROVE d[i].flag = "send"
        OBVIOUS
      <3>1. Len(d) = Len(g) - 1 /\ d[i] = g[i + 1] /\ i + 1 \in 2..Len(g)
        BY <1>1
      <3> QED
        BY <3>1 DEF WellFormed
    <2>2. d # <<>> => Head(d) = d[1] /\ 1 \in 1..Len(d)
      BY <1>1
    <2> QED
      BY <2>1, <2>2 DEF HeadIs, InFlight
  <1>4. UserBehind(d, c)
    BY <1>2 DEF UserBehind
  <1>5. HeadIs(d, {"send"}) /\ IsSet(Head(d)) => session # "user"
    BY <1>2 DEF HeadIs
  <1> HIDE DEF d
  <1> QED
    BY <1>2, <1>3, <1>4, <1>5, SendBracketed DEF d

\* The head of q is deleted, dropped, and the next request sent.
LEMMA DeleteBracketed ==
  ASSUME NEW q, WellFormed(q), q # <<>>, Bracketed(q), NEW c, NEW cs, NEW r, NEW mux,
         SendToUart(Flagged(q, "deleted"), c, cs, r, mux), session' = session,
         UserBehind(q, c),
         IsConnect(Head(q), 1) => session # "admin",
         IsConnect(Head(q), 2) => session # "user"
  PROVE  BracketNow'
PROOF
  <1> DEFINE g == Flagged(q, "deleted")
  <1>1. "deleted" \in Flags /\ q \in Seq(Records)
    BY DEF Flags, WellFormed
  <1>2. WellFormed(g) /\ g # <<>> /\ Head(g).flag = "deleted"
    BY <1>1, FlaggedWellFormed
  <1>3. /\ Bracketed(g) /\ (HasUser(q) => HasUser(g))
        /\ \A u : IsConnect(Head(g), u) = IsConnect(Head(q), u)
    BY <1>1, FlaggedBracketed
  <1> HIDE DEF g
  <1>4. UserBehind(g, c) /\ HeadIs(g, {"deleted"})
    BY <1>2, <1>3 DEF UserBehind, HeadIs
  <1> QED
    BY <1>2, <1>3, <1>4, SendDeletedBracketed DEF g

\* The head is marked.
LEMMA MarkBracketed ==
  ASSUME BracketInv, queue # <<>>, NEW f \in Flags \ {"deleted"}, queue' = Flagged(queue, f),
         UNCHANGED <<conn, session, rx>>,
         f = "ready" => Answered(Head(queue), rx),
         f \in {"reading", "waiting"} => HeadIs(queue, InFlight)
  PROVE  BracketNow'
PROOF
  <1>1. WellFormed(queue) /\ queue \in Seq(Records)
    BY DEF BracketInv, ArchiveInv, IInv, QueueInv, WellFormed
  <1>2. /\ Bracketed(queue') /\ (HasUser(queue) => HasUser(queue'))
        /\ \A u : IsConnect(Head(queue'), u) = IsConnect(Head(queue), u)
        /\ IsSet(Head(queue')) = IsSet(Head(queue))
        /\ Head(queue').type = Head(queue).type
        /\ Head(queue').flag = f
    BY <1>1, FlaggedBracketed, FlaggedWellFormed DEF BracketInv, BracketNow
  <1>3. Answered(Head(queue'), rx') => Answered(Head(queue), rx)
    BY <1>2 DEF Answered, InFlight, HeadIs, Flags
  <1>4. HeadFine(Head(queue'), conn', session', rx')
    BY <1>2, <1>3 DEF HeadFine, BracketInv, BracketNow
  <1> QED
    BY <1>2, <1>4 DEF BracketInv, BracketNow, UserBehind

\* Only the queue grows; when it was empty, by requests that are no connects.
LEMMA GrowBracketed ==
  ASSUME BracketInv, NEW S, S \subseteq BatchRecords, Adds(S, queue, queue'),
         queue # <<>> \/ S = NumberRecords, UNCHANGED <<conn, session, rx>>
  PROVE  BracketNow'
PROOF
  <1>1. queue \in Seq(Records)
    BY DEF BracketInv, ArchiveInv, IInv, QueueInv, WellFormed
  <1>2. Bracketed(queue') /\ (HasUser(queue) => HasUser(queue'))
    BY <1>1, AddsMore, AddsBracketed DEF BracketInv, BracketNow
  <1>3. PICK b \in Seq(S) : queue' = queue \o b
    BY DEF Adds
  <1>4. CASE queue # <<>>
    <2>1. Head(queue') = Head(queue)
      BY <1>1, <1>3, <1>4
    <2> QED
      BY <1>2, <1>4, <2>1 DEF BracketInv, BracketNow, UserBehind
  <1>5. CASE queue = <<>>
    <2>1. ASSUME queue' # <<>> PROVE HeadFine(Head(queue'), conn', session', rx')
      <3>1. Head(queue') \in NumberRecords
        BY <1>3, <1>5, <2>1
      <3> QED
        BY <3>1 DEF NumberRecords, HeadFine, IsConnect, IsSet
    <2> QED
      BY <1>2, <2>1 DEF BracketInv, BracketNow, UserBehind
  <1> QED
    BY <1>4, <1>5

\* What the decoding of an answer queued, and the head is then deleted.
LEMMA FinishBracketed ==
  ASSUME BracketInv, Decoding, NEW q, WellFormed(q), Bracketed(q), q # <<>>,
         Head(q) = Head(queue), HasUser(queue) => HasUser(q),
         NEW c, c # "NotConnected" => conn # "NotConnected", NEW cs, Finish(q, c, cs)
  PROVE  BracketNow'
PROOF
  <1>1. /\ SendToUart(Flagged(q, "deleted"), c, cs, rx, muxOn) /\ session' = session
        /\ queue # <<>> /\ Head(queue).flag = "ready"
    BY DEF Finish, meter, Decoding, Awake, HeadIs
  <1>2. /\ IsConnect(Head(q), 1) => session # "admin"
        /\ IsConnect(Head(q), 2) => session # "user"
    BY <1>1 DEF BracketInv, BracketNow, HeadFine, Answered
  <1>3. UserBehind(q, c)
    BY DEF BracketInv, BracketNow, UserBehind
  <1> QED
    BY <1>1, <1>2, <1>3, DeleteBracketed

\* The queue after status 5: all that is left is the connect as user.
LEMMA ForgottenQueue ==
  ASSUME NEW h \in Records
  PROVE  LET q == <<h, Connect(1)>>
         IN  /\ WellFormed(q) /\ q # <<>>
             /\ Dropped(Flagged(q, "deleted")) = <<Connect(1)>>
PROOF
  <1> DEFINE q == <<h, Connect(1)>>
             g == Flagged(q, "deleted")
  <1>1. Connect(1) \in Records /\ Connect(1).flag = "send"
    BY RecordsMade
  <1>2. WellFormed(q) /\ q # <<>>
    BY <1>1, MercuryAssumption DEF WellFormed, QueueMax
  <1>3. WellFormed(g) /\ g # <<>> /\ Len(g) = 2 /\ Head(g).flag = "deleted"
    BY <1>2, FlaggedWellFormed DEF Flags
  <1>4. g[2] = Connect(1)
    BY <1>1 DEF Flagged
  <1> HIDE DEF g
  <1>5. g \in Seq(Records) /\ Dropped(g) = Tail(g)
    BY <1>3 DEF Dropped, HeadIs, WellFormed
  <1> HIDE DEF q
  <1>6. Tail(g) \in Seq(Records) /\ Len(Tail(g)) = 1 /\ Tail(g)[1] = g[2]
    <2> DEFINE t == Tail(g)
               n == Len(g)
    <2>1. g \in Seq(Records) /\ g # <<>>
      BY <1>3, <1>5
    <2>2. t \in Seq(Records) /\ Len(t) = n - 1 /\ \A i \in 1..Len(t) : t[i] = g[i + 1]
      BY <2>1
    <2>3. n = 2
      BY <1>3
    <2> HIDE DEF t, n
    <2>4. Len(t) = 1
      BY <2>2, <2>3
    <2>a. 1 \in 1..Len(t)
      BY <2>4
    <2>5. t[1] = g[1 + 1]
      BY <2>2, <2>a
    <2> QED
      BY <2>2, <2>4, <2>5 DEF t
  <1>7. <<Connect(1)>> \in Seq(Records) /\ Len(<<Connect(1)>>) = 1
    BY <1>1
  <1>8. \A i \in 1..Len(Tail(g)) : Tail(g)[i] = <<Connect(1)>>[i]
    BY <1>4, <1>6
  <1>9. Tail(g) = <<Connect(1)>>
    BY <1>6, <1>7, <1>8, SeqEqual
  <1> QED
    BY <1>2, <1>5, <1>9 DEF g, q

LEMMA DecodeBracketed ==
  ASSUME BracketInv, UartReceiveTimer, Decoding
  PROVE  BracketNow'
PROOF
  <1>1. /\ WellFormed(queue) /\ queue \in Seq(Records) /\ archStatus \in Nat
        /\ PortionOK(archStatus) /\ Bracketed(queue)
        /\ BatchRecords \subseteq Records /\ NumberRecords \subseteq BatchRecords
    BY DEF BracketInv, BracketNow, ArchiveInv, IInv, QueueInv, WellFormed, RestOK, ArchiveOK,
           BatchRecords, NumberRecords, GoodRecords
  <1>2. queue # <<>> /\ Head(queue).flag = "ready"
    BY DEF Decoding, Awake, HeadIs
  <1>3. CASE DecodeNotConnected
    <2> DEFINE q == <<Head(queue), Connect(1)>>
               g == Flagged(q, "deleted")
    <2>1. SendToUart(g, conn, cmdStatus, rx, muxOn) /\ session' = session
      BY <1>3 DEF DecodeNotConnected, Finish, meter
    <2>2. Head(queue) \in Records /\ Connect(1) \in Records /\ Connect(1).flag = "send"
      BY <1>1, <1>2, RecordsMade
    <2>4. WellFormed(g) /\ Dropped(g) = <<Connect(1)>>
      BY <2>2, ForgottenQueue, FlaggedWellFormed, HeadFlags
    <2> HIDE DEF g
    <2>7. /\ IsConnect(Connect(1), 1) /\ ~IsSet(Connect(1)) /\ ~IsConnect(Connect(1), 2)
          /\ Connect(1).arg = 1
      BY DEF IsConnect, IsSet, Connect, Record
    <2>8. <<Connect(1)>> \in Seq(BatchRecords)
      BY BatchesMade
    <2>9. Bracketed(<<Connect(1)>>)
      BY <2>8, BatchBracketed
    <2>10. HasUser(<<Connect(1)>>)
      <3>1. 1 \in 1..Len(<<Connect(1)>>) /\ <<Connect(1)>>[1] = Connect(1)
        OBVIOUS
      <3> QED
        BY <2>7, <3>1 DEF HasUser
    <2>11. ~HeadIs(<<Connect(1)>>, InFlight) /\ ~IsSet(Head(<<Connect(1)>>))
      BY <2>2, <2>7 DEF HeadIs, InFlight
    <2> QED
      BY <2>1, <2>4, <2>9, <2>10, <2>11, SendBracketed DEF UserBehind
  <1>4. CASE DecodeCorrectedToday \/ DecodeOther \/ DecodeCustom
    <2>1. \E cs : Finish(queue, conn, cs)
      BY <1>4 DEF DecodeCorrectedToday, DecodeOther, DecodeCustom
    <2> QED
      BY <1>1, <1>2, <2>1, FinishBracketed
  <1>5. CASE DecodeStatus
    <2>1. \E c : (c # "NotConnected" => conn # "NotConnected") /\ Finish(queue, c, cmdStatus)
      BY <1>5 DEF DecodeStatus
    <2> QED
      BY <1>1, <1>2, <2>1, FinishBracketed
  <1>6. CASE DecodeNumber
    <2> DEFINE st == NextStatus(Head(queue).var)
    <2>1. st \in Nat /\ PortionOK(st)
      BY NextStatusOK DEF BracketInv
    <2>2. PICK q \in {queue, ReadArchive(queue, st)} : Finish(q, conn, cmdStatus)
      BY <1>6 DEF DecodeNumber
    <2> HIDE DEF st
    <2>3. Filled(queue, q)
      BY <1>1, <2>1, <2>2, ReadArchiveFills, FilledChain
    <2>4. Bracketed(q) /\ (HasUser(queue) => HasUser(q))
      <3>1. Adds(NumberRecords, queue, q)
        BY <1>1, <2>1, <2>2, ReadArchiveAdds, AddsChain
      <3>2. Adds(BatchRecords, queue, q)
        BY <1>1, <3>1, AddsMore
      <3> QED
        BY <1>1, <3>2, AddsBracketed
    <2> QED
      BY <1>2, <2>2, <2>3, <2>4, FinishBracketed DEF Filled
  <1>7. CASE DecodeCurTime
    <2>1. PICK c \in ClockCorrections(queue) : Finish(queue \o c, conn, cmdStatus)
      BY <1>7 DEF DecodeCurTime
    <2>2. Filled(queue, queue \o c)
      BY <1>1, ClockCorrectionFills
    <2>3. Bracketed(queue \o c) /\ (HasUser(queue) => HasUser(queue \o c))
      BY <1>1, CorrectionBracketed
    <2> QED
      BY <1>2, <2>1, <2>2, <2>3, FinishBracketed DEF Filled
  <1>8. ~TimerSend /\ ~JudgeOk /\ ~JudgeCustomFailed /\ ~CountError
    BY DEF Decoding, TimerSend, JudgeOk, JudgeCustomFailed, CountError, Judged, Awake, HeadIs
  <1> QED
    BY <1>3, <1>4, <1>5, <1>6, <1>7, <1>8
       DEF UartReceiveTimer, JudgeRepeat, JudgeSleepUnconnected, JudgeDrop

LEMMA JudgeBracketed ==
  ASSUME BracketInv, JudgeOk \/ JudgeCustomFailed \/ JudgeRepeat \/ JudgeSleepUnconnected
                       \/ JudgeDrop
  PROVE  BracketNow'
PROOF
  <1>1. WellFormed(queue) /\ Bracketed(queue) /\ UserBehind(queue, conn)
    BY DEF BracketInv, BracketNow, ArchiveInv, IInv, QueueInv
  <1>2. queue # <<>> /\ HeadIs(queue, InFlight) /\ Judged
    BY DEF JudgeOk, JudgeCustomFailed, JudgeRepeat, JudgeSleepUnconnected, JudgeDrop,
           CountError, Judged, Awake, HeadIs, InFlight
  <1>3. HeadFine(Head(queue), conn, session, rx)
    BY <1>2 DEF BracketInv, BracketNow
  <1>4. CASE JudgeOk
    <2>1. /\ queue' = Flagged(queue, "ready") /\ UNCHANGED <<conn, session, rx>>
          /\ Answered(Head(queue), rx)
      BY <1>2, <1>4 DEF JudgeOk, meter, Answered, HeadIs, Valid, ValidFrame
    <2> QED
      BY <1>2, <2>1, MarkBracketed DEF Flags
  <1>5. CASE JudgeRepeat
    <2>1. queue' = Flagged(queue, "send") /\ UNCHANGED <<conn, session, rx>>
      BY <1>5 DEF JudgeRepeat, CountError, meter
    <2> QED
      BY <1>2, <2>1, MarkBracketed DEF Flags
  <1>6. CASE JudgeSleepUnconnected
    <2>1. UNCHANGED <<queue, conn, session, rx>>
      BY <1>6 DEF JudgeSleepUnconnected, CountError, meter
    <2> QED
      BY <2>1 DEF BracketInv, BracketNow, UserBehind
  <1>7. CASE JudgeCustomFailed \/ JudgeDrop
    <2>1. Head(queue).type # "CONNECT"
      BY <1>3, <1>7 DEF JudgeCustomFailed, JudgeDrop, MayRepeat, HeadFine
    <2>2. ~IsConnect(Head(queue), 1) /\ ~IsConnect(Head(queue), 2)
      BY <2>1 DEF IsConnect
    <2>3. session' = session
      BY <1>7 DEF JudgeCustomFailed, JudgeDrop, CountError, meter
    <2>4. CASE \E cs : SendToUart(Flagged(queue, "deleted"), conn, cs, rx, muxOn)
      BY <1>1, <1>2, <2>2, <2>3, <2>4, DeleteBracketed
    <2>5. CASE queue' = Flagged(queue, "deleted") /\ UNCHANGED <<conn, rx>>
      <3>1. /\ Bracketed(queue') /\ (HasUser(queue) => HasUser(queue'))
            /\ \A u : IsConnect(Head(queue'), u) = IsConnect(Head(queue), u)
            /\ IsSet(Head(queue')) = IsSet(Head(queue))
            /\ Head(queue').type = Head(queue).type
        BY <1>1, <1>2, <2>5, FlaggedBracketed DEF WellFormed, Flags
      <3>2. HeadFine(Head(queue'), conn', session', rx')
        BY <1>3, <2>1, <2>2, <2>3, <3>1 DEF HeadFine
      <3> QED
        BY <1>1, <2>3, <2>5, <3>1, <3>2 DEF BracketNow, UserBehind
    <2> QED
      BY <1>7, <2>4, <2>5 DEF JudgeCustomFailed, JudgeDrop
  <1> QED
    BY <1>4, <1>5, <1>6, <1>7

\* A request of the timer or of the page, sent at once: the head, if there was
\* one, is not a connect that was deleted.
LEMMA SentBracketed ==
  ASSUME BracketInv, NEW q, Filled(queue, q), Adds(BatchRecords, queue, q),
         NEW cs, NEW mux, SendToUart(q, conn, cs, rx, mux), session' = session
  PROVE  BracketNow'
PROOF
  <1>1. WellFormed(queue) /\ queue \in Seq(Records) /\ WellFormed(q) /\ q \in Seq(Records)
    BY DEF BracketInv, ArchiveInv, IInv, QueueInv, WellFormed, Filled
  <1>2. Bracketed(q) /\ UserBehind(q, conn)
    BY <1>1, AddsBracketed DEF BracketInv, BracketNow, UserBehind
  <1>3. CASE queue = <<>>
    <2>1. \A i \in 1..Len(q) : q[i] \in BatchRecords
      BY <1>3 DEF Adds
    <2>2. q # <<>> => Head(q) \in BatchRecords
      BY <2>1, <1>1
    <2>3. ~HeadIs(q, {"deleted"}) /\ ~HeadIs(q, InFlight)
      BY <2>2 DEF HeadIs, InFlight, BatchRecords, Ordinary
    <2>4. Dropped(q) = q
      BY <2>3 DEF Dropped
    <2> QED
      BY <1>1, <1>2, <2>2, <2>3, <2>4, SendBracketed DEF HeadIs, BatchRecords, Ordinary
  <1>4. CASE queue # <<>>
    <2>1. q # <<>> /\ Head(q) = Head(queue)
      BY <1>4 DEF Filled
    <2>2. HeadFine(Head(q), conn, session, rx)
      BY <1>4, <2>1 DEF BracketInv, BracketNow
    <2>3. CASE HeadIs(q, {"deleted"})
      <3>1. Head(q).type # "CONNECT"
        BY <2>2, <2>3 DEF HeadFine, HeadIs
      <3> QED
        BY <1>1, <1>2, <2>1, <2>3, <3>1, SendDeletedBracketed DEF IsConnect
    <2>4. CASE ~HeadIs(q, {"deleted"})
      <3>1. Dropped(q) = q
        BY <2>4 DEF Dropped
      <3> QED
        BY <1>1, <1>2, <2>2, <3>1, SendBracketed DEF HeadFine
    <2> QED
      BY <2>3, <2>4
  <1> QED
    BY <1>3, <1>4

\* What the steps of the requests, of the meter and of the page make of it.
LEMMA RequestBracketed ==
  ASSUME BracketInv, RequestTimer \/ WebSendNow \/ WebReadArchive \/ WebTimeLog
  PROVE  BracketNow'
PROOF
  <1>1. /\ WellFormed(queue) /\ queue \in Seq(Records) /\ archStatus \in Nat
        /\ PortionOK(archStatus) /\ BatchRecords \subseteq Records
        /\ NumberRecords \subseteq BatchRecords
    BY DEF BracketInv, ArchiveInv, IInv, QueueInv, WellFormed, RestOK, ArchiveOK,
           BatchRecords, NumberRecords, GoodRecords
  <1>2. session' = session
    BY DEF RequestTimer, WebSendNow, WebReadArchive, WebTimeLog, meter
  <1>3. CASE RequestTimer
    <2>1. PICK q \in {queue, PushConnect(queue, 1)} :
            LET r == ReadCurrent(ReadArchive(q, archStatus))
            IN  IF queue = <<>> THEN SendToUart(r, conn, cmdStatus, rx, muxOn)
                ELSE queue' = r /\ UNCHANGED <<conn, rx>>
      BY <1>3 DEF RequestTimer
    <2> DEFINE r == ReadCurrent(ReadArchive(q, archStatus))
    <2>2. Adds(BatchRecords, queue, r)
      BY <1>1, PeriodAdds
    <2>3. Filled(queue, r)
      <3>1. Filled(queue, q)
        BY <1>1, PushConnectFills, FilledChain
      <3>2. Filled(q, ReadArchive(q, archStatus))
        BY <1>1, <3>1, ReadArchiveFills DEF Filled
      <3>3. Filled(ReadArchive(q, archStatus), r)
        BY <3>2, ReadCurrentFills DEF Filled
      <3> QED
        BY <3>1, <3>2, <3>3, FilledChain
    <2>4. IF queue = <<>> THEN SendToUart(r, conn, cmdStatus, rx, muxOn)
          ELSE queue' = r /\ UNCHANGED <<conn, rx>>
      BY <2>1
    <2> HIDE DEF r
    <2>5. CASE queue = <<>>
      BY <1>2, <2>2, <2>3, <2>4, <2>5, SentBracketed
    <2>6. CASE queue # <<>>
      BY <1>2, <2>2, <2>4, <2>6, GrowBracketed
    <2> QED
      BY <2>5, <2>6
  <1>4. CASE WebSendNow
    <2> DEFINE b == <<Record("STR", NoVar, 0)>>
    <2>1. b \in Seq(BatchRecords) /\ b \in Seq(Records) /\ Len(b) = 1
          /\ \A i \in 1..Len(b) : b[i].flag = "send"
      BY <1>1, BatchesMade DEF BatchRecords, Ordinary
    <2>2. Append(queue, Record("STR", NoVar, 0)) = queue \o b
      BY <1>1
    <2>3. PICK q \in {queue, queue \o b} :
            IF Len(q) = 1 THEN SendToUart(q, conn, cmdStatus, rx, muxOn)
            ELSE queue' = q /\ UNCHANGED <<conn, rx>>
      BY <1>4, <2>2 DEF WebSendNow
    <2>4. Len(b) <= Room(queue)
      BY <1>4, <1>1, <2>1, MercuryAssumption DEF WebSendNow, Room, WellFormed, QueueMax
    <2> HIDE DEF b
    <2>5. Filled(queue, q) /\ Adds(BatchRecords, queue, q)
      <3>1. Filled(queue, queue) /\ Filled(queue, queue \o b)
        BY <1>1, <2>1, <2>4, BatchFills, FilledChain
      <3>2. Adds(BatchRecords, queue, queue)
        BY <1>1, AddsChain
      <3>3. Adds(BatchRecords, queue, queue \o b)
        BY <2>1 DEF Adds
      <3> QED
        BY <3>1, <3>2, <3>3
    <2>6. CASE Len(q) = 1
      BY <1>2, <2>3, <2>5, <2>6, SentBracketed
    <2>7. CASE Len(q) # 1
      <3>1. CASE queue # <<>>
        BY <1>2, <2>3, <2>5, <2>7, <3>1, GrowBracketed
      <3>2. CASE queue = <<>>
        <4>1. q = queue
          BY <2>1, <2>7, <3>2
        <4>2. UNCHANGED <<queue, conn, session, rx>>
          BY <1>2, <2>3, <2>7, <4>1
        <4> QED
          BY <4>2 DEF BracketInv, BracketNow, UserBehind
      <3> QED
        BY <3>1, <3>2
    <2> QED
      BY <2>6, <2>7
  <1>5. CASE WebReadArchive
    <2>1. PortionOK(2)
      BY QuarterSize DEF PortionOK
    <2>2. Adds(NumberRecords, queue, queue')
      BY <1>1, <1>5, <2>1, ReadArchiveAdds DEF WebReadArchive
    <2>3. UNCHANGED <<conn, rx>>
      BY <1>5 DEF WebReadArchive, driver
    <2> QED
      BY <1>1, <1>2, <2>2, <2>3, GrowBracketed
  <1>6. CASE WebTimeLog
    BY <1>1, <1>2, <1>6, TimeRequestsAdd, TimeRequestsFill, SentBracketed DEF WebTimeLog
  <1> QED
    BY <1>3, <1>4, <1>5, <1>6

\* What the meter does of its own, and what happens to the line: a connect
\* that reached the meter has opened the channel it asked for, and no frame
\* but the meter's own can be taken for its answer.
LEMMA MeterBracketed ==
  ASSUME BracketInv, HonestAnswers,
         MeterAnswers \/ Disturbance \/ MeterMidnight \/ SessionExpires
  PROVE  BracketNow'
PROOF
  <1>1. queue' = queue /\ conn' = conn /\ queue \in Seq(Records)
    BY DEF MeterAnswers, Disturbance, MeterMidnight, SessionExpires, driver,
           BracketInv, ArchiveInv, IInv, QueueInv, WellFormed
  <1>2. /\ Bracketed(queue) /\ UserBehind(queue, conn)
        /\ queue # <<>> => HeadFine(Head(queue), conn, session, rx)
    BY DEF BracketInv, BracketNow
  <1>3. CASE MeterMidnight \/ SessionExpires
    <2>1. rx' = rx /\ session' \in {session, "closed"}
      BY <1>3 DEF MeterMidnight, SessionExpires
    <2> QED
      BY <1>1, <1>2, <2>1 DEF BracketNow, UserBehind, HeadFine, HasUser
  <1>4. CASE MeterAnswers \/ Disturbance
    <2> DEFINE h == Head(queue)
    <2>1. queue # <<>>
      BY <1>4 DEF MeterAnswers, Disturbance, HeadIs
    <2>2. h.type = "CONNECT" => IsConnect(h, 1) \/ IsConnect(h, 2)
      BY <1>1, <1>2, <2>1 DEF Bracketed, IsConnect
    <2>3. /\ session' \in {session, SessionAfter(h)}
          /\ \/ h.type = "CONNECT" /\ session' = SessionAfter(h)
             \/ h.type # "CONNECT"
             \/ Answered(h, rx') => Answered(h, rx)
      <3>1. CASE MeterAnswers
        <4>1. PICK a \in Answers(h) :
                session' = IF a = Reply(0) THEN SessionAfter(h) ELSE session
          BY <3>1 DEF MeterAnswers
        <4>2. h.type = "CONNECT" => a = Reply(0)
          BY <4>1 DEF Answers, HonestAnswers
        <4> QED
          BY <4>1, <4>2
      <3>2. CASE Disturbance
        <4>1. PICK f \in FaultFrames \cup {rx} : rx' = f
          BY <3>2 DEF Disturbance
        <4>2. session' \in {session, SessionAfter(h)}
          BY <3>2 DEF Disturbance
        <4>3. ValidFrame(rx') => ValidFrame(rx)
          BY <4>1 DEF HonestAnswers
        <4> QED
          BY <4>2, <4>3 DEF Answered
      <3> QED
        BY <1>4, <3>1, <3>2
    <2>4. /\ IsConnect(h, 1) => SessionAfter(h) = "user"
          /\ IsConnect(h, 2) => SessionAfter(h) = "admin"
          /\ h.type # "CONNECT" => SessionAfter(h) = session
      BY DEF IsConnect, SessionAfter
    <2> HIDE DEF h
    <2>5. HeadFine(h, conn, session', rx')
      <3>1. HeadFine(h, conn, session, rx)
        BY <1>2, <2>1 DEF h
      <3>2. h.type # "CONNECT" => session' = session /\ ~IsConnect(h, 1) /\ ~IsConnect(h, 2)
        BY <2>3, <2>4 DEF IsConnect
      <3>3. h.type = "CONNECT" => ~IsSet(h)
        BY DEF IsSet
      <3>4. IsConnect(h, 1) => ~IsConnect(h, 2) /\ h.type = "CONNECT"
        BY DEF IsConnect
      <3> QED
        BY <2>2, <2>3, <2>4, <3>1, <3>2, <3>3, <3>4 DEF HeadFine
    <2>6. h.type = "CONNECT" => HasUser(queue)
      BY <1>1, <1>2, <2>1, BracketHasUser DEF h
    <2>7. UserBehind(queue, conn)'
      BY <1>1, <1>2, <2>3, <2>4, <2>6 DEF UserBehind, HasUser
    <2> QED
      BY <1>1, <1>2, <2>5, <2>7 DEF BracketNow, h
  <1> QED
    BY <1>3, <1>4

\* Every step of a system whose line tells no lies keeps the bracket.
LEMMA BracketStep ==
  ASSUME BracketInv, HonestAnswers, [Next]_vars
  PROVE  BracketNow'
PROOF
  <1>1. /\ WellFormed(queue) /\ queue \in Seq(Records) /\ BracketNow
        /\ queue # <<>> => HeadFine(Head(queue), conn, session, rx)
    BY DEF BracketInv, BracketNow, ArchiveInv, IInv, QueueInv, WellFormed
  <1>2. Filled(queue, queue) /\ Adds(BatchRecords, queue, queue)
    BY <1>1, FilledChain, AddsChain
  <1>3. CASE UartReceiveTimer
    <2>1. CASE TimerSend
      BY <1>2, <2>1, SentBracketed DEF TimerSend, meter
    <2>2. DecodeNotConnected \/ DecodeCorrectedToday \/ DecodeStatus \/ DecodeNumber
            \/ DecodeOther \/ DecodeCurTime \/ DecodeCustom => Decoding
      BY DEF DecodeNotConnected, DecodeCorrectedToday, DecodeStatus, DecodeNumber,
             DecodeOther, DecodeCurTime, DecodeCustom, StatusAnswer, DataAnswer
    <2> QED
      BY <1>3, <2>1, <2>2, JudgeBracketed, DecodeBracketed DEF UartReceiveTimer
  <1>4. CASE UartTask
    <2>1. UNCHANGED <<conn, session, rx>>
      BY <1>4 DEF UartTask, driver, meter
    <2>2. CASE HeadIs(queue, {"waiting", "reading"})
      <3>1. /\ queue' = Flagged(queue, "reading") /\ queue # <<>>
            /\ HeadIs(queue, InFlight) /\ "reading" \in Flags \ {"deleted"}
        BY <1>4, <2>2 DEF UartTask, HeadIs, InFlight, Flags
      <3> QED
        BY <2>1, <3>1, MarkBracketed
    <2>3. CASE ~HeadIs(queue, {"waiting", "reading"})
      BY <1>1, <1>4, <2>1, <2>3 DEF UartTask, BracketNow, UserBehind
    <2> QED
      BY <2>2, <2>3
  <1>5. CASE Tick
    <2>1. session' = session
      BY <1>5 DEF Tick, meter
    <2>2. CASE ~Wakes
      BY <1>1, <1>5, <2>1, <2>2 DEF Tick, BracketNow, UserBehind
    <2>3. CASE Wakes /\ ~(queue # <<>> /\ conn = "Connected")
      <3>1. SendToUart(queue, conn, cmdStatus, rx, TRUE)
        BY <1>5, <2>3 DEF Tick
      <3> QED
        BY <1>2, <2>1, <3>1, SentBracketed
    <2>4. CASE Wakes /\ queue # <<>> /\ conn = "Connected"
      <3>1. SendToUart(Flagged(queue, "deleted"), conn, cmdStatus, rx, TRUE)
        BY <1>5, <2>4 DEF Tick
      <3>2. ~IsConnect(Head(queue), 1) /\ ~IsConnect(Head(queue), 2)
        BY <1>1, <2>4 DEF HeadFine, IsConnect
      <3> QED
        BY <1>1, <2>1, <2>4, <3>1, <3>2, DeleteBracketed DEF BracketNow
    <2> QED
      BY <2>2, <2>3, <2>4
  <1>6. CASE WebSave \/ WebRequestPeriod
    <2>1. queue' \in {<<Connect(1)>>, <<>>} /\ conn' = "NotConnected"
      BY <1>6 DEF WebSave, WebRequestPeriod, IrdaInit
    <2>2. <<Connect(1)>> \in Seq(BatchRecords) /\ <<>> \in Seq(BatchRecords)
      BY BatchesMade
    <2>3. Bracketed(queue')
      BY <2>1, <2>2, BatchBracketed
    <2>4. ~IsSet(Connect(1)) /\ ~Answered(Connect(1), rx')
      BY DEF IsSet, Answered, InFlight, Connect, Record
    <2>5. ASSUME queue' # <<>> PROVE HeadFine(Head(queue'), conn', session', rx')
      <3>1. Head(queue') = Connect(1)
        BY <2>1, <2>5
      <3>2. Connect(1).flag # "deleted"
        BY DEF Connect, Record
      <3> QED
        BY <2>1, <2>4, <3>1, <3>2 DEF HeadFine
    <2> QED
      BY <2>1, <2>3, <2>5 DEF BracketNow, UserBehind
  <1>7. CASE UNCHANGED vars
    BY <1>1, <1>7 DEF BracketNow, UserBehind, vars, driver, meter
  <1> QED
    BY <1>3, <1>4, <1>5, <1>6, <1>7, RequestBracketed, MeterBracketed DEF Next

\* The invariant of a system whose line tells no lies.
LEMMA BracketAlways == Spec => [](HonestAnswers => BracketInv)
PROOF
  <1>1. Init => BracketInv
    <2> SUFFICES ASSUME Init PROVE BracketInv
      OBVIOUS
    <2>1. Bracketed(queue) /\ UserBehind(queue, conn)
      BY DEF Init, Bracketed, UserBehind
    <2> QED
      BY <2>1, InitArchiveInv DEF BracketInv, BracketNow, Init
  <1>2. (HonestAnswers => BracketInv) /\ [Next]_vars => (HonestAnswers => BracketInv)'
    <2> SUFFICES ASSUME HonestAnswers => BracketInv, [Next]_vars, HonestAnswers'
                 PROVE  BracketInv'
      OBVIOUS
    <2>1. HonestAnswers
      BY DEF HonestAnswers, ValidFrame
    <2>2. BracketNow' /\ ArchiveInv'
      BY <2>1, BracketStep, NextArchiveInv DEF BracketInv
    <2> QED
      BY <2>2 DEF BracketInv
  <1> QED
    BY <1>1, <1>2, PTL DEF Spec

\* The connect that ends the administrator's session is queued as long as the
\* session lasts, whatever is repeated, dropped, forgotten, slept through or
\* queued by the page in between, for every queue and repetition count, as long
\* as the meter refuses no connect and no stray frame passes for an answer.
THEOREM AdminSessionEnds == Spec => [](HonestAnswers => AdminReturns)
PROOF
  <1>1. BracketInv => AdminReturns
    BY DEF BracketInv, BracketNow, UserBehind, HasUser, IsConnect, AdminReturns
  <1> QED
    BY <1>1, BracketAlways, PTL

\* The command that sets the meter's clock stands in front of the connect as
\* user in every queue and is on the line only at the administrator's level.
THEOREM ClockSetAsAdmin == Spec => [](HonestAnswers => SetTimeBracketed)
PROOF
  <1>1. BracketInv => SetTimeBracketed
    <2> SUFFICES ASSUME BracketInv, NEW i \in 1..Len(queue),
                        queue[i].type = "SETTIME", queue[i].arg = 1
                 PROVE  /\ i < Len(queue) /\ queue[i + 1].type = "CONNECT"
                        /\ queue[i + 1].arg = 1
                        /\ queue[i].flag # "deleted" /\ queue[i].flag # "send"
                             => session # "user"
      BY DEF SetTimeBracketed
    <2>1. WellFormed(queue) /\ queue \in Seq(Records) /\ Bracketed(queue) /\ queue # <<>>
      BY DEF BracketInv, BracketNow, ArchiveInv, IInv, QueueInv, WellFormed
    <2>2. i + 1 <= Len(queue) /\ IsConnect(queue[i + 1], 1)
      BY <2>1 DEF Bracketed, IsSet
    <2>3. i = 1 => session # "user"
      <3>1. i = 1 => Head(queue) = queue[i]
        BY <2>1
      <3> QED
        BY <2>1, <3>1 DEF BracketInv, BracketNow, HeadFine, IsSet
    <2>4. i # 1 => queue[i].flag = "send"
      <3>1. i # 1 => i \in 2..Len(queue)
        BY <2>1
      <3> QED
        BY <2>1, <3>1 DEF WellFormed
    <2>5. i < Len(queue)
      BY <2>1, <2>2
    <2> QED
      BY <2>2, <2>3, <2>4, <2>5 DEF IsConnect
  <1> QED
    BY <1>1, BracketAlways, PTL

----------------------------------------------------------------------------
(* The archive on a line that nobody disturbs.  Every request is answered,  *)
(* so that none is given up and the driver never falls asleep, and of the   *)
(* words of the archive Yesterday is asked for before Today.                *)

\* The frame r answers the request h; a value is refused only with status 5.
AnswerTo(h, r) == ValidFrame(r) /\ (h.type = "NUMBER" /\ r.n = 4 => r.code = 5)

\* What is in the buffer is the answer to the request at the head, and the
\* only event that can come too early is one left from before irda_init.
CalmLine ==
  /\ sleepCnt = 0 /\ muxOn
  /\ line => rx.n = 0
  /\ HeadIs(queue, {"waiting", "reading"}) /\ rx.n = 0 => line
  /\ HeadIs(queue, InFlight) /\ rx.n # 0 => AnswerTo(Head(queue), rx)
  /\ HeadIs(queue, {"ready"}) => rx.n # 0 /\ (rx.n = 4 => lastResp = rx.code)
  /\ HeadIs(queue, {"reading"}) /\ rx.n = 0 => ~rxEvent /\ repeatCnt = RepeatMax
  /\ rxEvent /\ repeatCnt # RepeatMax => HeadIs(queue, InFlight) /\ rx.n # 0

\* The words asked for while the status is below 3, and the order of two.
Asks(h, v) == h.type = "NUMBER" /\ h.var = v
FirstWords == {Today, Yesterday, ThisMonth, PrevMonth, ThisYear, PrevYear}
Ordered(q) ==
  \A i \in 1..Len(q) :
    /\ q[i].type = "NUMBER" => q[i].var \in FirstWords \/ q[i].var >= CurBase
    /\ Asks(q[i], Today) => \E j \in 1..Len(q) : j < i /\ Asks(q[j], Yesterday)

InOrder == archStatus \in {0, 2} /\ Ordered(queue)
QuietNow == CalmLine /\ (yesterdayOf = 0 => InOrder)
QuietInv == faults = MaxFaults => QuietNow

\* Marking, dropping and appending keep the order; only Yesterday may not go.
LEMMA FlaggedOrdered ==
  ASSUME NEW q \in Seq(Records), q # <<>>, Ordered(q), NEW f \in Flags
  PROVE  /\ Flagged(q, f) \in Seq(Records) /\ Ordered(Flagged(q, f))
         /\ Flagged(q, f) # <<>> /\ Head(Flagged(q, f)).flag = f
         /\ \A v : Asks(Head(Flagged(q, f)), v) = Asks(Head(q), v)
PROOF
  <1> DEFINE g == Flagged(q, f)
  <1>1. Len(q) \in Nat /\ Len(q) >= 1 /\ q[1] \in Records /\ Head(q) = q[1]
    OBVIOUS
  <1>2. [q[1] EXCEPT !.flag = f] \in Records
    BY <1>1 DEF Records
  <1>3. g \in Seq(Records) /\ Len(g) = Len(q) /\ Head(g) = g[1] /\ g # <<>>
    BY <1>1, <1>2 DEF Flagged
  <1>a. g[1].flag = f
    BY <1>1 DEF Flagged, Records
  <1>4. \A i \in 1..Len(q) : g[i].type = q[i].type /\ g[i].var = q[i].var
    <2>1. \A i \in 1..Len(q) : g[i] = IF i = 1 THEN [q[1] EXCEPT !.flag = f] ELSE q[i]
      BY <1>1, <1>2 DEF Flagged
    <2>2. /\ [q[1] EXCEPT !.flag = f].type = q[1].type
          /\ [q[1] EXCEPT !.flag = f].var = q[1].var
      BY <1>1 DEF Records
    <2> HIDE DEF g
    <2> QED
      BY <2>1, <2>2
  <1> HIDE DEF g
  <1>5. \A i \in 1..Len(q) : \A v : Asks(g[i], v) = Asks(q[i], v)
    BY <1>4 DEF Asks
  <1>6. Ordered(g)
    BY <1>3, <1>4, <1>5 DEF Ordered
  <1> QED
    BY <1>1, <1>3, <1>a, <1>5, <1>6 DEF g

LEMMA TailOrdered ==
  ASSUME NEW q \in Seq(Records), q # <<>>, Ordered(q), ~Asks(Head(q), Yesterday)
  PROVE  Ordered(Tail(q))
PROOF
  <1> DEFINE t == Tail(q)
  <1>1. /\ Len(q) \in Nat /\ Len(q) >= 1 /\ Head(q) = q[1]
        /\ t \in Seq(Records) /\ Len(t) = Len(q) - 1
        /\ \A i \in 1..Len(t) : t[i] = q[i + 1]
    OBVIOUS
  <1> HIDE DEF t
  <1>2. ASSUME NEW i \in 1..Len(t)
        PROVE  /\ t[i].type = "NUMBER" => t[i].var \in FirstWords \/ t[i].var >= CurBase
               /\ Asks(t[i], Today) => \E j \in 1..Len(t) : j < i /\ Asks(t[j], Yesterday)
    <2>1. i + 1 \in 1..Len(q) /\ t[i] = q[i + 1]
      BY <1>1
    <2>2. ASSUME Asks(t[i], Today)
          PROVE  \E j \in 1..Len(t) : j < i /\ Asks(t[j], Yesterday)
      <3>1. PICK k \in 1..Len(q) : k < i + 1 /\ Asks(q[k], Yesterday)
        BY <2>1, <2>2 DEF Ordered
      <3>2. k # 1
        BY <1>1, <3>1
      <3>3. k - 1 \in 1..Len(t) /\ k - 1 < i /\ t[k - 1] = q[(k - 1) + 1] /\ (k - 1) + 1 = k
        BY <1>1, <3>1, <3>2
      <3> QED
        BY <3>1, <3>3
    <2> QED
      BY <2>1, <2>2 DEF Ordered
  <1> QED
    BY <1>2 DEF Ordered, t

LEMMA ConcatOrdered ==
  ASSUME NEW q \in Seq(Records), Ordered(q), NEW b \in Seq(Records), Ordered(b)
  PROVE  Ordered(q \o b)
PROOF
  <1> DEFINE g == q \o b
             n == Len(q)
  <1>1. /\ n \in Nat /\ Len(b) \in Nat /\ Len(g) = n + Len(b)
        /\ \A i \in 1..n : g[i] = q[i]
        /\ \A i \in 1..Len(b) : g[n + i] = b[i]
    OBVIOUS
  <1> HIDE DEF g
  <1>2. ASSUME NEW i \in 1..Len(g)
        PROVE  /\ g[i].type = "NUMBER" => g[i].var \in FirstWords \/ g[i].var >= CurBase
               /\ Asks(g[i], Today) => \E j \in 1..Len(g) : j < i /\ Asks(g[j], Yesterday)
    <2>1. CASE i <= n
      <3>1. i \in 1..n /\ g[i] = q[i] /\ \A j \in 1..n : j \in 1..Len(g) /\ g[j] = q[j]
        BY <1>1, <2>1
      <3> QED
        BY <3>1 DEF Ordered
    <2>2. CASE i > n
      <3> DEFINE k == i - n
      <3>1. k \in 1..Len(b) /\ i = n + k
        BY <1>1, <2>2
      <3>2. g[i] = b[k]
        BY <1>1, <3>1
      <3>3. \A j \in 1..Len(b) : n + j \in 1..Len(g) /\ g[n + j] = b[j] /\ (j < k => n + j < i)
        BY <1>1, <3>1
      <3> HIDE DEF k
      <3>4. ASSUME Asks(g[i], Today)
            PROVE  \E j \in 1..Len(g) : j < i /\ Asks(g[j], Yesterday)
        <4>1. PICK j \in 1..Len(b) : j < k /\ Asks(b[j], Yesterday)
          BY <3>1, <3>2, <3>4 DEF Ordered
        <4> QED
          BY <3>3, <4>1
      <3> QED
        BY <3>1, <3>2, <3>4 DEF Ordered
    <2> QED
      BY <1>1, <2>1, <2>2
  <1> QED
    BY <1>2 DEF Ordered, g

\* Requests for other words than those of the archive are in order.
Late(r) == r.type = "NUMBER" => r.var >= CurBase

LEMMA LateOrdered ==
  ASSUME NEW b \in Seq({r \in Records : Late(r)})
  PROVE  b \in Seq(Records) /\ Ordered(b)
PROOF
  <1>1. \A i \in 1..Len(b) : b[i] \in Records /\ Late(b[i])
    OBVIOUS
  <1>2. b \in Seq(Records)
    BY SeqMonotonic
  <1>3. \A r : Late(r) => ~Asks(r, Today)
    BY DEF Late, Asks, Today, CurBase
  <1> QED
    BY <1>1, <1>2, <1>3 DEF Ordered, Late

LEMMA LateMade ==
  /\ \A u \in 1..2 : Connect(u) \in {r \in Records : Late(r)}
  /\ \A z \in 0..1 : SetTime(z) \in {r \in Records : Late(r)}
  /\ \A v \in Int : v >= CurBase => Number(v) \in {r \in Records : Late(r)}
  /\ \A t \in {"TIME", "CURTIME", "STR"}, v \in Int :
       Record(t, v, 0) \in {r \in Records : Late(r)}
PROOF
  <1>1. \A u, z : Connect(u).type # "NUMBER" /\ SetTime(z).type # "NUMBER"
    BY DEF Connect, SetTime, Record
  <1>2. \A v : Number(v).var = v
    BY DEF Number, Record
  <1>3. \A t, v : Record(t, v, 0).type = t
    BY DEF Record
  <1>4. {"TIME", "CURTIME", "STR"} \subseteq Types
    BY DEF Types
  <1> QED
    BY <1>1, <1>2, <1>3, <1>4, RecordsMade DEF Late

\* The batches: Today is the last word of its portion.
LEMMA YearPortionOrdered == YearPortion(0) \in Seq(Records) /\ Ordered(YearPortion(0))
PROOF
  <1> DEFINE y == YearPortion(0)
  <1>1. /\ y = <<Number(PrevYear), Number(Yesterday), Number(PrevMonth),
                 Number(ThisMonth), Number(ThisYear), Number(Today)>>
    BY DEF YearPortion, PrevYear, Yesterday, PrevMonth, ThisMonth, ThisYear, Today
  <1>2. FirstWords \subseteq Int
    BY DEF FirstWords, PrevYear, Yesterday, PrevMonth, ThisMonth, ThisYear, Today
  <1>3. \A v \in FirstWords : Number(v) \in Records /\ Number(v).var = v
    BY <1>2, RecordsMade DEF Number, Record
  <1>4. y \in Seq(Records)
    <2>1. /\ Number(PrevYear) \in Records /\ Number(Yesterday) \in Records
          /\ Number(PrevMonth) \in Records /\ Number(ThisMonth) \in Records
          /\ Number(ThisYear) \in Records /\ Number(Today) \in Records
      BY <1>3 DEF FirstWords
    <2>2. <<Number(PrevYear), Number(Yesterday), Number(PrevMonth),
            Number(ThisMonth), Number(ThisYear), Number(Today)>> \in Seq(Records)
      BY <2>1
    <2> QED
      BY <1>1, <2>2
  <1>5. /\ Len(y) = 6 /\ y[2] = Number(Yesterday) /\ y[6] = Number(Today)
        /\ \A i \in 1..5 : y[i] \in {Number(v) : v \in FirstWords \ {Today}}
    <2>1. Len(y) = 6 /\ y[1] = Number(PrevYear) /\ y[2] = Number(Yesterday)
          /\ y[3] = Number(PrevMonth) /\ y[4] = Number(ThisMonth)
          /\ y[5] = Number(ThisYear) /\ y[6] = Number(Today)
      BY <1>1
    <2>2. \A i \in 1..5 : i = 1 \/ i = 2 \/ i = 3 \/ i = 4 \/ i = 5
      OBVIOUS
    <2>3. {PrevYear, Yesterday, PrevMonth, ThisMonth, ThisYear} \subseteq FirstWords \ {Today}
      BY DEF FirstWords, PrevYear, Yesterday, PrevMonth, ThisMonth, ThisYear, Today
    <2> HIDE DEF y
    <2> QED
      BY <2>1, <2>2, <2>3
  <1> HIDE DEF y
  <1>6. /\ \A i \in 1..5 : y[i].var \in FirstWords /\ ~Asks(y[i], Today)
        /\ y[6].var \in FirstWords /\ Asks(y[2], Yesterday)
    <2>1. Today \in FirstWords /\ Yesterday \in FirstWords
      BY DEF FirstWords
    <2>2. \A v \in FirstWords : Number(v).type = "NUMBER"
      BY DEF Number, Record
    <2> QED
      BY <1>3, <1>5, <2>1, <2>2 DEF Asks
  <1>7. 2 \in 1..6 /\ 2 < 6 /\ \A i \in 1..6 : i \in 1..5 \/ i = 6
    OBVIOUS
  <1> QED
    BY <1>4, <1>5, <1>6, <1>7 DEF Ordered, y

LEMMA ReadArchiveOrdered ==
  ASSUME NEW q \in Seq(Records), Ordered(q), NEW st \in {0, 2}
  PROVE  Ordered(ReadArchive(q, st))
PROOF
  <1>1. ReadArchive(q, st) = q \/ ReadArchive(q, st) = q \o YearPortion(0)
    BY DEF ReadArchive
  <1> QED
    BY <1>1, YearPortionOrdered, ConcatOrdered

LEMMA ReadCurrentOrdered ==
  ASSUME NEW q \in Seq(Records), Ordered(q)
  PROVE  Ordered(ReadCurrent(q))
PROOF
  <1> DEFINE S == {r \in Records : Late(r)}
             a == [i \in 1..CurrentNumbers + 2 |-> Number(CurBase + i - 1)]
             z == <<Record("CURTIME", CurTime, 0)>>
  <1>1. /\ CurrentNumbers + 2 \in Nat
        /\ \A i \in 1..CurrentNumbers + 2 : CurBase + i - 1 \in Int /\ CurBase + i - 1 >= CurBase
    BY MercuryAssumption DEF CurBase
  <1> HIDE DEF S
  <1>2. \A i \in 1..CurrentNumbers + 2 : Number(CurBase + i - 1) \in S
    BY <1>1, LateMade DEF S
  <1>3. a \in Seq(S)
    BY <1>1, <1>2
  <1>4. z \in Seq(S)
    BY LateMade, BatchesMade DEF S
  <1> HIDE DEF a, z
  <1>5. CurrentArray \in Seq(S)
    BY <1>3, <1>4 DEF CurrentArray, a, z
  <1>6. CurrentArray \in Seq(Records) /\ Ordered(CurrentArray)
    BY <1>5, LateOrdered DEF S
  <1> QED
    BY <1>6, ConcatOrdered DEF ReadCurrent

LEMMA PushConnectOrdered ==
  ASSUME NEW q \in Seq(Records), Ordered(q)
  PROVE  PushConnect(q, 1) \in Seq(Records) /\ Ordered(PushConnect(q, 1))
PROOF
  <1> DEFINE b == <<Connect(1)>>
  <1>1. PushConnect(q, 1) = q \/ PushConnect(q, 1) = q \o b
    BY DEF PushConnect
  <1>2. b \in Seq({r \in Records : Late(r)})
    BY LateMade
  <1> HIDE DEF b
  <1>3. b \in Seq(Records) /\ Ordered(b)
    BY <1>2, LateOrdered
  <1>4. q \o b \in Seq(Records) /\ Ordered(q \o b)
    BY <1>3, ConcatOrdered
  <1> QED
    BY <1>1, <1>4

\* pwmt_send_to_uart, and the deletion of the head before it.
LEMMA SendOrdered ==
  ASSUME NEW q \in Seq(Records), Ordered(q), NEW c, NEW cs, NEW r, NEW mux,
         SendToUart(q, c, cs, r, mux),
         HeadIs(q, {"deleted"}) => ~Asks(Head(q), Yesterday)
  PROVE  Ordered(queue')
PROOF
  <1> DEFINE d == Dropped(q)
  <1>1. d \in Seq(Records) /\ Ordered(d)
    BY TailOrdered DEF Dropped, HeadIs
  <1>2. queue' = d \/ (d # <<>> /\ queue' = Flagged(d, "waiting"))
    BY DEF SendToUart, HeadIs
  <1> HIDE DEF d
  <1> QED
    BY <1>1, <1>2, FlaggedOrdered DEF Flags

LEMMA DeleteOrdered ==
  ASSUME NEW q \in Seq(Records), q # <<>>, Ordered(q), ~Asks(Head(q), Yesterday),
         NEW c, NEW cs, NEW r, NEW mux, SendToUart(Flagged(q, "deleted"), c, cs, r, mux)
  PROVE  Ordered(queue')
PROOF
  <1> DEFINE g == Flagged(q, "deleted")
  <1>a. "deleted" \in Flags
    BY DEF Flags
  <1>1. g \in Seq(Records) /\ Ordered(g) /\ ~Asks(Head(g), Yesterday)
    BY <1>a, FlaggedOrdered
  <1> HIDE DEF g
  <1> QED
    BY <1>1, SendOrdered DEF g

\* A request goes out, or the queue is empty: nothing is in flight in q.
LEMMA SentCalm ==
  ASSUME CalmLine, NEW q, WellFormed(q), NEW c, NEW cs, SendToUart(q, c, cs, rx, muxOn),
         ~HeadIs(Dropped(q), InFlight), UNCHANGED <<sleepCnt, muxOn, rxEvent>>,
         rxEvent => repeatCnt' = RepeatMax
  PROVE  CalmLine'
PROOF
  <1> DEFINE d == Dropped(q)
  <1>1. WellFormed(d)
    BY DroppedWellFormed
  <1>2. sleepCnt' = 0 /\ muxOn' /\ (rxEvent' => repeatCnt' = RepeatMax)
    BY DEF CalmLine
  <1>3. CASE HeadIs(d, {"send"})
    <2>1. queue' = Flagged(d, "waiting") /\ rx' = NoBytes /\ line' = muxOn
      BY <1>3 DEF SendToUart
    <2>2. d # <<>> /\ "waiting" \in Flags
      BY <1>3 DEF HeadIs, Flags
    <2> HIDE DEF d
    <2>3. Head(queue').flag = "waiting"
      BY <1>1, <2>1, <2>2, FlaggedWellFormed
    <2>4. rx'.n = 0 /\ line'
      BY <2>1 DEF NoBytes, CalmLine
    <2> QED
      BY <1>2, <2>3, <2>4 DEF CalmLine, HeadIs
  <1>4. CASE ~HeadIs(d, {"send"})
    <2>1. queue' = d /\ rx' = rx /\ line' = line
      BY <1>4 DEF SendToUart
    <2> HIDE DEF d
    <2>2. ~HeadIs(queue', InFlight)
      BY <2>1 DEF d
    <2>3. /\ ~HeadIs(queue', {"waiting", "reading"})
          /\ ~HeadIs(queue', {"ready"}) /\ ~HeadIs(queue', {"reading"})
      BY <2>2 DEF HeadIs, InFlight
    <2> QED
      BY <1>2, <2>1, <2>2, <2>3 DEF CalmLine
  <1> QED
    BY <1>3, <1>4

\* The head that was in flight still is, and so is its answer.
LEMMA KeptCalm ==
  ASSUME CalmLine, UNCHANGED <<sleepCnt, muxOn, line, rx, lastResp, rxEvent, repeatCnt>>,
         HeadIs(queue', InFlight) \/ HeadIs(queue, InFlight)
           => queue # <<>> /\ queue' # <<>> /\ Head(queue') = Head(queue)
  PROVE  CalmLine'
PROOF
  <1>1. \A fs \in SUBSET InFlight : HeadIs(queue', fs) = HeadIs(queue, fs)
    <2> SUFFICES ASSUME NEW fs \in SUBSET InFlight
                 PROVE  HeadIs(queue', fs) <=> HeadIs(queue, fs)
      BY DEF HeadIs
    <2>1. /\ HeadIs(queue', fs) => HeadIs(queue', InFlight)
          /\ HeadIs(queue, fs) => HeadIs(queue, InFlight)
      BY DEF HeadIs
    <2> QED
      BY <2>1 DEF HeadIs
  <1>2. /\ {"waiting", "reading"} \in SUBSET InFlight /\ {"ready"} \in SUBSET InFlight
        /\ {"reading"} \in SUBSET InFlight /\ InFlight \in SUBSET InFlight
    BY DEF InFlight
  <1>3. /\ HeadIs(queue', {"waiting", "reading"}) = HeadIs(queue, {"waiting", "reading"})
        /\ HeadIs(queue', {"ready"}) = HeadIs(queue, {"ready"})
        /\ HeadIs(queue', {"reading"}) = HeadIs(queue, {"reading"})
        /\ HeadIs(queue', InFlight) = HeadIs(queue, InFlight)
    BY <1>1, <1>2
  <1> QED
    BY <1>3 DEF CalmLine

\* The head is deleted and the next request sent.
LEMMA DeletedCalm ==
  ASSUME CalmLine, NEW q, WellFormed(q), q # <<>>, NEW c, NEW cs,
         SendToUart(Flagged(q, "deleted"), c, cs, rx, muxOn),
         UNCHANGED <<sleepCnt, muxOn, rxEvent>>, rxEvent => repeatCnt' = RepeatMax
  PROVE  CalmLine'
PROOF
  <1> DEFINE g == Flagged(q, "deleted")
  <1>1. WellFormed(g) /\ g # <<>> /\ Head(g).flag = "deleted"
    BY FlaggedWellFormed, HeadFlags
  <1> HIDE DEF g
  <1>2. Dropped(g) = Tail(g) /\ g \in Seq(Records)
    BY <1>1 DEF Dropped, HeadIs, WellFormed
  <1>3. \A i \in 1..Len(Tail(g)) : Tail(g)[i].flag = "send"
    <2> SUFFICES ASSUME NEW i \in 1..Len(Tail(g)) PROVE Tail(g)[i].flag = "send"
      OBVIOUS
    <2>1. Len(Tail(g)) = Len(g) - 1 /\ Tail(g)[i] = g[i + 1] /\ i + 1 \in 2..Len(g)
      BY <1>1, <1>2
    <2> QED
      BY <1>1, <2>1 DEF WellFormed
  <1>4. Tail(g) # <<>> => Head(Tail(g)) = Tail(g)[1] /\ 1 \in 1..Len(Tail(g))
    BY <1>1, <1>2
  <1>5. ~HeadIs(Dropped(g), InFlight)
    BY <1>2, <1>3, <1>4 DEF HeadIs, InFlight
  <1> QED
    BY <1>1, <1>5, SentCalm DEF g

\* The queue grows and the head, if it waits, is sent.
LEMMA GrownCalm ==
  ASSUME CalmLine, QueueInv, NEW q, Filled(queue, q), Adds(BatchRecords, queue, q),
         NEW cs, SendToUart(q, conn, cs, rx, muxOn),
         UNCHANGED <<sleepCnt, muxOn, rxEvent, repeatCnt, lastResp>>
  PROVE  CalmLine'
PROOF
  <1>1. ~HeadIs(queue, {"deleted"}) /\ WellFormed(queue)
    BY DEF CalmLine, QueueInv, NoDeadHead
  <1>2. ~HeadIs(q, {"deleted"}) /\ Dropped(q) = q /\ WellFormed(q)
    BY <1>1 DEF Filled, Dropped
  <1>3. CASE HeadIs(q, InFlight)
    <2>1. queue # <<>>
      <3> SUFFICES ASSUME queue = <<>> PROVE FALSE
        OBVIOUS
      <3>1. PICK b \in Seq(BatchRecords) : q = queue \o b
        BY DEF Adds
      <3>2. q = b /\ q # <<>>
        BY <1>3, <3>1 DEF HeadIs
      <3>3. Head(q) \in BatchRecords
        BY <3>2
      <3> QED
        BY <1>3, <3>3 DEF HeadIs, InFlight, BatchRecords, Ordinary
    <2>2. q # <<>> /\ Head(q) = Head(queue)
      BY <2>1 DEF Filled
    <2>3. UNCHANGED <<rx, line>> /\ queue' = q
      BY <1>2, <1>3 DEF SendToUart, HeadIs, InFlight
    <2> QED
      BY <2>1, <2>2, <2>3, KeptCalm
  <1>4. CASE ~HeadIs(q, InFlight)
    <2>1. ~HeadIs(queue, InFlight)
      BY <1>4 DEF HeadIs, Filled
    <2>2. rxEvent => repeatCnt' = RepeatMax
      BY <2>1 DEF CalmLine
    <2> QED
      BY <1>2, <1>4, <2>2, SentCalm
  <1> QED
    BY <1>3, <1>4

\* The queue grows behind the request at its head, or by one that is to be sent.
LEMMA AddedCalm ==
  ASSUME CalmLine, NEW S, S \subseteq BatchRecords, Adds(S, queue, queue'),
         queue \in Seq(Records),
         UNCHANGED <<sleepCnt, muxOn, line, rx, lastResp, rxEvent, repeatCnt>>
  PROVE  CalmLine'
PROOF
  <1>1. PICK b \in Seq(S) : queue' = queue \o b
    BY DEF Adds
  <1>2. CASE queue # <<>>
    <2>1. queue' # <<>> /\ Head(queue') = Head(queue)
      BY <1>1, <1>2
    <2> QED
      BY <1>2, <2>1, KeptCalm
  <1>3. CASE queue = <<>>
    <2>1. queue' = b
      BY <1>1, <1>3
    <2>2. queue' # <<>> => Head(queue') \in BatchRecords
      BY <2>1
    <2>3. ~HeadIs(queue', InFlight) /\ ~HeadIs(queue, InFlight)
      BY <1>3, <2>2 DEF HeadIs, InFlight, BatchRecords, Ordinary
    <2> QED
      BY <2>3, KeptCalm
  <1> QED
    BY <1>2, <1>3

----------------------------------------------------------------------------
(* What the steps make of the calm line and of the order.                   *)

\* The answer timeout never ends for a request that was sent: what is judged
\* invalid is only an event from before irda_init.
LEMMA InvalidIsStray ==
  ASSUME ArchiveInv, CalmLine, Judged, ~Valid
  PROVE  queue # <<>> /\ HeadIs(queue, {"reading"}) /\ rx.n = 0 /\ ~rxEvent
           /\ repeatCnt = RepeatMax
PROOF
  <1>1. HeadIs(queue, {"waiting", "reading"}) /\ HeadIs(queue, InFlight)
    BY DEF Judged, Awake, HeadIs, InFlight
  <1>2. rx.n = 0
    BY <1>1 DEF CalmLine, AnswerTo, ValidFrame, Valid
  <1>3. HeadIs(queue, {"reading"})
    BY <1>1, <1>2 DEF Judged, Awake, CalmLine
  <1> QED
    BY <1>1, <1>2, <1>3 DEF CalmLine, HeadIs

LEMMA JudgeQuiet ==
  ASSUME ArchiveInv, QuietNow, RepeatMax > 0,
         JudgeOk \/ JudgeCustomFailed \/ JudgeRepeat \/ JudgeSleepUnconnected \/ JudgeDrop
  PROVE  QuietNow'
PROOF
  <1>1. WellFormed(queue) /\ queue \in Seq(Records) /\ CalmLine
    BY DEF ArchiveInv, IInv, QueueInv, WellFormed, QuietNow
  <1>2. Judged /\ queue # <<>>
    BY DEF JudgeOk, JudgeCustomFailed, JudgeRepeat, JudgeSleepUnconnected, JudgeDrop,
           CountError, Judged, Awake, HeadIs
  <1>3. /\ \A f \in Flags : WellFormed(Flagged(queue, f)) /\ Flagged(queue, f) # <<>>
        /\ \A f \in Flags : Head(Flagged(queue, f)) = [Head(queue) EXCEPT !.flag = f]
        /\ \A f \in Flags : Head(Flagged(queue, f)).flag = f
        /\ Head(queue) \in Records
        /\ \A f \in Flags : Ordered(queue) => Ordered(Flagged(queue, f))
    BY <1>1, <1>2, FlaggedWellFormed, FlaggedOrdered
  <1>4. archStatus' = archStatus /\ yesterdayOf' = yesterdayOf
    BY DEF JudgeOk, JudgeCustomFailed, JudgeRepeat, JudgeSleepUnconnected, JudgeDrop,
           CountError, archive
  <1>5. CASE JudgeOk
    <2>1. queue' = Flagged(queue, "ready") /\ "ready" \in Flags
      BY <1>5 DEF JudgeOk, Flags
    <2>2. /\ queue' # <<>> /\ Head(queue').flag = "ready"
          /\ Head(queue').type = Head(queue).type
      BY <1>3, <2>1 DEF Records
    <2>3. /\ UNCHANGED <<rx, rxEvent, line, repeatCnt, sleepCnt, muxOn>>
          /\ Valid /\ lastResp' = IF rx.n = 4 THEN rx.code ELSE 0
      BY <1>5 DEF JudgeOk
    <2>4. rx.n # 0 /\ AnswerTo(Head(queue), rx)
      <3>1. rx.n # 0
        BY <2>3 DEF Valid
      <3>2. HeadIs(queue, InFlight)
        BY <1>2 DEF Judged, Awake, HeadIs, InFlight
      <3> QED
        BY <1>1, <3>1, <3>2 DEF CalmLine
    <2>5. CalmLine'
      BY <1>1, <2>2, <2>3, <2>4 DEF CalmLine, AnswerTo, HeadIs, InFlight
    <2>6. Ordered(queue) => Ordered(queue')
      BY <1>3, <2>1
    <2> QED
      BY <1>4, <2>5, <2>6 DEF QuietNow, InOrder, Ordered
  <1>6. CASE JudgeCustomFailed
    <2>1. ~Valid /\ Head(queue).type = "STR"
          /\ UNCHANGED <<sleepCnt, muxOn, rxEvent, repeatCnt>>
          /\ SendToUart(Flagged(queue, "deleted"), conn, FailCode, rx, muxOn)
      BY <1>6 DEF JudgeCustomFailed
    <2>2. repeatCnt = RepeatMax
      BY <1>1, <1>2, <2>1, InvalidIsStray
    <2>3. CalmLine'
      BY <1>1, <1>2, <2>1, <2>2, DeletedCalm
    <2>4. Ordered(queue) => Ordered(queue')
      BY <1>1, <1>2, <2>1, DeleteOrdered DEF Asks
    <2> QED
      BY <1>4, <2>3, <2>4 DEF QuietNow, InOrder, Ordered
  <1>7. CASE JudgeRepeat
    <2>1. /\ ~Valid /\ queue' = Flagged(queue, "send") /\ "send" \in Flags
          /\ UNCHANGED <<sleepCnt, muxOn, rx, rxEvent, line>>
      BY <1>7 DEF JudgeRepeat, CountError, Flags
    <2>2. rx.n = 0 /\ ~rxEvent
      BY <1>1, <1>2, <2>1, InvalidIsStray
    <2>3. Head(queue').flag = "send"
      BY <1>3, <2>1
    <2>4. CalmLine'
      BY <1>1, <2>1, <2>2, <2>3 DEF CalmLine, HeadIs, InFlight
    <2>5. Ordered(queue) => Ordered(queue')
      BY <1>3, <2>1
    <2> QED
      BY <1>4, <2>4, <2>5 DEF QuietNow, InOrder, Ordered
  <1>8. CASE JudgeSleepUnconnected \/ JudgeDrop
    <2>1. ~Valid /\ ~(repeatCnt > 0)
      BY <1>8 DEF JudgeSleepUnconnected, JudgeDrop, CountError, MayRepeat
    <2> QED
      BY <1>1, <1>2, <2>1, InvalidIsStray
  <1> QED
    BY <1>5, <1>6, <1>7, <1>8

\* Whatever the decoding queued, the head is deleted and the next request sent.
LEMMA FinishQuiet ==
  ASSUME CalmLine, NEW q, WellFormed(q), q # <<>>, NEW c, NEW cs, Finish(q, c, cs)
  PROVE  /\ CalmLine'
         /\ Ordered(q) /\ ~Asks(Head(q), Yesterday) => Ordered(queue')
PROOF
  <1>1. /\ SendToUart(Flagged(q, "deleted"), c, cs, rx, muxOn) /\ q \in Seq(Records)
        /\ UNCHANGED <<sleepCnt, muxOn, rxEvent>> /\ repeatCnt' = RepeatMax
    BY DEF Finish, WellFormed
  <1>2. CalmLine'
    BY <1>1, DeletedCalm
  <1> QED
    BY <1>1, <1>2, DeleteOrdered

\* Below status 3 only the words Today and Today + 1 move the archive on: the
\* address that ends a portion is then in front of every word asked for.
LEMMA FirstPortion ==
  ASSUME InOrder, queue \in Seq(Records), queue # <<>>, Head(queue).type = "NUMBER"
  PROVE  LET v == Head(queue).var
         IN  NextStatus(v) = archStatus /\ ~MovesArchive(v)
PROOF
  <1> DEFINE v == Head(queue).var
  <1>1. 1 \in 1..Len(queue) /\ Head(queue) = queue[1]
    OBVIOUS
  <1>2. v \in FirstWords \/ v >= CurBase
    BY <1>1 DEF InOrder, Ordered
  <1>3. v # Today
    <2>1. Asks(queue[1], Today) => \E j \in 1..Len(queue) : j < 1
      BY <1>1 DEF InOrder, Ordered
    <2>2. ~Asks(queue[1], Today)
      BY <1>1, <2>1
    <2> QED
      BY <1>1, <2>2 DEF Asks
  <1>4. v # LastOfPortion(archStatus)
    <2>1. LastOfPortion(archStatus) \in {13 - 6 * Quarter, 13 - 2 * Quarter}
      <3>1. CASE archStatus = 0
        BY <3>1, QuarterSize DEF LastOfPortion, Month
      <3>2. CASE archStatus = 2
        BY <3>2, QuarterSize DEF LastOfPortion, Month
      <3> QED
        BY <3>1, <3>2 DEF InOrder
    <2>2. \A w \in FirstWords : w \in {2, 4, 6, 8, 10, 12}
      BY DEF FirstWords, Today, Yesterday, ThisMonth, PrevMonth, ThisYear, PrevYear
    <2> QED
      BY <1>2, <2>1, <2>2, QuarterSize DEF CurBase
  <1>5. v # Today + 1
    BY <1>2 DEF CurBase, FirstWords, Today, Yesterday, ThisMonth, PrevMonth, ThisYear, PrevYear
  <1> HIDE DEF v
  <1> QED
    BY <1>3, <1>4, <1>5 DEF NextStatus, MovesArchive, v

LEMMA DecodeQuiet ==
  ASSUME ArchiveInv, QuietNow, UartReceiveTimer, Decoding
  PROVE  QuietNow'
PROOF
  <1>1. /\ WellFormed(queue) /\ queue \in Seq(Records) /\ CalmLine
        /\ archStatus \in Nat /\ PortionOK(archStatus)
    BY DEF ArchiveInv, IInv, QueueInv, WellFormed, RestOK, ArchiveOK, QuietNow
  <1>2. queue # <<>> /\ HeadIs(queue, {"ready"}) /\ HeadIs(queue, InFlight)
    BY DEF Decoding, Awake, HeadIs, InFlight
  <1>3. CASE DecodeNotConnected
    <2> DEFINE q == <<Head(queue), Connect(1)>>
    <2>1. Head(queue) \in Records
      BY <1>1, <1>2
    <2>2. /\ Finish(q, conn, cmdStatus)
          /\ archStatus' = archStatus /\ yesterdayOf' = yesterdayOf
      BY <1>3 DEF DecodeNotConnected, KeepArchive
    <2>3. SendToUart(Flagged(q, "deleted"), conn, cmdStatus, rx, muxOn)
      BY <2>2 DEF Finish
    <2>4. /\ WellFormed(q) /\ q # <<>>
          /\ Dropped(Flagged(q, "deleted")) = <<Connect(1)>>
      BY <2>1, ForgottenQueue
    <2> HIDE DEF q
    <2>5. CalmLine'
      BY <1>1, <2>2, <2>4, FinishQuiet
    <2>6. Ordered(queue')
      <3> DEFINE d == <<Connect(1)>>
      <3>1. d \in Seq({r \in Records : Late(r)}) /\ d # <<>>
        BY LateMade
      <3>2. queue' = d \/ queue' = Flagged(d, "waiting")
        BY <2>3, <2>4 DEF SendToUart
      <3> HIDE DEF d
      <3>3. d \in Seq(Records) /\ Ordered(d)
        BY <3>1, LateOrdered
      <3> QED
        BY <3>1, <3>2, <3>3, FlaggedOrdered DEF Flags
    <2> QED
      BY <2>2, <2>5, <2>6 DEF QuietNow, InOrder, Ordered
  <1>4. CASE DecodeCorrectedToday \/ DecodeStatus
    <2>1. StatusAnswer /\ lastResp # 5
      BY <1>4 DEF DecodeCorrectedToday, DecodeStatus
    <2>2. ~Asks(Head(queue), Yesterday)
      <3>1. rx.n = 4 /\ rx.code # 5
        BY <1>1, <1>2, <2>1 DEF StatusAnswer, CalmLine
      <3>2. AnswerTo(Head(queue), rx)
        BY <1>1, <1>2, <3>1 DEF CalmLine
      <3> QED
        BY <3>1, <3>2 DEF AnswerTo, Asks
    <2>3. \E c : Finish(queue, c, cmdStatus)
      BY <1>4 DEF DecodeCorrectedToday, DecodeStatus
    <2>4. archStatus' = archStatus /\ yesterdayOf' = yesterdayOf
      BY <1>4 DEF DecodeCorrectedToday, DecodeStatus, KeepArchive
    <2>5. CalmLine' /\ (Ordered(queue) => Ordered(queue'))
      BY <1>1, <1>2, <2>2, <2>3, FinishQuiet
    <2> QED
      BY <2>4, <2>5 DEF QuietNow, InOrder, Ordered
  <1>5. CASE DecodeOther \/ DecodeCustom
    <2>1. ~Asks(Head(queue), Yesterday)
      BY <1>5 DEF DecodeOther, DecodeCustom, DataAnswer, Asks
    <2>2. \E cs : Finish(queue, conn, cs)
      BY <1>5 DEF DecodeOther, DecodeCustom
    <2>3. archStatus' = archStatus /\ yesterdayOf' = yesterdayOf
      BY <1>5 DEF DecodeOther, DecodeCustom, KeepArchive
    <2>4. CalmLine' /\ (Ordered(queue) => Ordered(queue'))
      BY <1>1, <1>2, <2>1, <2>2, FinishQuiet
    <2> QED
      BY <2>3, <2>4 DEF QuietNow, InOrder, Ordered
  <1>6. CASE DecodeCurTime
    <2>1. PICK c \in ClockCorrections(queue) : Finish(queue \o c, conn, cmdStatus)
      BY <1>6 DEF DecodeCurTime
    <2> DEFINE q == queue \o c
    <2>2. Filled(queue, q)
      BY <1>1, ClockCorrectionFills
    <2>3. archStatus' = archStatus /\ yesterdayOf' = yesterdayOf
          /\ Head(queue).type = "CURTIME"
      BY <1>6 DEF DecodeCurTime, KeepArchive, DataAnswer
    <2>4. c \in Seq(Records) /\ Ordered(c)
      <3> DEFINE S == {r \in Records : Late(r)}
      <3>1. /\ SetTime(0) \in S /\ SetTime(1) \in S /\ Connect(1) \in S /\ Connect(2) \in S
        BY LateMade
      <3> HIDE DEF S
      <3>2. /\ <<>> \in Seq(S) /\ <<SetTime(0)>> \in Seq(S)
            /\ <<Connect(2), SetTime(1), Connect(1)>> \in Seq(S)
        BY <3>1
      <3>3. c \in Seq(S)
        BY <3>2 DEF ClockCorrections
      <3> QED
        BY <3>3, LateOrdered DEF S
    <2>5. Ordered(queue) => Ordered(q)
      BY <1>1, <2>4, ConcatOrdered
    <2>6. WellFormed(q) /\ q # <<>> /\ ~Asks(Head(q), Yesterday)
      BY <1>2, <2>2, <2>3 DEF Filled, Asks
    <2> HIDE DEF q
    <2>7. CalmLine' /\ (Ordered(q) => Ordered(queue'))
      BY <1>1, <2>1, <2>6, FinishQuiet DEF q
    <2> QED
      BY <2>3, <2>5, <2>7 DEF QuietNow, InOrder, Ordered
  <1>7. CASE DecodeNumber
    <2> DEFINE v == Head(queue).var
    <2>1. PICK q \in {queue, ReadArchive(queue, NextStatus(v))} :
            /\ Finish(q, conn, cmdStatus)
            /\ ~MovesArchive(v) => q = queue
      BY <1>7 DEF DecodeNumber
    <2>2. /\ Head(queue).type = "NUMBER" /\ archStatus' = NextStatus(v)
          /\ yesterdayOf' = IF v = Yesterday THEN meterDay ELSE yesterdayOf
      BY <1>7 DEF DecodeNumber, DataAnswer
    <2>3. Filled(queue, q)
      <3>1. NextStatus(v) \in Nat
        BY NextStatusOK
      <3> QED
        BY <1>1, <2>1, <3>1, ReadArchiveFills, FilledChain
    <2>4. CalmLine' /\ (Ordered(q) /\ ~Asks(Head(q), Yesterday) => Ordered(queue'))
      BY <1>1, <1>2, <2>1, <2>3, FinishQuiet DEF Filled
    <2>5. ASSUME yesterdayOf' = 0 PROVE archStatus' \in {0, 2} /\ Ordered(queue')
      <3>1. meterDay # 0
        BY DEF ArchiveInv, IInv, RestOK, LineOK
      <3>2. v # Yesterday /\ yesterdayOf = 0
        BY <2>2, <2>5, <3>1
      <3>3. InOrder
        BY <3>2 DEF QuietNow
      <3>4. NextStatus(v) = archStatus /\ ~MovesArchive(v)
        BY <1>1, <1>2, <2>2, <3>3, FirstPortion
      <3> QED
        BY <2>1, <2>2, <2>4, <3>2, <3>3, <3>4 DEF InOrder, Asks
    <2> QED
      BY <2>4, <2>5 DEF QuietNow, InOrder, Ordered
  <1>8. ~TimerSend /\ ~JudgeOk /\ ~JudgeCustomFailed /\ ~CountError
    BY DEF Decoding, TimerSend, JudgeOk, JudgeCustomFailed, CountError, Judged, Awake, HeadIs
  <1> QED
    BY <1>3, <1>4, <1>5, <1>6, <1>7, <1>8
       DEF UartReceiveTimer, JudgeRepeat, JudgeSleepUnconnected, JudgeDrop

\* The request timer and the page add ordered batches.
LEMMA RequestQuiet ==
  ASSUME ArchiveInv, QuietNow, RequestTimer \/ WebSendNow \/ WebReadArchive \/ WebTimeLog
  PROVE  QuietNow'
PROOF
  <1>1. /\ WellFormed(queue) /\ queue \in Seq(Records) /\ archStatus \in Nat /\ QueueInv
        /\ PortionOK(archStatus) /\ BatchRecords \subseteq Records /\ CalmLine
        /\ NumberRecords \subseteq BatchRecords
    BY DEF ArchiveInv, IInv, QueueInv, WellFormed, RestOK, ArchiveOK,
           BatchRecords, NumberRecords, GoodRecords, QuietNow
  <1>2. ~HeadIs(queue, {"deleted"})
    BY <1>1 DEF QueueInv, NoDeadHead, CalmLine
  <1>3. yesterdayOf' = yesterdayOf /\ UNCHANGED <<sleepCnt, muxOn, lastResp, rxEvent, repeatCnt>>
    BY DEF RequestTimer, WebSendNow, WebReadArchive, WebTimeLog, driver
  <1>4. CASE RequestTimer
    <2>1. PICK q \in {queue, PushConnect(queue, 1)} :
            LET r == ReadCurrent(ReadArchive(q, archStatus))
            IN  IF queue = <<>> THEN SendToUart(r, conn, cmdStatus, rx, muxOn)
                ELSE queue' = r /\ UNCHANGED <<conn, rx, line>>
      BY <1>4 DEF RequestTimer
    <2> DEFINE r == ReadCurrent(ReadArchive(q, archStatus))
    <2>2. Adds(BatchRecords, queue, r)
      BY <1>1, PeriodAdds
    <2>3. Filled(queue, r)
      <3>1. Filled(queue, q)
        BY <1>1, PushConnectFills, FilledChain
      <3>2. Filled(q, ReadArchive(q, archStatus))
        BY <1>1, <3>1, ReadArchiveFills DEF Filled
      <3>3. Filled(ReadArchive(q, archStatus), r)
        BY <3>2, ReadCurrentFills DEF Filled
      <3> QED
        BY <3>1, <3>2, <3>3, FilledChain
    <2>4. IF queue = <<>> THEN SendToUart(r, conn, cmdStatus, rx, muxOn)
          ELSE queue' = r /\ UNCHANGED <<conn, rx, line>>
      BY <2>1
    <2>5. ASSUME InOrder PROVE r \in Seq(Records) /\ Ordered(r)
      <3>1. q \in Seq(Records) /\ Ordered(q)
        BY <1>1, <2>5, PushConnectOrdered DEF InOrder
      <3>2. Ordered(ReadArchive(q, archStatus))
        BY <2>5, <3>1, ReadArchiveOrdered DEF InOrder
      <3>3. ReadArchive(q, archStatus) \in Seq(Records)
        <4>1. Adds(NumberRecords, q, ReadArchive(q, archStatus))
          BY <1>1, <3>1, ReadArchiveAdds
        <4> QED
          BY <1>1, <3>1, <4>1, AddsSeq
      <3> QED
        BY <1>1, <2>2, <3>2, <3>3, ReadCurrentOrdered, AddsSeq
    <2> HIDE DEF r
    <2>6. archStatus' = archStatus
      BY <1>4 DEF RequestTimer
    <2>7. CASE queue = <<>>
      <3>1. CalmLine'
        BY <1>1, <1>3, <2>2, <2>3, <2>4, <2>7, GrownCalm
      <3>2. ~HeadIs(r, {"deleted"})
        BY <1>2, <2>3 DEF Filled
      <3>3. InOrder => Ordered(queue')
        BY <2>4, <2>5, <2>7, <3>2, SendOrdered
      <3> QED
        BY <1>3, <2>6, <3>1, <3>3 DEF QuietNow, InOrder, Ordered
    <2>8. CASE queue # <<>>
      <3>1. CalmLine'
        BY <1>1, <1>3, <2>2, <2>4, <2>8, AddedCalm
      <3> QED
        BY <1>3, <2>4, <2>5, <2>6, <2>8, <3>1 DEF QuietNow, InOrder, Ordered
    <2> QED
      BY <2>7, <2>8
  <1>5. CASE WebSendNow
    <2> DEFINE b == <<Record("STR", NoVar, 0)>>
    <2>1. b \in Seq(BatchRecords) /\ b \in Seq(Records) /\ Len(b) = 1
          /\ \A i \in 1..Len(b) : b[i].flag = "send"
      BY <1>1, BatchesMade DEF BatchRecords, Ordinary
    <2>2. b \in Seq({r \in Records : Late(r)})
      BY LateMade, BatchesMade
    <2>3. Append(queue, Record("STR", NoVar, 0)) = queue \o b
      BY <1>1
    <2>4. PICK q \in {queue, queue \o b} :
            IF Len(q) = 1 THEN SendToUart(q, conn, cmdStatus, rx, muxOn)
            ELSE queue' = q /\ UNCHANGED <<conn, rx, line>>
      BY <1>5, <2>3 DEF WebSendNow
    <2>5. Len(b) <= Room(queue)
      BY <1>5, <1>1, <2>1, MercuryAssumption DEF WebSendNow, Room, WellFormed, QueueMax
    <2> HIDE DEF b
    <2>6. Filled(queue, q) /\ Adds(BatchRecords, queue, q)
      <3>1. Filled(queue, queue) /\ Filled(queue, queue \o b)
        BY <1>1, <2>1, <2>5, BatchFills, FilledChain
      <3>2. Adds(BatchRecords, queue, queue)
        BY <1>1, AddsChain
      <3>3. Adds(BatchRecords, queue, queue \o b)
        BY <2>1 DEF Adds
      <3> QED
        BY <3>1, <3>2, <3>3
    <2>7. Ordered(queue) => Ordered(q)
      BY <1>1, <2>2, LateOrdered, ConcatOrdered
    <2>8. q \in Seq(Records) /\ ~HeadIs(q, {"deleted"})
      BY <1>2, <2>6 DEF Filled, WellFormed
    <2>9. archStatus' = archStatus
      BY <1>5 DEF WebSendNow
    <2>10. CASE Len(q) = 1
      <3>1. CalmLine'
        BY <1>1, <1>3, <2>4, <2>6, <2>10, GrownCalm
      <3>2. Ordered(queue) => Ordered(queue')
        BY <2>4, <2>7, <2>8, <2>10, SendOrdered
      <3> QED
        BY <1>3, <2>9, <3>1, <3>2 DEF QuietNow, InOrder, Ordered
    <2>11. CASE Len(q) # 1
      <3>1. CalmLine'
        BY <1>1, <1>3, <2>4, <2>6, <2>11, AddedCalm
      <3> QED
        BY <1>3, <2>4, <2>7, <2>9, <2>11, <3>1 DEF QuietNow, InOrder, Ordered
    <2> QED
      BY <2>10, <2>11
  <1>6. CASE WebReadArchive
    <2>1. PortionOK(2)
      BY QuarterSize DEF PortionOK
    <2>2. Adds(NumberRecords, queue, queue')
      BY <1>1, <1>6, <2>1, ReadArchiveAdds DEF WebReadArchive
    <2>3. UNCHANGED <<rx, line>> /\ archStatus' = 2 /\ queue' = ReadArchive(queue, 2)
      BY <1>6 DEF WebReadArchive
    <2>4. CalmLine'
      BY <1>1, <1>3, <2>2, <2>3, AddedCalm
    <2>5. Ordered(queue) => Ordered(queue')
      BY <1>1, <2>3, ReadArchiveOrdered
    <2> QED
      BY <1>3, <2>3, <2>4, <2>5 DEF QuietNow, InOrder, Ordered
  <1>7. CASE WebTimeLog
    <2> DEFINE q == queue \o TimeRequests(queue)
    <2>1. /\ SendToUart(q, conn, cmdStatus, rx, muxOn) /\ archStatus' = archStatus
          /\ Adds(BatchRecords, queue, q) /\ Filled(queue, q)
      BY <1>1, <1>7, TimeRequestsAdd, TimeRequestsFill DEF WebTimeLog
    <2>2. TimeRequests(queue) \in Seq({r \in Records : Late(r)})
      <3> DEFINE n == IF Room(queue) < TimeRecs THEN Room(queue) ELSE TimeRecs
                 S == {r \in Records : Late(r)}
      <3>1. n \in Nat
        BY <1>1, MercuryAssumption DEF Room, WellFormed, QueueMax
      <3>2. Record("TIME", TimeArray, 0) \in S
        BY LateMade, BatchesMade
      <3>3. TimeRequests(queue) = [i \in 1..n |-> Record("TIME", TimeArray, 0)]
        BY DEF TimeRequests
      <3> HIDE DEF n, S
      <3>4. TimeRequests(queue) \in Seq(S)
        BY <3>1, <3>2, <3>3
      <3> QED
        BY <3>4 DEF S
    <2>3. Ordered(queue) => Ordered(q)
      BY <1>1, <2>2, LateOrdered, ConcatOrdered
    <2> HIDE DEF q
    <2>4. q \in Seq(Records) /\ ~HeadIs(q, {"deleted"})
      BY <1>2, <2>1 DEF Filled, WellFormed
    <2>5. CalmLine'
      BY <1>1, <1>3, <2>1, GrownCalm
    <2>6. Ordered(queue) => Ordered(queue')
      BY <2>1, <2>3, <2>4, SendOrdered
    <2> QED
      BY <1>3, <2>1, <2>5, <2>6 DEF QuietNow, InOrder, Ordered
  <1> QED
    BY <1>4, <1>5, <1>6, <1>7

\* What the meter sends answers the request, and finds an empty buffer.
LEMMA MeterQuiet ==
  ASSUME ArchiveInv, CalmLine, MeterAnswers
  PROVE  CalmLine'
PROOF
  <1> DEFINE h == Head(queue)
  <1>1. /\ line /\ HeadIs(queue, InFlight) /\ queue # <<>> /\ h \in Records
        /\ session \in Sessions
    BY DEF MeterAnswers, HeadIs, ArchiveInv, IInv, QueueInv, WellFormed, RestOK, LineOK
  <1>2. rx.n = 0
    BY <1>1 DEF CalmLine
  <1>3. PICK a \in Answers(h) : rx' = a
    BY <1>2 DEF MeterAnswers
  <1>4. AnswerTo(h, a) /\ a.n # 0
    <2>1. \A c : Reply(c).n = 4 /\ Reply(c).ok /\ Reply(c).code = c
      BY DEF Reply
    <2>2. DataFrame.n = 5 /\ DataFrame.ok
      BY DEF DataFrame
    <2>3. a = DataFrame \/ \E c : a = Reply(c) /\ (h.type = "NUMBER" => c = 5)
      BY <1>1, <1>3 DEF Answers, Records, Types, Sessions
    <2> QED
      BY <2>1, <2>2, <2>3 DEF AnswerTo, ValidFrame
  <1>5. /\ UNCHANGED <<queue, sleepCnt, muxOn, lastResp, repeatCnt>> /\ line' = FALSE
    BY DEF MeterAnswers, driver
  <1>6. ~HeadIs(queue, {"ready"})
    BY <1>2 DEF CalmLine
  <1> HIDE DEF h
  <1> QED
    BY <1>1, <1>3, <1>4, <1>5, <1>6 DEF CalmLine, h

\* Every step of an undisturbed line keeps it calm and the archive in order.
LEMMA QuietStep ==
  ASSUME ArchiveInv, QuietNow, RepeatMax > 0, [Next]_vars, ~Disturbance
  PROVE  QuietNow'
PROOF
  <1>1. /\ WellFormed(queue) /\ queue \in Seq(Records) /\ CalmLine /\ QueueInv
    BY DEF ArchiveInv, IInv, QueueInv, WellFormed, QuietNow
  <1>2. Filled(queue, queue) /\ Adds(BatchRecords, queue, queue)
    BY <1>1, FilledChain, AddsChain
  <1>3. CASE UartReceiveTimer
    <2>1. CASE TimerSend
      <3>1. /\ SendToUart(queue, conn, cmdStatus, rx, muxOn)
            /\ UNCHANGED <<sleepCnt, muxOn, rxEvent, repeatCnt, lastResp, archStatus, yesterdayOf>>
            /\ ~HeadIs(queue, {"deleted"})
        BY <2>1 DEF TimerSend, Awake, HeadIs
      <3>2. CalmLine'
        BY <1>1, <1>2, <3>1, GrownCalm
      <3>3. Ordered(queue) => Ordered(queue')
        BY <1>1, <3>1, SendOrdered
      <3> QED
        BY <3>1, <3>2, <3>3 DEF QuietNow, InOrder, Ordered
    <2>2. DecodeNotConnected \/ DecodeCorrectedToday \/ DecodeStatus \/ DecodeNumber
            \/ DecodeOther \/ DecodeCurTime \/ DecodeCustom => Decoding
      BY DEF DecodeNotConnected, DecodeCorrectedToday, DecodeStatus, DecodeNumber,
             DecodeOther, DecodeCurTime, DecodeCustom, StatusAnswer, DataAnswer
    <2> QED
      BY <1>3, <2>1, <2>2, JudgeQuiet, DecodeQuiet DEF UartReceiveTimer
  <1>4. CASE UartTask
    <2>1. /\ rxEvent' = FALSE
          /\ UNCHANGED <<rx, line, sleepCnt, muxOn, lastResp, repeatCnt, archStatus, yesterdayOf>>
      BY <1>4 DEF UartTask, driver, archive
    <2>2. CASE HeadIs(queue, {"waiting", "reading"})
      <3>1. queue' = Flagged(queue, "reading") /\ queue # <<>> /\ HeadIs(queue, InFlight)
        BY <1>4, <2>2 DEF UartTask, HeadIs, InFlight
      <3>2. /\ Head(queue') = [Head(queue) EXCEPT !.flag = "reading"]
            /\ Head(queue').flag = "reading" /\ Head(queue) \in Records /\ queue' # <<>>
        BY <1>1, <3>1, FlaggedWellFormed, HeadFlags
      <3>3. Head(queue').type = Head(queue).type
        BY <3>2 DEF Records
      <3>4. rxEvent /\ rx.n = 0 => repeatCnt = RepeatMax
        BY <1>1 DEF CalmLine
      <3>5. CalmLine'
        BY <1>1, <1>4, <2>1, <2>2, <3>1, <3>2, <3>3, <3>4
           DEF UartTask, CalmLine, HeadIs, InFlight, AnswerTo
      <3>6. Ordered(queue) => Ordered(queue')
        BY <1>1, <3>1, FlaggedOrdered, HeadFlags
      <3> QED
        BY <2>1, <3>5, <3>6 DEF QuietNow, InOrder, Ordered
    <2>3. CASE ~HeadIs(queue, {"waiting", "reading"})
      <3>1. queue' = queue
        BY <1>4, <2>3 DEF UartTask
      <3>2. CalmLine'
        BY <1>1, <2>1, <3>1 DEF CalmLine
      <3> QED
        BY <2>1, <3>1, <3>2 DEF QuietNow, InOrder, Ordered
    <2> QED
      BY <2>2, <2>3
  <1>5. CASE Tick
    <2>1. sleepCnt = 0 /\ ~Wakes
      BY <1>1 DEF CalmLine, Wakes
    <2>2. UNCHANGED <<queue, rx, line, sleepCnt, muxOn, repeatCnt, lastResp, rxEvent,
                      archStatus, yesterdayOf>>
      BY <1>1, <1>5, <2>1 DEF Tick, CalmLine
    <2>3. CalmLine'
      BY <1>1, <2>2 DEF CalmLine
    <2> QED
      BY <2>2, <2>3 DEF QuietNow, InOrder, Ordered
  <1>6. CASE WebSave \/ WebRequestPeriod
    <2>1. queue' \in {<<Connect(1)>>, <<>>}
      BY <1>6 DEF WebSave, WebRequestPeriod, IrdaInit
    <2>2. /\ repeatCnt' = RepeatMax /\ muxOn' /\ line' = FALSE
          /\ UNCHANGED <<sleepCnt, archStatus, yesterdayOf>>
      BY <1>6 DEF WebSave, WebRequestPeriod, IrdaInit
    <2>3. /\ <<Connect(1)>> \in Seq({r \in Records : Late(r)})
          /\ <<>> \in Seq({r \in Records : Late(r)})
      BY LateMade
    <2>4. Ordered(queue')
      BY <2>1, <2>3, LateOrdered
    <2>5. queue' # <<>> => Head(queue').flag = "send"
      <3>1. Head(<<Connect(1)>>) = Connect(1) /\ Connect(1).flag = "send"
        BY DEF Connect, Record
      <3> QED
        BY <2>1, <3>1
    <2>6. CalmLine'
      BY <1>1, <2>2, <2>5 DEF CalmLine, HeadIs, InFlight
    <2> QED
      BY <2>2, <2>4, <2>6 DEF QuietNow, InOrder, Ordered
  <1>7. CASE MeterAnswers
    <2>1. UNCHANGED <<queue, archStatus, yesterdayOf>>
      BY <1>7 DEF MeterAnswers, archive
    <2> QED
      BY <1>1, <1>7, <2>1, MeterQuiet DEF QuietNow, InOrder, Ordered
  <1>8. CASE MeterMidnight \/ SessionExpires \/ UNCHANGED vars
    <2>1. UNCHANGED <<queue, rx, line, sleepCnt, muxOn, repeatCnt, lastResp, rxEvent,
                      archStatus, yesterdayOf>>
      BY <1>8 DEF MeterMidnight, SessionExpires, vars, driver, archive
    <2>2. CalmLine'
      BY <1>1, <2>1 DEF CalmLine
    <2> QED
      BY <2>1, <2>2 DEF QuietNow, InOrder, Ordered
  <1> QED
    BY <1>3, <1>4, <1>5, <1>6, <1>7, <1>8, RequestQuiet DEF Next

\* A disturbance is counted, and nothing else is.
LEMMA FaultsStep ==
  ASSUME IInv, [Next]_vars, faults' = MaxFaults
  PROVE  faults = MaxFaults /\ ~Disturbance
PROOF
  <1>1. faults \in 0..MaxFaults /\ MaxFaults \in Nat
    BY MercuryAssumption DEF IInv, RestOK, BudgetOK
  <1>2. ~Disturbance
    BY <1>1 DEF Disturbance
  <1>3. UartReceiveTimer => faults' = faults
    BY DEF UartReceiveTimer, TimerSend, JudgeOk, JudgeCustomFailed, JudgeRepeat,
           JudgeSleepUnconnected, JudgeDrop, CountError, DecodeNotConnected,
           DecodeCorrectedToday, DecodeStatus, DecodeNumber, DecodeOther, DecodeCurTime,
           DecodeCustom, Finish, budget
  <1>4. UartTask \/ RequestTimer \/ Tick \/ WebSendNow \/ WebReadArchive \/ WebTimeLog
          \/ WebSave \/ WebRequestPeriod => faults' = faults
    BY DEF UartTask, RequestTimer, Tick, WebSendNow, WebReadArchive, WebTimeLog, WebSave,
           WebRequestPeriod, IrdaInit, budget
  <1>5. MeterAnswers \/ MeterMidnight \/ SessionExpires \/ UNCHANGED vars => faults' = faults
    BY DEF MeterAnswers, MeterMidnight, SessionExpires, vars, budget
  <1> QED
    BY <1>2, <1>3, <1>4, <1>5 DEF Next

\* Unless a frame was disturbed, status 1 says that the archive was received:
\* however often the page starts it again, and whatever the meter refuses or
\* forgets, Yesterday was read before.  It takes a repetition: without one a
\* stray event left by irda_init makes the driver give up a request.
THEOREM ArchiveKept == Spec => [](RepeatMax > 0 => ArchiveComplete)
PROOF
  <1> DEFINE I == ArchiveInv /\ (RepeatMax > 0 => QuietInv)
  <1>1. Init => I
    <2> SUFFICES ASSUME Init PROVE QuietNow
      BY InitArchiveInv DEF QuietInv
    <2>1. queue = <<>> /\ \A fs : ~HeadIs(queue, fs)
      BY DEF Init, HeadIs
    <2>2. CalmLine
      BY <2>1 DEF Init, CalmLine
    <2>3. Ordered(queue)
      BY <2>1 DEF Ordered
    <2> QED
      BY <2>2, <2>3 DEF Init, QuietNow, InOrder
  <1>2. I /\ [Next]_vars => I'
    <2> SUFFICES ASSUME I, [Next]_vars, RepeatMax > 0, faults' = MaxFaults PROVE QuietNow'
      BY NextArchiveInv DEF QuietInv
    <2>1. faults = MaxFaults /\ ~Disturbance
      BY FaultsStep DEF ArchiveInv
    <2> QED
      BY <2>1, QuietStep DEF QuietInv
  <1>3. I => (RepeatMax > 0 => ArchiveComplete)
    BY DEF QuietInv, QuietNow, InOrder, ArchiveComplete
  <1> QED
    BY <1>1, <1>2, <1>3, PTL DEF Spec
=============================================================================
