---------------------------- MODULE MercuryProof ----------------------------
(***************************************************************************)
(* The queue of the driver of the meter, for every value of the constants. *)
(***************************************************************************)
EXTENDS Mercury, TLAPS

\* A queue that fits, of which only the head may be in flight or deleted.
WellFormed(q) ==
  /\ q \in Seq(Records)
  /\ Len(q) <= QueueMax
  /\ \A i \in 2..Len(q) : q[i].flag = "send"

\* Marking the head keeps the queue well formed.
LEMMA FlaggedWellFormed ==
  ASSUME NEW q, WellFormed(q), q # <<>>, NEW f \in Flags
  PROVE  /\ WellFormed(Flagged(q, f))
         /\ Flagged(q, f) # <<>>
         /\ Len(Flagged(q, f)) = Len(q)
         /\ Head(Flagged(q, f)) = [Head(q) EXCEPT !.flag = f]
         /\ Head(Flagged(q, f)).flag = f
         /\ Head(q) \in Records
PROOF
  <1> DEFINE g == Flagged(q, f)
  <1>1. Len(q) \in Nat /\ Len(q) >= 1 /\ q \in [1..Len(q) -> Records] /\ q[1] \in Records
    BY DEF WellFormed
  <1>2. [q[1] EXCEPT !.flag = f] \in Records
    BY <1>1 DEF Records
  <1>3. g = [i \in 1..Len(q) |-> IF i = 1 THEN [q[1] EXCEPT !.flag = f] ELSE q[i]]
    BY <1>1 DEF Flagged
  <1>4. g \in Seq(Records) /\ Len(g) = Len(q)
    BY <1>1, <1>2, <1>3
  <1>5. \A i \in 2..Len(q) : g[i] = q[i]
    BY <1>1, <1>3
  <1>6. g[1] = [q[1] EXCEPT !.flag = f] /\ g[1].flag = f
    BY <1>1, <1>3 DEF Records
  <1>7. Head(g) = g[1] /\ Head(q) = q[1] /\ g # <<>>
    BY <1>1, <1>4
  <1> QED
    BY <1>1, <1>4, <1>5, <1>6, <1>7 DEF WellFormed

\* Dropping a deleted head leaves a well-formed queue whose head is not deleted.
LEMMA DroppedWellFormed ==
  ASSUME NEW q, WellFormed(q)
  PROVE  /\ WellFormed(Dropped(q))
         /\ ~HeadIs(Dropped(q), {"deleted"})
PROOF
  <1>1. CASE HeadIs(q, {"deleted"})
    <2>1. Len(q) \in Nat /\ Len(q) >= 1 /\ q \in Seq(Records)
      BY <1>1 DEF WellFormed, HeadIs
    <2>2. /\ Tail(q) \in Seq(Records) /\ Len(Tail(q)) = Len(q) - 1
          /\ \A i \in 1..Len(q) - 1 : Tail(q)[i] = q[i + 1]
      BY <2>1
    <2>3. \A i \in 1..Len(q) - 1 : Tail(q)[i].flag = "send"
      <3> SUFFICES ASSUME NEW i \in 1..Len(q) - 1 PROVE Tail(q)[i].flag = "send"
        OBVIOUS
      <3>1. i + 1 \in 2..Len(q)
        BY <2>1
      <3> QED
        BY <3>1, <2>2 DEF WellFormed
    <2>4. WellFormed(Tail(q))
      BY <2>1, <2>2, <2>3, MercuryAssumption DEF WellFormed, QueueMax
    <2>5. ~HeadIs(Tail(q), {"deleted"})
      <3>1. ASSUME Tail(q) # <<>> PROVE Head(Tail(q)) = Tail(q)[1] /\ 1 \in 1..Len(q) - 1
        BY <2>1, <2>2, <3>1
      <3> QED
        BY <3>1, <2>3 DEF HeadIs
    <2> QED
      BY <1>1, <2>4, <2>5 DEF Dropped
  <1>2. CASE ~HeadIs(q, {"deleted"})
    BY <1>2 DEF Dropped
  <1> QED
    BY <1>1, <1>2

\* The result of pwmt_send_to_uart: the queue is well formed and its head is
\* not a deleted request.
LEMMA SendWellFormed ==
  ASSUME NEW q, WellFormed(q), NEW c, NEW cs, NEW r, NEW mux,
         SendToUart(q, c, cs, r, mux)
  PROVE  WellFormed(queue') /\ ~HeadIs(queue', {"deleted"})
PROOF
  <1> DEFINE d == Dropped(q)
  <1>1. WellFormed(d) /\ ~HeadIs(d, {"deleted"})
    BY DroppedWellFormed
  <1>2. CASE HeadIs(d, {"send"})
    <2>1. queue' = Flagged(d, "waiting")
      BY <1>2 DEF SendToUart
    <2>2. d # <<>> /\ "waiting" \in Flags
      BY <1>2 DEF HeadIs, Flags
    <2> HIDE DEF d
    <2>3. WellFormed(queue') /\ Head(queue').flag = "waiting"
      BY <1>1, <2>1, <2>2, FlaggedWellFormed
    <2> QED
      BY <2>3 DEF HeadIs
  <1>3. CASE ~HeadIs(d, {"send"})
    BY <1>1, <1>3 DEF SendToUart
  <1> QED
    BY <1>2, <1>3

\* Requests that wait to be sent, appended where there is room for all of them,
\* leave the queue well formed; the head is the one it was, if there was one.
LEMMA AppendedWellFormed ==
  ASSUME NEW q, WellFormed(q), NEW b \in Seq(Records),
         Len(b) <= Room(q), \A i \in 1..Len(b) : b[i].flag = "send"
  PROVE  /\ WellFormed(q \o b)
         /\ ~HeadIs(q, {"deleted"}) => ~HeadIs(q \o b, {"deleted"})
         /\ q # <<>> => Head(q \o b) = Head(q) /\ q \o b # <<>>
PROOF
  <1> DEFINE g == q \o b
  <1>1. Len(q) \in Nat /\ Len(b) \in Nat /\ q \in Seq(Records)
    BY DEF WellFormed
  <1>2. g \in Seq(Records) /\ Len(g) = Len(q) + Len(b)
    BY <1>1
  <1>3. Len(g) <= QueueMax
    BY <1>1, <1>2, MercuryAssumption DEF Room, WellFormed, QueueMax
  <1>4. \A i \in 1..Len(g) :
          g[i] = IF i <= Len(q) THEN q[i] ELSE b[i - Len(q)]
    BY <1>1, <1>2
  <1>5. ASSUME NEW i \in 2..Len(g) PROVE g[i].flag = "send"
    <2>1. CASE i <= Len(q)
      BY <1>1, <1>4, <2>1 DEF WellFormed
    <2>2. CASE i > Len(q)
      <3>1. i - Len(q) \in 1..Len(b) /\ i \in 1..Len(g)
        BY <1>1, <1>2, <2>2
      <3>2. g[i] = b[i - Len(q)]
        BY <1>1, <1>4, <2>2, <3>1
      <3> QED
        BY <3>1, <3>2
    <2> QED
      BY <1>1, <2>1, <2>2
  <1>6. ASSUME q # <<>> PROVE Head(g) = Head(q) /\ g # <<>>
    <2>1. Len(q) >= 1 /\ Len(g) >= 1
      BY <1>1, <1>2, <1>6
    <2>2. g[1] = q[1]
      BY <1>1, <1>4, <2>1
    <2> QED
      BY <1>1, <1>2, <2>1, <2>2
  <1>7. ASSUME ~HeadIs(q, {"deleted"}), g # <<>> PROVE Head(g).flag # "deleted"
    <2>1. CASE q # <<>>
      BY <1>6, <1>7, <2>1 DEF HeadIs
    <2>2. CASE q = <<>>
      <3>1. g = b
        BY <2>2
      <3>2. Len(b) >= 1 /\ Head(b) = b[1]
        BY <1>7, <3>1
      <3> QED
        BY <1>1, <3>1, <3>2
    <2> QED
      BY <2>1, <2>2
  <1> QED
    BY <1>2, <1>3, <1>5, <1>6, <1>7 DEF WellFormed, HeadIs

----------------------------------------------------------------------------
(* What the operators that fill the queue make of it.                      *)

\* r is q with requests that wait to be sent behind it.
Filled(q, r) ==
  /\ WellFormed(r)
  /\ ~HeadIs(q, {"deleted"}) => ~HeadIs(r, {"deleted"})
  /\ q # <<>> => r # <<>> /\ Head(r) = Head(q)

\* Filling a queue with nothing, or twice, is filling it.
LEMMA FilledChain ==
  /\ \A q : WellFormed(q) => Filled(q, q)
  /\ \A q, r, s : Filled(q, r) /\ Filled(r, s) => Filled(q, s)
PROOF
  BY DEF Filled

\* The requests the driver makes are records of the queue.
LEMMA RecordsMade ==
  /\ \A v \in Int : Number(v) \in Records /\ Number(v).flag = "send"
  /\ \A u \in 1..2 : Connect(u) \in Records /\ Connect(u).flag = "send"
  /\ \A z \in 0..1 : SetTime(z) \in Records /\ SetTime(z).flag = "send"
  /\ \A t \in Types, v \in Int :
       Record(t, v, 0) \in Records /\ Record(t, v, 0).flag = "send"
PROOF
  <1>1. NoVar \in Int /\ "send" \in Flags /\ {"CONNECT", "NUMBER", "SETTIME"} \subseteq Types
    BY MercuryAssumption DEF NoVar, TimeArray, CurTime, Total, TotalT1, CurBase, Flags, Types
  <1> QED
    BY <1>1 DEF Number, Connect, SetTime, Record, Records

\* Two batches of requests that wait to be sent are one such batch.
LEMMA WaitingConcat ==
  ASSUME NEW a \in Seq(Records), \A i \in 1..Len(a) : a[i].flag = "send",
         NEW b \in Seq(Records), \A i \in 1..Len(b) : b[i].flag = "send"
  PROVE  /\ a \o b \in Seq(Records) /\ Len(a \o b) = Len(a) + Len(b)
         /\ \A i \in 1..Len(a \o b) : (a \o b)[i].flag = "send"
PROOF
  <1>1. Len(a) \in Nat /\ Len(b) \in Nat
    OBVIOUS
  <1>2. /\ a \o b \in Seq(Records) /\ Len(a \o b) = Len(a) + Len(b)
        /\ \A i \in 1..Len(a) + Len(b) :
             (a \o b)[i] = IF i <= Len(a) THEN a[i] ELSE b[i - Len(a)]
    BY <1>1
  <1>3. ASSUME NEW i \in 1..Len(a) + Len(b) PROVE (a \o b)[i].flag = "send"
    <2>1. CASE i <= Len(a)
      BY <1>1, <1>2, <2>1
    <2>2. CASE i > Len(a)
      <3>1. i - Len(a) \in 1..Len(b)
        BY <1>1, <2>2
      <3> QED
        BY <1>1, <1>2, <2>2, <3>1
    <2> QED
      BY <1>1, <2>1, <2>2
  <1> QED
    BY <1>2, <1>3

\* Appending a batch that fits fills the queue.
LEMMA BatchFills ==
  ASSUME NEW q, WellFormed(q), NEW b \in Seq(Records),
         Len(b) <= Room(q), \A i \in 1..Len(b) : b[i].flag = "send"
  PROVE  Filled(q, q \o b)
PROOF
  BY AppendedWellFormed DEF Filled

\* pwmt_connect.
LEMMA PushConnectFills ==
  ASSUME NEW q, WellFormed(q), NEW u \in 1..2
  PROVE  Filled(q, PushConnect(q, u))
PROOF
  <1> DEFINE b == <<Connect(u)>>
  <1>1. CASE Room(q) = 0
    BY <1>1, FilledChain DEF PushConnect
  <1>2. CASE Room(q) # 0
    <2>1. b \in Seq(Records) /\ Len(b) = 1 /\ b[1].flag = "send"
      BY RecordsMade
    <2>2. Room(q) >= 1
      BY <1>2, MercuryAssumption DEF Room, QueueMax, WellFormed
    <2>3. PushConnect(q, u) = q \o b
      BY <1>2 DEF PushConnect, WellFormed
    <2> HIDE DEF b
    <2>4. \A i \in 1..Len(b) : b[i].flag = "send"
      BY <2>1
    <2> QED
      BY <2>1, <2>2, <2>3, <2>4, BatchFills
  <1> QED
    BY <1>1, <1>2

\* pwmt_read_current.
LEMMA ReadCurrentFills ==
  ASSUME NEW q, WellFormed(q)
  PROVE  Filled(q, ReadCurrent(q))
PROOF
  <1> DEFINE a == [i \in 1..CurrentNumbers + 2 |-> Number(CurBase + i - 1)]
             z == <<Record("CURTIME", CurTime, 0)>>
  <1>1. /\ CurrentNumbers + 2 \in Nat /\ CurTime \in Int /\ "CURTIME" \in Types
        /\ \A i \in 1..CurrentNumbers + 2 : CurBase + i - 1 \in Int
    BY MercuryAssumption DEF CurTime, Total, TotalT1, CurBase, Types
  <1>2. /\ a \in Seq(Records) /\ Len(a) = CurrentNumbers + 2
        /\ \A i \in 1..Len(a) : a[i].flag = "send"
    BY <1>1, RecordsMade
  <1>3. z \in Seq(Records) /\ Len(z) = 1 /\ \A i \in 1..Len(z) : z[i].flag = "send"
    BY <1>1, RecordsMade
  <1> HIDE DEF a, z
  <1>4. /\ a \o z \in Seq(Records) /\ Len(a \o z) = Len(a) + 1
        /\ \A i \in 1..Len(a \o z) : (a \o z)[i].flag = "send"
    BY <1>2, <1>3, WaitingConcat
  <1>6. CurrentArray = a \o z
    BY DEF CurrentArray, a, z
  <1>7. CASE Room(q) < Len(CurrentArray)
    BY <1>7, FilledChain DEF ReadCurrent
  <1>8. CASE ~(Room(q) < Len(CurrentArray))
    <2>1. Len(CurrentArray) <= Room(q)
      BY <1>1, <1>2, <1>4, <1>6, <1>8, MercuryAssumption DEF Room, QueueMax, WellFormed
    <2> QED
      BY <1>4, <1>6, <1>8, <2>1, BatchFills DEF ReadCurrent
  <1> QED
    BY <1>7, <1>8

\* pwmt_read_archive, whatever state the reading of the archive is in.
LEMMA ReadArchiveFills ==
  ASSUME NEW q, WellFormed(q), NEW st \in Nat
  PROVE  Filled(q, ReadArchive(q, st))
PROOF
  <1>1. ArchBuf \in Nat /\ ArchBuf >= 6 /\ Quarter \in Int /\ Room(q) \in Int
    BY MercuryAssumption DEF Quarter, Room, QueueMax, WellFormed
  <1>2. \A t \in {0, 1} :
          /\ YearPortion(t) \in Seq(Records) /\ Len(YearPortion(t)) = 6
          /\ \A i \in 1..6 : YearPortion(t)[i].flag = "send"
    <2> TAKE t \in {0, 1}
    <2>1. /\ PrevYear + t \in Int /\ Yesterday + t \in Int /\ PrevMonth + t \in Int
          /\ ThisMonth + t \in Int /\ ThisYear + t \in Int /\ Today + t \in Int
      BY DEF PrevYear, Yesterday, PrevMonth, ThisMonth, ThisYear, Today
    <2>2. /\ Number(PrevYear + t) \in Records /\ Number(PrevYear + t).flag = "send"
          /\ Number(Yesterday + t) \in Records /\ Number(Yesterday + t).flag = "send"
          /\ Number(PrevMonth + t) \in Records /\ Number(PrevMonth + t).flag = "send"
          /\ Number(ThisMonth + t) \in Records /\ Number(ThisMonth + t).flag = "send"
          /\ Number(ThisYear + t) \in Records /\ Number(ThisYear + t).flag = "send"
          /\ Number(Today + t) \in Records /\ Number(Today + t).flag = "send"
      BY <2>1, RecordsMade
    <2> QED
      BY <2>2 DEF YearPortion
  <1>3. /\ MonthPortion(st) \in Seq(Records) /\ Len(MonthPortion(st)) = ArchBuf
        /\ \A i \in 1..ArchBuf : MonthPortion(st)[i].flag = "send"
    <2> DEFINE v(i) == Month((st - 4) * Quarter + ((i - 1) \div 2)) + ((i - 1) % 2)
    <2>1. \A i \in 1..ArchBuf : v(i) \in Int
      <3> SUFFICES ASSUME NEW i \in 1..ArchBuf PROVE v(i) \in Int
        OBVIOUS
      <3>1. (st - 4) * Quarter \in Int /\ (i - 1) \div 2 \in Int /\ (i - 1) % 2 \in Int
        BY <1>1
      <3> QED
        BY <3>1 DEF Month
    <2> HIDE DEF v
    <2>2. \A i \in 1..ArchBuf : Number(v(i)) \in Records /\ Number(v(i)).flag = "send"
      BY <2>1, RecordsMade
    <2>3. MonthPortion(st) = [i \in 1..ArchBuf |-> Number(v(i))]
      BY DEF MonthPortion, v
    <2> QED
      BY <1>1, <2>2, <2>3
  <1>4. CASE Room(q) < ArchBuf \/ day = 0 \/ (day = dayRead /\ st < 2)
    BY <1>4, FilledChain DEF ReadArchive
  <1>5. CASE ~(Room(q) < ArchBuf \/ day = 0 \/ (day = dayRead /\ st < 2))
    <2>1. ArchBuf <= Room(q)
      BY <1>1, <1>5
    <2>2. ASSUME NEW t \in {0, 1} PROVE Filled(q, q \o YearPortion(t))
      <3> Len(YearPortion(t)) = 6
        BY <1>2
      <3>1. Len(YearPortion(t)) <= Room(q)
        BY <1>1, <2>1
      <3>2. \A i \in 1..Len(YearPortion(t)) : YearPortion(t)[i].flag = "send"
        BY <1>2
      <3> QED
        BY <1>2, <3>1, <3>2, BatchFills
    <2>3. Filled(q, q \o MonthPortion(st))
      BY <1>1, <1>3, <2>1, BatchFills
    <2> QED
      BY <1>5, <2>2, <2>3 DEF ReadArchive
  <1> QED
    BY <1>4, <1>5

\* pwmt_read_time_array fills what room there is.
LEMMA TimeRequestsFill ==
  ASSUME NEW q, WellFormed(q)
  PROVE  Filled(q, q \o TimeRequests(q))
PROOF
  <1> DEFINE n == IF Room(q) < TimeRecs THEN Room(q) ELSE TimeRecs
  <1>1. n \in Nat /\ n <= Room(q) /\ TimeArray \in Int /\ "TIME" \in Types
    BY MercuryAssumption
       DEF Room, WellFormed, QueueMax, TimeArray, CurTime, Total, TotalT1, CurBase, Types
  <1>2. /\ Record("TIME", TimeArray, 0) \in Records
        /\ Record("TIME", TimeArray, 0).flag = "send"
    BY <1>1, RecordsMade
  <1>3. TimeRequests(q) = [i \in 1..n |-> Record("TIME", TimeArray, 0)]
    BY DEF TimeRequests
  <1> HIDE DEF n
  <1>4. /\ TimeRequests(q) \in Seq(Records) /\ Len(TimeRequests(q)) = n
        /\ \A i \in 1..n : TimeRequests(q)[i].flag = "send"
    BY <1>1, <1>2, <1>3
  <1> QED
    BY <1>1, <1>4, BatchFills

\* The correction of the meter's clock.
LEMMA ClockCorrectionFills ==
  ASSUME NEW q, WellFormed(q), NEW c \in ClockCorrections(q)
  PROVE  Filled(q, q \o c)
PROOF
  <1>1. /\ SetTime(0) \in Records /\ SetTime(0).flag = "send"
        /\ SetTime(1) \in Records /\ SetTime(1).flag = "send"
        /\ Connect(1) \in Records /\ Connect(1).flag = "send"
        /\ Connect(2) \in Records /\ Connect(2).flag = "send"
    BY RecordsMade
  <1>2. /\ <<SetTime(0)>> \in Seq(Records) /\ Len(<<SetTime(0)>>) = 1
        /\ \A i \in 1..1 : <<SetTime(0)>>[i].flag = "send"
    BY <1>1
  <1> DEFINE b == <<Connect(2), SetTime(1), Connect(1)>>
  <1>3. b \in Seq(Records) /\ Len(b) = 3 /\ \A i \in 1..3 : b[i].flag = "send"
    BY <1>1
  <1>4. Room(q) \in Int
    BY MercuryAssumption DEF Room, WellFormed, QueueMax
  <1>5. CASE c = <<>>
    BY <1>5, FilledChain DEF WellFormed
  <1>6. CASE c = <<SetTime(0)>> /\ Room(q) >= Len(c)
    BY <1>2, <1>4, <1>6, BatchFills
  <1>7. CASE c = b /\ Room(q) >= Len(c)
    BY <1>3, <1>4, <1>7, BatchFills
  <1> QED
    BY <1>5, <1>6, <1>7 DEF ClockCorrections

----------------------------------------------------------------------------
(* The queue stays well formed.                                            *)
QueueInv == WellFormed(queue) /\ NoDeadHead

\* The head of a queue with a flag, and the flags the driver sets.
LEMMA HeadFlags ==
  /\ \A fs : HeadIs(queue, fs) => queue # <<>>
  /\ {"deleted", "send", "waiting", "reading", "ready"} = Flags
PROOF
  BY DEF HeadIs, Flags

\* Deleting the head of a well-formed queue and sending the next request.
LEMMA DeleteAndSend ==
  ASSUME NEW q, WellFormed(q), q # <<>>, NEW c, NEW cs, NEW r, NEW mux,
         SendToUart(Flagged(q, "deleted"), c, cs, r, mux)
  PROVE  WellFormed(queue') /\ ~HeadIs(queue', {"deleted"})
PROOF
  <1>1. WellFormed(Flagged(q, "deleted"))
    BY FlaggedWellFormed, HeadFlags
  <1> QED
    BY <1>1, SendWellFormed

\* Marking the head as anything but deleted.
LEMMA MarkHead ==
  ASSUME NEW q, WellFormed(q), q # <<>>, NEW f \in Flags \ {"deleted"}
  PROVE  WellFormed(Flagged(q, f)) /\ ~HeadIs(Flagged(q, f), {"deleted"})
PROOF
  BY FlaggedWellFormed DEF HeadIs

\* Every step keeps the queue well formed and an awake driver's head alive.
LEMMA QueueStep ==
  ASSUME QueueInv, sleepCnt \in Nat, archStatus \in Nat, [Next]_vars
  PROVE  QueueInv'
PROOF
  <1> USE DEF QueueInv
  <1>a. WellFormed(queue) /\ (sleepCnt = 0 => ~HeadIs(queue, {"deleted"}))
    BY DEF NoDeadHead
  <1>b. SUFFICES WellFormed(queue') /\ (sleepCnt' = 0 => ~HeadIs(queue', {"deleted"}))
    BY DEF NoDeadHead, HeadIs, WellFormed, QueueMax
  <1>c. \A q : WellFormed(q) => Filled(q, q)
    BY FilledChain
  <1>1. CASE TimerSend
    BY <1>1, <1>a, SendWellFormed DEF TimerSend
  <1>2. CASE JudgeOk
    <2>1. queue # <<>> /\ queue' = Flagged(queue, "ready")
      BY <1>2, HeadFlags DEF JudgeOk, Judged, Awake
    <2> QED
      BY <2>1, <1>a, MarkHead, HeadFlags
  <1>3. CASE JudgeCustomFailed
    <2>1. queue # <<>>
      BY <1>3, HeadFlags DEF JudgeCustomFailed, Judged, Awake
    <2> QED
      BY <2>1, <1>3, <1>a, DeleteAndSend DEF JudgeCustomFailed
  <1>4. CASE JudgeRepeat
    <2>1. queue # <<>> /\ queue' = Flagged(queue, "send")
      BY <1>4, HeadFlags DEF JudgeRepeat, CountError, Judged, Awake
    <2> QED
      BY <2>1, <1>a, MarkHead, HeadFlags
  <1>5. CASE JudgeSleepUnconnected
    <2>1. queue' = queue /\ sleepCnt' # 0
      BY <1>5 DEF JudgeSleepUnconnected, MustSleep, FallAsleep
    <2> QED
      BY <2>1, <1>a
  <1>6. CASE JudgeDrop
    <2>1. queue # <<>>
      BY <1>6, HeadFlags DEF JudgeDrop, CountError, Judged, Awake
    <2>2. CASE MustSleep
      <3>1. queue' = Flagged(queue, "deleted") /\ sleepCnt' # 0
        BY <1>6, <2>2 DEF JudgeDrop, MustSleep, FallAsleep
      <3> QED
        BY <2>1, <3>1, <1>a, FlaggedWellFormed, HeadFlags
    <2>3. CASE ~MustSleep
      BY <1>6, <2>1, <2>3, <1>a, DeleteAndSend DEF JudgeDrop
    <2> QED
      BY <2>2, <2>3
  <1>7. ASSUME UartReceiveTimer, Decoding
        PROVE  WellFormed(queue') /\ ~HeadIs(queue', {"deleted"})
    <2>1. queue # <<>> /\ Filled(queue, queue)
      BY <1>7, <1>a, <1>c, HeadFlags DEF Decoding, Awake
    <2>2. ASSUME NEW q, NEW c, NEW cs, WellFormed(q), q # <<>>, Finish(q, c, cs)
          PROVE  WellFormed(queue') /\ ~HeadIs(queue', {"deleted"})
      BY <2>2, DeleteAndSend DEF Finish
    <2>3. ASSUME NEW q, NEW c, NEW cs, Filled(queue, q), Finish(q, c, cs)
          PROVE  WellFormed(queue') /\ ~HeadIs(queue', {"deleted"})
      BY <2>1, <2>2, <2>3 DEF Filled
    <2>4. CASE DecodeNotConnected
      <3> DEFINE q == <<Head(queue), Connect(1)>>
      <3>1. Head(queue) \in Records
        BY <2>1, <1>a DEF WellFormed
      <3>2. Connect(1) \in Records /\ Connect(1).flag = "send"
        BY RecordsMade
      <3>3. /\ q \in Seq(Records) /\ Len(q) = 2 /\ q # <<>>
            /\ \A i \in 2..2 : q[i].flag = "send"
        BY <3>1, <3>2
      <3> HIDE DEF q
      <3>4. WellFormed(q)
        BY <3>3, MercuryAssumption DEF WellFormed, QueueMax
      <3>5. Finish(q, conn, cmdStatus)
        BY <2>4 DEF DecodeNotConnected, q
      <3> QED
        BY <2>2, <3>3, <3>4, <3>5
    <2>5. CASE DecodeCorrectedToday
      BY <2>1, <2>3, <2>5 DEF DecodeCorrectedToday
    <2>6. CASE DecodeStatus
      BY <2>1, <2>3, <2>6 DEF DecodeStatus
    <2>7. CASE DecodeNumber
      <3> DEFINE st == NextStatus(Head(queue).var)
      <3>1. st \in Nat
        BY DEF NextStatus
      <3>2. Filled(queue, ReadArchive(queue, st))
        BY <3>1, <1>a, ReadArchiveFills
      <3>3. PICK q \in {queue, ReadArchive(queue, st)} : Finish(q, conn, cmdStatus)
        BY <2>7 DEF DecodeNumber
      <3> HIDE DEF st
      <3>4. Filled(queue, q)
        BY <3>2, <2>1
      <3> QED
        BY <3>3, <3>4, <2>3
    <2>8. CASE DecodeOther
      BY <2>1, <2>3, <2>8 DEF DecodeOther
    <2>9. CASE DecodeCurTime
      <3>1. PICK c \in ClockCorrections(queue) : Finish(queue \o c, conn, cmdStatus)
        BY <2>9 DEF DecodeCurTime
      <3>2. Filled(queue, queue \o c)
        BY <1>a, ClockCorrectionFills
      <3> QED
        BY <3>1, <3>2, <2>3
    <2>10. CASE DecodeCustom
      BY <2>1, <2>3, <2>10 DEF DecodeCustom
    <2>11. ~TimerSend /\ ~JudgeOk /\ ~JudgeCustomFailed /\ ~CountError
      BY <1>7 DEF Decoding, TimerSend, JudgeOk, JudgeCustomFailed, CountError,
                  Judged, Awake, HeadIs
    <2> QED
      BY <1>7, <2>4, <2>5, <2>6, <2>7, <2>8, <2>9, <2>10, <2>11
         DEF UartReceiveTimer, JudgeRepeat, JudgeSleepUnconnected, JudgeDrop
  <1>8. CASE UartReceiveTimer
    <2>1. DecodeNotConnected \/ DecodeCorrectedToday \/ DecodeStatus \/ DecodeNumber
            \/ DecodeOther \/ DecodeCurTime \/ DecodeCustom => Decoding
      BY DEF DecodeNotConnected, DecodeCorrectedToday, DecodeStatus, DecodeNumber,
             DecodeOther, DecodeCurTime, DecodeCustom, StatusAnswer, DataAnswer
    <2> QED
      BY <1>1, <1>2, <1>3, <1>4, <1>5, <1>6, <1>7, <1>8, <2>1 DEF UartReceiveTimer
  <1>9. CASE UartTask
    <2>1. CASE HeadIs(queue, {"waiting", "reading"})
      <3>1. queue # <<>> /\ queue' = Flagged(queue, "reading")
        BY <1>9, <2>1, HeadFlags DEF UartTask
      <3> QED
        BY <3>1, <1>a, MarkHead, HeadFlags
    <2>2. CASE ~HeadIs(queue, {"waiting", "reading"})
      BY <1>9, <2>2, <1>a DEF UartTask, driver
    <2> QED
      BY <2>1, <2>2
  <1>10. CASE RequestTimer
    <2> DEFINE connect == \/ queue = <<>> /\ conn = "NotConnected"
                          \/ lastResp = 6 /\ conn # "Connecting"
               q1 == IF connect THEN PushConnect(queue, 1) ELSE queue
               q2 == ReadArchive(q1, archStatus)
               q3 == ReadCurrent(q2)
    <2>1. Filled(queue, q1)
      BY <1>a, <1>c, PushConnectFills
    <2>2. Filled(q1, q2)
      BY <2>1, ReadArchiveFills DEF Filled
    <2>3. Filled(q2, q3)
      BY <2>2, ReadCurrentFills DEF Filled
    <2> HIDE DEF q1, q2, q3
    <2>4. Filled(queue, q3)
      BY <2>1, <2>2, <2>3, FilledChain
    <2>5. CASE queue = <<>>
      <3>1. SendToUart(q3, conn, cmdStatus, rx, muxOn)
        BY <1>10, <2>5 DEF RequestTimer, q1, q2, q3
      <3> QED
        BY <2>4, <3>1, SendWellFormed DEF Filled
    <2>6. CASE queue # <<>>
      <3>1. queue' = q3 /\ sleepCnt' = sleepCnt
        BY <1>10, <2>6 DEF RequestTimer, q1, q2, q3
      <3> QED
        BY <2>4, <3>1, <1>a DEF Filled
    <2> QED
      BY <2>5, <2>6
  <1>11. CASE Tick
    <2>1. CASE Wakes
      <3>1. PICK q : /\ q = IF queue # <<>> /\ conn = "Connected"
                             THEN Flagged(queue, "deleted") ELSE queue
                     /\ SendToUart(q, conn, cmdStatus, rx, TRUE)
        BY <1>11, <2>1 DEF Tick
      <3>2. WellFormed(q)
        BY <3>1, <1>a, FlaggedWellFormed, HeadFlags
      <3> QED
        BY <3>1, <3>2, SendWellFormed
    <2>2. CASE ~Wakes
      <3>1. queue' = queue /\ (sleepCnt' = 0 => sleepCnt = 0)
        BY <1>11, <2>2 DEF Tick, Wakes
      <3> QED
        BY <3>1, <1>a
    <2> QED
      BY <2>1, <2>2
  <1>12. CASE WebSendNow
    <2>1. PICK empty \in BOOLEAN :
            LET q == IF empty THEN queue ELSE Append(queue, Record("STR", NoVar, 0))
            IN  IF Len(q) = 1 THEN SendToUart(q, conn, cmdStatus, rx, muxOn)
                ELSE queue' = q
      BY <1>12 DEF WebSendNow
    <2> DEFINE b == <<Record("STR", NoVar, 0)>>
               q == IF empty THEN queue ELSE queue \o b
    <2>2. NoVar \in Int /\ "STR" \in Types
      BY MercuryAssumption DEF NoVar, TimeArray, CurTime, Total, TotalT1, CurBase, Types
    <2>3. b \in Seq(Records) /\ Len(b) = 1 /\ \A i \in 1..Len(b) : b[i].flag = "send"
      BY <2>2, RecordsMade
    <2>4. Len(b) <= Room(queue)
      BY <1>12, <1>a, <2>3, MercuryAssumption DEF WebSendNow, Room, WellFormed, QueueMax
    <2>5. queue \o b = Append(queue, Record("STR", NoVar, 0))
      BY <1>a DEF WellFormed
    <2> HIDE DEF b
    <2>6. Filled(queue, q)
      BY <2>3, <2>4, <1>a, <1>c, BatchFills
    <2>7. IF Len(q) = 1 THEN SendToUart(q, conn, cmdStatus, rx, muxOn) ELSE queue' = q
      BY <2>1, <2>5
    <2>8. sleepCnt' = sleepCnt
      BY <1>12 DEF WebSendNow
    <2> HIDE DEF q
    <2>9. CASE Len(q) = 1
      BY <2>6, <2>7, <2>9, SendWellFormed DEF Filled
    <2>10. CASE Len(q) # 1
      BY <2>6, <2>7, <2>8, <2>10, <1>a DEF Filled
    <2> QED
      BY <2>9, <2>10
  <1>13. CASE WebReadArchive
    <2>1. Filled(queue, ReadArchive(queue, 2))
      BY <1>a, ReadArchiveFills
    <2> QED
      BY <1>13, <2>1, <1>a DEF WebReadArchive, Filled, driver
  <1>14. CASE WebTimeLog
    <2>1. Filled(queue, queue \o TimeRequests(queue))
      BY <1>a, TimeRequestsFill
    <2> QED
      BY <1>14, <2>1, SendWellFormed DEF WebTimeLog, Filled
  <1>15. CASE WebSave \/ WebRequestPeriod
    <2>1. Connect(1) \in Records /\ Connect(1).flag = "send"
      BY RecordsMade
    <2>2. queue' = <<Connect(1)>> \/ queue' = <<>>
      BY <1>15 DEF WebSave, WebRequestPeriod, IrdaInit
    <2>3. CASE queue' = <<Connect(1)>>
      <3>1. queue' \in Seq(Records) /\ Len(queue') = 1 /\ Head(queue') = Connect(1)
        BY <2>1, <2>3
      <3> QED
        BY <2>1, <3>1, MercuryAssumption DEF WellFormed, HeadIs, QueueMax
    <2>4. CASE queue' = <<>>
      <3>1. queue' \in Seq(Records) /\ Len(queue') = 0
        BY <2>4
      <3> QED
        BY <2>4, <3>1, MercuryAssumption DEF WellFormed, HeadIs, QueueMax
    <2> QED
      BY <2>2, <2>3, <2>4
  <1>16. CASE MeterAnswers \/ Disturbance \/ MeterMidnight \/ SessionExpires \/ UNCHANGED vars
    <2>1. queue' = queue /\ sleepCnt' = sleepCnt
      BY <1>16 DEF MeterAnswers, Disturbance, MeterMidnight, SessionExpires, vars, driver
    <2> QED
      BY <2>1, <1>a
  <1> QED
    BY <1>8, <1>9, <1>10, <1>11, <1>12, <1>13, <1>14, <1>15, <1>16 DEF Next

----------------------------------------------------------------------------
(* The types of the other variables, in the groups their actions change.   *)
DriverOK ==
  /\ conn \in ConnectStatus
  /\ lastResp \in 0..7
  /\ cmdStatus \in 0..7 \cup {Waiting}
  /\ repeatCnt \in 0..RepeatMax
  /\ repErrors \in 0..ErrorsThr
  /\ halted \in BOOLEAN /\ muxOn \in BOOLEAN
  /\ sleepCnt \in 0..SleepMax

ArchiveOK ==
  /\ corrected \in BOOLEAN
  /\ day \in 0..MaxDay /\ dayRead \in 0..MaxDay
  /\ lastDay \in 0..MaxDay /\ yesterdayOf \in 0..MaxDay
  /\ archStatus \in Nat

LineOK ==
  /\ rx \in Frames /\ rxEvent \in BOOLEAN /\ line \in BOOLEAN
  /\ session \in Sessions /\ meterDay \in 1..MaxDay

BudgetOK == faults \in 0..MaxFaults /\ webs \in 0..MaxWeb /\ overlaps \in 0..MaxOverlaps

RestOK == DriverOK /\ ArchiveOK /\ LineOK /\ BudgetOK

HeadTyped == queue # <<>> => Head(queue).type \in Types

\* Sending changes these variables to values of their types.
LEMMA SendTypes ==
  ASSUME NEW q, NEW c \in ConnectStatus, NEW cs \in 0..7 \cup {Waiting}, NEW r \in Frames,
         NEW mux \in BOOLEAN, line \in BOOLEAN, SendToUart(q, c, cs, r, mux)
  PROVE  /\ conn' \in ConnectStatus /\ cmdStatus' \in 0..7 \cup {Waiting}
         /\ rx' \in Frames /\ line' \in BOOLEAN
PROOF
  <1>1. NoBytes \in Frames
    BY DEF NoBytes, Frames, StatusCodes
  <1> QED
    BY <1>1 DEF SendToUart, ConnectStatus

\* The mark of a correction is a boolean whatever is sent.
LEMMA CorrectedType ==
  ASSUME NEW q, NEW cor \in BOOLEAN, corrected' \in CorrectedBySend(q, cor)
  PROVE  corrected' \in BOOLEAN
PROOF
  BY DEF CorrectedBySend

\* What the meter answers is a frame.
LEMMA AnswerFrames ==
  ASSUME NEW r, r.type \in Types, NEW a \in Answers(r)
  PROVE  a \in Frames
PROOF
  <1>1. /\ \A c \in 0..5 : Reply(c) \in Frames
        /\ DataFrame \in Frames /\ Garbled \in Frames
    BY DEF Reply, DataFrame, Garbled, Frames, StatusCodes
  <1>2. \A c \in Refusals : c \in 0..5
    BY MercuryAssumption
  <1> QED
    BY <1>1, <1>2 DEF Answers, Types

\* A judged answer: the error counters stay below their limits.
LEMMA CountErrorTypes ==
  ASSUME RestOK, CountError
  PROVE  /\ lastResp' \in 0..7 /\ repErrors' \in 0..ErrorsThr /\ halted' \in BOOLEAN
         /\ UNCHANGED <<archStatus, day, dayRead, lastDay, yesterdayOf, rxEvent,
                        session, meterDay, faults, webs, overlaps>>
PROOF
  BY MercuryAssumption
     DEF CountError, RestOK, DriverOK, NextErrors, FailCode, meter, budget

\* Every step keeps the types of the variables other than the queue.
LEMMA TypeStep ==
  ASSUME HeadTyped, RestOK, [Next]_vars
  PROVE  RestOK'
PROOF
  <1>n. /\ RepeatMax \in Nat /\ SleepMax \in Nat /\ ErrorsThr \in Nat
        /\ MaxFaults \in Nat /\ MaxWeb \in Nat /\ MaxOverlaps \in Nat
        /\ MaxDay \in Nat /\ MaxDay >= 1 /\ FaultFrames \subseteq Frames
    BY MercuryAssumption
  <1> USE <1>n
  <1>a. /\ conn \in ConnectStatus /\ cmdStatus \in 0..7 \cup {Waiting} /\ rx \in Frames
        /\ muxOn \in BOOLEAN /\ line \in BOOLEAN /\ corrected \in BOOLEAN
        /\ lastResp \in 0..7 /\ RepeatMax \in 0..RepeatMax /\ SleepMax \in 0..SleepMax
    <2>1. RepeatMax \in 0..RepeatMax /\ SleepMax \in 0..SleepMax
      OBVIOUS
    <2> QED
      BY <2>1 DEF RestOK, DriverOK, ArchiveOK, LineOK
  <1>s. ASSUME NEW q, NEW c \in ConnectStatus, NEW cs \in 0..7 \cup {Waiting},
               NEW mux \in BOOLEAN, SendToUart(q, c, cs, rx, mux)
        PROVE  /\ conn' \in ConnectStatus /\ cmdStatus' \in 0..7 \cup {Waiting}
               /\ rx' \in Frames /\ line' \in BOOLEAN
    BY <1>a, <1>s, SendTypes
  <1>1. CASE TimerSend
    <2>1. /\ conn' \in ConnectStatus /\ cmdStatus' \in 0..7 \cup {Waiting}
          /\ rx' \in Frames /\ line' \in BOOLEAN /\ corrected' \in BOOLEAN
      BY <1>1, <1>a, <1>s, CorrectedType DEF TimerSend
    <2> QED
      BY <1>1, <2>1 DEF TimerSend, RestOK, DriverOK, ArchiveOK, LineOK, BudgetOK, meter, budget
  <1>2. CASE JudgeOk
    <2>1. rx.code \in 0..5
      BY <1>a DEF Frames, StatusCodes
    <2> QED
      BY <1>2, <2>1 DEF JudgeOk, RestOK, DriverOK, ArchiveOK, LineOK, BudgetOK, archive,
                        meter, budget
  <1>3. CASE JudgeCustomFailed
    <2>1. FailCode \in 0..7
      BY DEF FailCode
    <2>2. /\ conn' \in ConnectStatus /\ cmdStatus' \in 0..7 \cup {Waiting}
          /\ rx' \in Frames /\ line' \in BOOLEAN /\ corrected' \in BOOLEAN
      BY <1>3, <1>a, <1>s, <2>1, CorrectedType DEF JudgeCustomFailed
    <2> QED
      BY <1>3, <2>1, <2>2
         DEF JudgeCustomFailed, RestOK, DriverOK, ArchiveOK, LineOK, BudgetOK, meter, budget
  <1>4. CASE JudgeRepeat
    <2>1. repeatCnt' \in 0..RepeatMax
      BY <1>4 DEF JudgeRepeat, RestOK, DriverOK
    <2> QED
      BY <1>4, <2>1, CountErrorTypes
         DEF JudgeRepeat, RestOK, DriverOK, ArchiveOK, LineOK, BudgetOK
  <1>5. CASE JudgeSleepUnconnected
    BY <1>5, <1>a, CountErrorTypes
       DEF JudgeSleepUnconnected, FallAsleep, RestOK, DriverOK, ArchiveOK, LineOK, BudgetOK
  <1>6. CASE JudgeDrop
    <2>1. CASE MustSleep
      BY <1>6, <2>1, <1>a, CountErrorTypes
         DEF JudgeDrop, FallAsleep, RestOK, DriverOK, ArchiveOK, LineOK, BudgetOK
    <2>2. CASE ~MustSleep
      <3>1. /\ conn' \in ConnectStatus /\ cmdStatus' \in 0..7 \cup {Waiting}
            /\ rx' \in Frames /\ line' \in BOOLEAN /\ corrected' \in BOOLEAN
            /\ sleepCnt' = sleepCnt /\ muxOn' = muxOn /\ repeatCnt' = RepeatMax
        BY <1>6, <2>2, <1>a, <1>s, CorrectedType DEF JudgeDrop
      <3> QED
        BY <1>6, <3>1, <1>a, CountErrorTypes
           DEF JudgeDrop, RestOK, DriverOK, ArchiveOK, LineOK, BudgetOK
    <2> QED
      BY <2>1, <2>2
  <1>7. ASSUME NEW q, NEW c \in ConnectStatus, NEW cs \in 0..7 \cup {Waiting}, Finish(q, c, cs)
        PROVE  DriverOK' /\ LineOK' /\ BudgetOK' /\ lastDay' = lastDay
    <2>1. /\ conn' \in ConnectStatus /\ cmdStatus' \in 0..7 \cup {Waiting}
          /\ rx' \in Frames /\ line' \in BOOLEAN
      BY <1>7, <1>a, <1>s DEF Finish
    <2> QED
      BY <1>7, <1>a, <2>1 DEF Finish, RestOK, DriverOK, LineOK, BudgetOK, meter, budget
  <1>8. CASE DecodeNotConnected
    <2>1. corrected' \in BOOLEAN
      BY <1>8, <1>a, CorrectedType DEF DecodeNotConnected, KeepCorrected
    <2> QED
      BY <1>8, <1>7, <1>a, <2>1 DEF DecodeNotConnected, KeepArchive, RestOK, ArchiveOK
  <1>9. CASE DecodeCorrectedToday
    BY <1>9, <1>7, <1>a DEF DecodeCorrectedToday, KeepArchive, RestOK, ArchiveOK
  <1>10. CASE DecodeStatus
    <2>1. corrected' \in BOOLEAN
      BY <1>10, <1>a, CorrectedType DEF DecodeStatus, KeepCorrected
    <2>2. PICK c \in ConnectStatus : Finish(queue, c, cmdStatus)
      BY <1>10, <1>a DEF DecodeStatus, ConnectStatus
    <2> QED
      BY <1>10, <1>7, <1>a, <2>1, <2>2 DEF DecodeStatus, KeepArchive, RestOK, ArchiveOK
  <1>11. CASE DecodeNumber
    <2>1. corrected' \in BOOLEAN
      BY <1>11, <1>a, CorrectedType DEF DecodeNumber, KeepCorrected
    <2>2. \E q : Finish(q, conn, cmdStatus)
      BY <1>11 DEF DecodeNumber
    <2>3. archStatus' \in Nat
      BY <1>11 DEF DecodeNumber, NextStatus, RestOK, ArchiveOK
    <2>4. dayRead' \in 0..MaxDay /\ yesterdayOf' \in 0..MaxDay /\ day' = day
      BY <1>11 DEF DecodeNumber, RestOK, ArchiveOK, LineOK
    <2> QED
      BY <1>7, <1>a, <2>1, <2>2, <2>3, <2>4 DEF RestOK, ArchiveOK
  <1>12. CASE DecodeOther
    <2>1. corrected' \in BOOLEAN
      BY <1>12, <1>a, CorrectedType DEF DecodeOther, KeepCorrected
    <2> QED
      BY <1>12, <1>7, <1>a, <2>1 DEF DecodeOther, KeepArchive, RestOK, ArchiveOK
  <1>13. CASE DecodeCurTime
    <2>1. corrected' \in BOOLEAN /\ \E q : Finish(q, conn, cmdStatus)
      BY <1>13, <1>a, CorrectedType DEF DecodeCurTime, KeepCorrected
    <2>2. day' \in 0..MaxDay
      BY <1>13 DEF DecodeCurTime, RestOK, LineOK
    <2> QED
      BY <1>13, <1>7, <1>a, <2>1, <2>2 DEF DecodeCurTime, KeepArchive, RestOK, ArchiveOK
  <1>14. CASE DecodeCustom
    <2>1. corrected' \in BOOLEAN
      BY <1>14, <1>a, CorrectedType DEF DecodeCustom, KeepCorrected
    <2> QED
      BY <1>14, <1>7, <1>a, <2>1 DEF DecodeCustom, KeepArchive, RestOK, ArchiveOK
  <1>15. CASE UartTask
    BY <1>15 DEF UartTask, RestOK, DriverOK, ArchiveOK, LineOK, BudgetOK, driver, archive,
                 meter, budget
  <1>16. CASE RequestTimer
    <2>1. /\ conn' \in ConnectStatus /\ cmdStatus' \in 0..7 \cup {Waiting}
          /\ rx' \in Frames /\ line' \in BOOLEAN /\ corrected' \in BOOLEAN
      <3>1. CASE queue = <<>>
        <4> DEFINE connect == \/ queue = <<>> /\ conn = "NotConnected"
                              \/ lastResp = 6 /\ conn # "Connecting"
                   q1 == IF connect THEN PushConnect(queue, 1) ELSE queue
                   q3 == ReadCurrent(ReadArchive(q1, archStatus))
        <4>1. /\ SendToUart(q3, conn, cmdStatus, rx, muxOn)
              /\ corrected' \in CorrectedBySend(q3, corrected)
          BY <1>16, <3>1 DEF RequestTimer
        <4> HIDE DEF q1, q3
        <4> QED
          BY <4>1, <1>a, <1>s, CorrectedType
      <3>2. CASE queue # <<>>
        BY <1>16, <1>a, <3>2 DEF RequestTimer
      <3> QED
        BY <3>1, <3>2
    <2>2. overlaps' \in 0..MaxOverlaps
      BY <1>16 DEF RequestTimer, RestOK, BudgetOK
    <2> QED
      BY <1>16, <2>1, <2>2 DEF RequestTimer, RestOK, DriverOK, ArchiveOK, LineOK, BudgetOK, meter
  <1>17. CASE Tick
    <2>1. /\ conn' \in ConnectStatus /\ cmdStatus' \in 0..7 \cup {Waiting}
          /\ rx' \in Frames /\ line' \in BOOLEAN
      BY <1>17, <1>a, <1>s DEF Tick
    <2>2. corrected' \in BOOLEAN
      BY <1>17, <1>a DEF Tick, CorrectedBySend
    <2>3. /\ sleepCnt' \in 0..SleepMax /\ muxOn' \in BOOLEAN /\ repeatCnt' \in 0..RepeatMax
      BY <1>17, <1>a DEF Tick, RestOK, DriverOK
    <2>4. day' \in 0..MaxDay /\ lastDay' \in 0..MaxDay
      BY <1>17 DEF Tick, RestOK, ArchiveOK, LineOK
    <2> QED
      BY <1>17, <2>1, <2>2, <2>3, <2>4
         DEF Tick, RestOK, DriverOK, ArchiveOK, LineOK, BudgetOK, meter, budget
  <1>18. CASE WebSendNow
    <2>1. /\ conn' \in ConnectStatus /\ cmdStatus' \in 0..7 \cup {Waiting}
          /\ rx' \in Frames /\ line' \in BOOLEAN /\ corrected' \in BOOLEAN
      <3>1. PICK empty \in BOOLEAN :
              LET q == IF empty THEN queue ELSE Append(queue, Record("STR", NoVar, 0))
              IN  IF Len(q) = 1
                  THEN /\ SendToUart(q, conn, cmdStatus, rx, muxOn)
                       /\ corrected' \in CorrectedBySend(q, corrected)
                  ELSE UNCHANGED <<conn, cmdStatus, rx, line, corrected>>
        BY <1>18 DEF WebSendNow
      <3> DEFINE q == IF empty THEN queue ELSE Append(queue, Record("STR", NoVar, 0))
      <3>2. CASE Len(q) = 1
        <4>1. SendToUart(q, conn, cmdStatus, rx, muxOn) /\ corrected' \in CorrectedBySend(q, corrected)
          BY <3>1, <3>2
        <4> HIDE DEF q
        <4> QED
          BY <4>1, <1>a, <1>s, CorrectedType
      <3>3. CASE Len(q) # 1
        <4>1. UNCHANGED <<conn, cmdStatus, rx, line, corrected>>
          BY <3>1, <3>3
        <4> QED
          BY <4>1, <1>a
      <3> QED
        BY <3>2, <3>3
    <2>2. webs' \in 0..MaxWeb
      BY <1>18 DEF WebSendNow, Web, RestOK, BudgetOK
    <2>3. /\ UNCHANGED <<lastResp, repeatCnt, repErrors, halted, sleepCnt, muxOn, day, archStatus,
                         dayRead, lastDay, yesterdayOf, rxEvent, session, meterDay, faults, overlaps>>
      BY <1>18 DEF WebSendNow, meter
    <2> QED
      BY <2>1, <2>2, <2>3 DEF RestOK, DriverOK, ArchiveOK, LineOK, BudgetOK
  <1>19. CASE WebReadArchive
    BY <1>19 DEF WebReadArchive, Web, RestOK, DriverOK, ArchiveOK, LineOK, BudgetOK, driver, meter
  <1>20. CASE WebTimeLog
    <2>1. /\ conn' \in ConnectStatus /\ cmdStatus' \in 0..7 \cup {Waiting}
          /\ rx' \in Frames /\ line' \in BOOLEAN /\ corrected' \in BOOLEAN
      <3>1. PICK q : /\ SendToUart(q, conn, cmdStatus, rx, muxOn)
                     /\ corrected' \in CorrectedBySend(q, corrected)
        BY <1>20 DEF WebTimeLog
      <3> QED
        BY <3>1, <1>a, <1>s, CorrectedType
    <2> QED
      BY <1>20, <2>1 DEF WebTimeLog, Web, RestOK, DriverOK, ArchiveOK, LineOK, BudgetOK, meter
  <1>21. CASE WebSave \/ WebRequestPeriod
    <2>1. session' \in Sessions
      BY <1>21 DEF WebSave, WebRequestPeriod, IrdaInit, SessionAfter, Sessions, RestOK, LineOK
    <2>2. "NotConnected" \in ConnectStatus /\ 0 \in 0..ErrorsThr
      BY DEF ConnectStatus
    <2>3. \E q : IrdaInit(q)
      BY <1>21 DEF WebSave, WebRequestPeriod
    <2>4. webs' \in 0..MaxWeb
      BY <1>21 DEF WebSave, WebRequestPeriod, Web, RestOK, BudgetOK
    <2>5. DriverOK'
      BY <1>a, <2>2, <2>3 DEF IrdaInit, RestOK, DriverOK
    <2>6. ArchiveOK' /\ LineOK' /\ BudgetOK'
      BY <2>1, <2>3, <2>4 DEF IrdaInit, RestOK, ArchiveOK, LineOK, BudgetOK
    <2> QED
      BY <2>5, <2>6 DEF RestOK
  <1>22. CASE MeterAnswers
    <2>1. PICK a \in Answers(Head(queue)) :
            /\ rx' = IF rx.n = 0 THEN a ELSE Garbled
            /\ session' = IF a = Reply(0) THEN SessionAfter(Head(queue)) ELSE session
      BY <1>22 DEF MeterAnswers
    <2>2. rx' \in Frames
      <3>1. queue # <<>>
        BY <1>22, HeadFlags DEF MeterAnswers
      <3>2. Head(queue).type \in Types
        BY <3>1 DEF HeadTyped
      <3> QED
        BY <2>1, <3>2, AnswerFrames DEF Garbled, Frames, StatusCodes
    <2>3. session' \in Sessions
      BY <2>1 DEF SessionAfter, Sessions, RestOK, LineOK
    <2> QED
      BY <1>22, <2>2, <2>3
         DEF MeterAnswers, RestOK, DriverOK, ArchiveOK, LineOK, BudgetOK, driver, archive, budget
  <1>23. CASE Disturbance
    <2>1. rx' \in Frames /\ rxEvent' \in BOOLEAN
      <3>1. PICK f \in FaultFrames \cup {rx} : rx' = f /\ rxEvent' = (rxEvent \/ f # rx)
        BY <1>23 DEF Disturbance
      <3>2. f \in Frames
        BY <1>a, <3>1
      <3> QED
        BY <3>1, <3>2 DEF RestOK, LineOK
    <2>2. session' \in Sessions
      BY <1>23 DEF Disturbance, SessionAfter, Sessions, RestOK, LineOK
    <2>3. /\ line' = FALSE /\ faults' \in 0..MaxFaults
          /\ UNCHANGED <<driver, archive, meterDay, webs, overlaps>>
      BY <1>23 DEF Disturbance, RestOK, BudgetOK
    <2>4. DriverOK' /\ ArchiveOK'
      BY <2>3 DEF RestOK, DriverOK, ArchiveOK, driver, archive
    <2>5. LineOK' /\ BudgetOK'
      BY <2>1, <2>2, <2>3 DEF RestOK, LineOK, BudgetOK
    <2> QED
      BY <2>4, <2>5 DEF RestOK
  <1>24. CASE MeterMidnight
    BY <1>24 DEF MeterMidnight, RestOK, DriverOK, ArchiveOK, LineOK, BudgetOK, driver, archive,
                 budget
  <1>25. CASE SessionExpires
    BY <1>25 DEF SessionExpires, RestOK, DriverOK, ArchiveOK, LineOK, BudgetOK, driver, archive,
                 budget, Sessions
  <1>26. CASE UNCHANGED vars
    BY <1>26 DEF vars, RestOK, DriverOK, ArchiveOK, LineOK, BudgetOK, driver, archive, meter,
                 budget
  <1> QED
    BY <1>1, <1>2, <1>3, <1>4, <1>5, <1>6, <1>8, <1>9, <1>10, <1>11, <1>12, <1>13, <1>14,
       <1>15, <1>16, <1>17, <1>18, <1>19, <1>20, <1>21, <1>22, <1>23, <1>24, <1>25, <1>26
       DEF Next, UartReceiveTimer

----------------------------------------------------------------------------
(* The theorems.                                                           *)
IInv == QueueInv /\ RestOK

\* The invariant holds in the initial state, ...
LEMMA InitIInv == Init => IInv
PROOF
  <1> SUFFICES ASSUME Init PROVE IInv
    OBVIOUS
  <1>1. queue = <<>> /\ queue \in Seq(Records) /\ Len(queue) = 0
    BY DEF Init
  <1>2. QueueInv
    <2>1. WellFormed(queue)
      BY <1>1, MercuryAssumption DEF WellFormed, QueueMax
    <2>2. NoDeadHead
      BY <1>1 DEF NoDeadHead, HeadIs
    <2> QED
      BY <2>1, <2>2 DEF QueueInv
  <1>3. RestOK
    <2>1. /\ conn = "NotConnected" /\ lastResp = 0 /\ cmdStatus = 0
          /\ repeatCnt = RepeatMax /\ repErrors = 0 /\ halted = FALSE
          /\ sleepCnt = 0 /\ muxOn = TRUE
          /\ corrected = FALSE /\ day = 0 /\ archStatus = 0 /\ dayRead = 0
          /\ lastDay = 0 /\ yesterdayOf = 0
          /\ rx = NoBytes /\ rxEvent = FALSE /\ line = FALSE
          /\ session = "closed" /\ meterDay = 1
          /\ faults = MaxFaults /\ webs = MaxWeb /\ overlaps = MaxOverlaps
      BY DEF Init
    <2>b. /\ halted \in BOOLEAN /\ muxOn \in BOOLEAN /\ corrected \in BOOLEAN
          /\ rxEvent \in BOOLEAN /\ line \in BOOLEAN
      BY <2>1, Zenon
    <2>2. DriverOK /\ ArchiveOK
      <3>1. RepeatMax \in 0..RepeatMax /\ 0 \in 0..ErrorsThr /\ 0 \in 0..SleepMax /\ 0 \in 0..MaxDay
        BY MercuryAssumption
      <3>2. "NotConnected" \in ConnectStatus
        BY DEF ConnectStatus
      <3> QED
        BY <2>1, <2>b, <3>1, <3>2 DEF DriverOK, ArchiveOK
    <2>3. NoBytes \in Frames
      BY DEF NoBytes, Frames, StatusCodes
    <2>4. LineOK
      BY <2>1, <2>3, <2>b, MercuryAssumption DEF LineOK, Sessions
    <2>5. BudgetOK
      BY <2>1, MercuryAssumption DEF BudgetOK
    <2> QED
      BY <2>2, <2>4, <2>5 DEF RestOK
  <1> QED
    BY <1>2, <1>3 DEF IInv

\* ... is kept by every step ...
LEMMA NextIInv == IInv /\ [Next]_vars => IInv'
PROOF
  <1> SUFFICES ASSUME IInv, [Next]_vars PROVE IInv'
    OBVIOUS
  <1>1. sleepCnt \in Nat /\ archStatus \in Nat
    BY MercuryAssumption DEF IInv, RestOK, DriverOK, ArchiveOK
  <1>2. HeadTyped
    <2>1. queue # <<>> => Head(queue) \in Records
      BY DEF IInv, QueueInv, WellFormed
    <2> QED
      BY <2>1 DEF HeadTyped, Records
  <1> QED
    BY <1>1, <1>2, QueueStep, TypeStep DEF IInv

\* ... and is what the properties follow from.
LEMMA IInvImplies == IInv => TypeOK /\ QueueFits /\ OnlyHeadInFlight /\ NoDeadHead
PROOF
  <1>1. IInv => queue \in Seq(Records) /\ QueueFits /\ OnlyHeadInFlight /\ NoDeadHead
    BY DEF IInv, QueueInv, WellFormed, QueueFits, OnlyHeadInFlight
  <1>2. IInv => DriverOK /\ ArchiveOK /\ LineOK /\ BudgetOK
    BY DEF IInv, RestOK
  <1>3. queue \in Seq(Records) /\ DriverOK /\ ArchiveOK /\ LineOK /\ BudgetOK => TypeOK
    BY DEF TypeOK, DriverOK, ArchiveOK, LineOK, BudgetOK
  <1> QED
    BY <1>1, <1>2, <1>3

\* The inductive invariant of the driver.
THEOREM DriverInvariant == Spec => []IInv
PROOF
  BY InitIInv, NextIInv, PTL DEF Spec

\* Type correctness: in particular the counters of repeats, errors and sleep
\* never leave their ranges.
THEOREM TypeCorrect == Spec => []TypeOK
PROOF
  BY DriverInvariant, IInvImplies, PTL

\* Whatever batches the timers, the answers and the web page queue, whatever
\* the sizes of the batches, nothing is written behind the end of uart_queue.
THEOREM QueueNeverOverflows == Spec => []QueueFits
PROOF
  BY DriverInvariant, IInvImplies, PTL

\* An answer can only be taken for the request at the head of the queue: no
\* other request is ever on the line.
THEOREM OneRequestOnTheLine == Spec => []OnlyHeadInFlight
PROOF
  BY DriverInvariant, IInvImplies, PTL

\* The queue is never blocked by a deleted request while the driver is awake.
THEOREM QueueNeverStalls == Spec => []NoDeadHead
PROOF
  BY DriverInvariant, IInvImplies, PTL
=============================================================================
