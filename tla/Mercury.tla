------------------------------ MODULE Mercury ------------------------------
(***************************************************************************)
(* The driver of the Mercury 230/231 power meter (app/user/mercury.c) and  *)
(* the meter at the other end of the IrDA link.                            *)
(*                                                                         *)
(* The driver owns one queue of requests.  Only the request at its head is *)
(* on the line; its flag says how far the exchange got.  Two timers, the   *)
(* task that receives the end-of-reception event, the one second tick and  *)
(* the web handlers all change the queue.  None of them pre-empts another, *)
(* so each is one action.                                                  *)
(*                                                                         *)
(* Time is abstracted: a test "dt >= timeout" may come out true as soon as *)
(* the model lets it, which is after the answer was lost for the answer    *)
(* timeout and at once for the short ones.  Values read from the meter are *)
(* abstracted to the word of pwmt_arch or pwmt_cur they are stored in.     *)
(***************************************************************************)
EXTENDS Integers, Sequences, FiniteSets

CONSTANTS
  CurrentNumbers, \* how many numeric requests precede Total_T1 in the current array
  ArchBuf,        \* PWMT_ARCHIVE_READ_BUF_SIZE
  NMonths,        \* months in pwmt_arch.Month
  TimeRecs,       \* records read by pwmt_read_time_array
  RepeatMax,      \* cfg_glo.pwmt_on_error_repeat_cnt
  SleepMax,       \* cfg_glo.sleep_after_series_errors, 0 = never sleep
  ErrorsThr,      \* cfg_glo.repeated_errors_thr
  Refusals,       \* status codes the meter may refuse a connect with
  FaultFrames,    \* what a disturbed line can leave in UART_Buffer
  SessionsExpire, \* whether the meter may close the channel by itself
  CorrectClock,   \* whether cfg_glo.TimeMaxMismatch and pwmt_address enable corrections
  WebCommands,    \* the web commands in use
  MaxFaults,      \* bound: disturbed exchanges in a behaviour
  MaxWeb,         \* bound: web commands in a behaviour
  MaxOverlaps,    \* bound: request periods that end before the queue is empty
  MaxDay,         \* bound: days the meter's calendar may reach
  MaxTrouble      \* bound: disturbances, commands, such periods and midnights together

StatusCodes == 0..5

\* UART_Buffer as the driver sees it: n counts its bytes (5 stands for more
\* than 4), ok says the CRC matches, code is byte 1.
Frames == [n : 0..5, ok : BOOLEAN, code : StatusCodes]
NoBytes   == [n |-> 0, ok |-> FALSE, code |-> 0]
Reply(c)  == [n |-> 4, ok |-> TRUE, code |-> c]
DataFrame == [n |-> 5, ok |-> TRUE, code |-> 0]
Garbled   == [n |-> 5, ok |-> FALSE, code |-> 0]
Truncated == [n |-> 2, ok |-> FALSE, code |-> 0]

QueueMax == ArchBuf + (CurrentNumbers + 3) + 1     \* UART_QUEUE_IDX_MAX
Quarter  == ArchBuf \div 2                         \* months per archive portion

ASSUME MercuryAssumption ==
  /\ CurrentNumbers \in Nat /\ TimeRecs \in Nat
  /\ ArchBuf \in Nat /\ ArchBuf >= 6 /\ ArchBuf % 2 = 0
  /\ NMonths \in Nat /\ NMonths > 0 /\ NMonths % (ArchBuf \div 2) = 0
  /\ RepeatMax \in Nat /\ SleepMax \in Nat /\ ErrorsThr \in Nat
  /\ Refusals \subseteq 1..3
  /\ FaultFrames \subseteq Frames
  /\ SessionsExpire \in BOOLEAN /\ CorrectClock \in BOOLEAN
  /\ WebCommands \subseteq {"send_now", "r_arch", "Tlog", "save", "req_period"}
  /\ MaxFaults \in Nat /\ MaxWeb \in Nat /\ MaxOverlaps \in Nat
  /\ MaxTrouble \in Nat
  /\ MaxDay \in Nat \ {0}

----------------------------------------------------------------------------
(* Words of pwmt_arch, in the order of PWMT_ARCHIVE; T1 values follow the  *)
(* all-tariff ones.  Words of pwmt_cur are numbered from CurBase.          *)
Today      == 2
Yesterday  == 4
ThisMonth  == 6
PrevMonth  == 8
ThisYear   == 10
PrevYear   == 12
Month(m)   == 14 + 2 * m        \* &Month[m][0], m = 0..NMonths-1
\* &Month[(Status-4)*Quarter + Quarter-1][1]: the word whose arrival ends the
\* portion of months; below Status 4 it is a word in front of Month.
LastOfPortionPlusOne(st) == Month((st - 4) * Quarter + Quarter) + 1  \* mutation: off by one

LastOfPortion(st) == Month((st - 4) * Quarter + Quarter - 1) + 1
CurBase    == 1000
TotalT1    == CurBase + CurrentNumbers
Total      == TotalT1 + 1
CurTime    == Total + 1
TimeArray  == CurTime + 1
NoVar      == TimeArray + 1

Types == {"CONNECT", "NUMBER", "TIME", "CURTIME", "STR", "SETTIME"}
Flags == {"deleted", "send", "waiting", "reading", "ready"}
InFlight == {"waiting", "reading", "ready"}
ConnectStatus == {"NotConnected", "Connecting", "Connected"}
Sessions == {"closed", "user", "admin"}
Waiting == 255                  \* 0xFF of pwmt_command_response_status

\* A queued request; arg is the user of a connect (1 user, 2 admin) and the
\* size field of a SETTIME (0 correct, 1 set).
Record(t, v, a) == [type |-> t, var |-> v, arg |-> a, flag |-> "send"]
Connect(user)   == Record("CONNECT", NoVar, user)
SetTime(size)   == Record("SETTIME", NoVar, size)
Number(v)       == Record("NUMBER", v, 0)
Records == [type : Types, var : Int, arg : 0..2, flag : Flags]

VARIABLES
  queue,      \* uart_queue[0 .. uart_queue_len-1]
  conn,       \* pwmt_connect_status
  lastResp,   \* pwmt_last_response
  cmdStatus,  \* pwmt_command_response_status
  repeatCnt,  \* pwmt_repeat_on_error_cnt
  repErrors,  \* pwmt_repeated_errors
  halted,     \* Fram_halted: the pins the external watchdog looks at are low
  sleepCnt,   \* sleep_after_errors_cnt
  muxOn,      \* the UART0 pins are connected to the UART
  corrected,  \* pwmt_time_was_corrected_today
  day,        \* pwmt_cur.Time / SECSPERDAY, 0 while Time is 0
  archStatus, \* pwmt_arch.Status
  dayRead,    \* pwmt_arch.DayLastRead
  lastDay,    \* fram_store.LastDay
  yesterdayOf,\* the meter's day on which pwmt_arch.Yesterday was read, 0 = never
  rx,         \* UART_Buffer and UART_Buffer_idx
  rxEvent,    \* a UART_RX_CHARS event is posted to uart_Task
  line,       \* a request is on the line and the meter has yet to answer
  session,    \* the meter's channel: closed or the access level it is open at
  meterDay,   \* the meter's calendar
  faults, webs, overlaps \* what is left of MaxFaults, MaxWeb and MaxOverlaps

driver == <<conn, lastResp, cmdStatus, repeatCnt, repErrors, halted, sleepCnt, muxOn>>
archive == <<corrected, day, archStatus, dayRead, lastDay, yesterdayOf>>
meter == <<session, meterDay>>
budget == <<faults, webs, overlaps>>
vars == <<queue, driver, archive, rx, rxEvent, line, meter, budget>>

\* Whether the bound on all of them together allows one more.
MoreTrouble ==
  (MaxFaults - faults) + (MaxWeb - webs) + (MaxOverlaps - overlaps) + (meterDay - 1)
    < MaxTrouble

TypeOK ==
  /\ queue \in Seq(Records)
  /\ conn \in ConnectStatus
  /\ lastResp \in 0..7
  /\ cmdStatus \in 0..7 \cup {Waiting}
  /\ repeatCnt \in 0..RepeatMax
  /\ repErrors \in 0..ErrorsThr
  /\ halted \in BOOLEAN /\ muxOn \in BOOLEAN /\ corrected \in BOOLEAN
  /\ rxEvent \in BOOLEAN /\ line \in BOOLEAN
  /\ sleepCnt \in 0..SleepMax
  /\ day \in 0..MaxDay /\ dayRead \in 0..MaxDay
  /\ lastDay \in 0..MaxDay /\ yesterdayOf \in 0..MaxDay
  /\ meterDay \in 1..MaxDay
  /\ archStatus \in Nat
  /\ rx \in Frames
  /\ session \in Sessions
  /\ faults \in 0..MaxFaults /\ webs \in 0..MaxWeb /\ overlaps \in 0..MaxOverlaps

Init ==
  /\ queue = <<>>
  /\ conn = "NotConnected" /\ lastResp = 0 /\ cmdStatus = 0
  /\ repeatCnt = RepeatMax /\ repErrors = 0 /\ halted = FALSE
  /\ sleepCnt = 0 /\ muxOn = TRUE
  /\ corrected = FALSE /\ day = 0 /\ archStatus = 0 /\ dayRead = 0
  /\ lastDay = 0 /\ yesterdayOf = 0
  /\ rx = NoBytes /\ rxEvent = FALSE /\ line = FALSE
  /\ session = "closed" /\ meterDay = 1
  /\ faults = MaxFaults /\ webs = MaxWeb /\ overlaps = MaxOverlaps

----------------------------------------------------------------------------
(* Filling the queue.  pwmt_prepare_send and pwmt_connect refuse a full    *)
(* queue; the two readers check the room for everything they add.          *)
Room(q) == QueueMax - Len(q)

\* Mutation: a connect jumps the queue.
PushConnectFirst(q, user) == IF Room(q) = 0 THEN q ELSE <<Connect(user)>> \o q

PushConnect(q, user) == IF Room(q) = 0 THEN q ELSE Append(q, Connect(user))

CurrentArray ==
  [i \in 1..CurrentNumbers + 2 |-> Number(CurBase + i - 1)]
    \o <<Record("CURTIME", CurTime, 0)>>

\* Mutation: the room for the whole batch is not tested.
ReadCurrentUntested(q) == IF Room(q) = 0 THEN q ELSE q \o CurrentArray

ReadCurrent(q) == IF Room(q) < Len(CurrentArray) THEN q ELSE q \o CurrentArray

\* The six words of one tariff (0 all, 1 T1).  pwmt_cur.Month is known
\* whenever pwmt_cur.Time is, so both months are always asked for.
\* Mutation: today's value, whose arrival ends the portion, is asked for first.
YearPortionTodayFirst(tarif) ==
  <<Number(Today + tarif), Number(PrevYear + tarif), Number(Yesterday + tarif),
    Number(PrevMonth + tarif), Number(ThisMonth + tarif), Number(ThisYear + tarif)>>

YearPortion(tarif) ==
  <<Number(PrevYear + tarif), Number(Yesterday + tarif), Number(PrevMonth + tarif),
    Number(ThisMonth + tarif), Number(ThisYear + tarif), Number(Today + tarif)>>

\* The months of one portion, both tariffs of each: &Month[m][tarif].
MonthPortion(st) ==
  [i \in 1..ArchBuf |->
     Number(Month((st - 4) * Quarter + ((i - 1) \div 2)) + ((i - 1) % 2))]

ReadArchive(q, st) ==
  IF \/ Room(q) < ArchBuf
     \/ day = 0
     \/ day = dayRead /\ st < 2
  THEN q
  ELSE q \o (IF st <= 2 THEN YearPortion(0)
             ELSE IF st = 3 THEN YearPortion(1)
             ELSE MonthPortion(st))

TimeRequests(q) ==
  [i \in 1..(IF Room(q) < TimeRecs THEN Room(q) ELSE TimeRecs) |->
     Record("TIME", TimeArray, 0)]

----------------------------------------------------------------------------
(* pwmt_send_to_uart on the queue q: a deleted head is dropped, and a head *)
(* that waits to be sent goes out.                                         *)
HeadIs(q, flags) == q # <<>> /\ Head(q).flag \in flags
Flagged(q, f) == [q EXCEPT ![1].flag = f]

\* Mutation: the last request of the queue is not dropped.
DroppedButLast(q) == IF HeadIs(q, {"deleted"}) /\ Len(q) > 1 THEN Tail(q) ELSE q

Dropped(q) == IF HeadIs(q, {"deleted"}) THEN Tail(q) ELSE q

SendToUart(q, c, cs, r, mux) ==
  LET d  == Dropped(q)
      go == HeadIs(d, {"send"})
  IN  /\ queue' = IF go THEN Flagged(d, "waiting") ELSE d
      /\ conn' = IF go /\ Head(d).type = "CONNECT" THEN "Connecting" ELSE c
      /\ cmdStatus' = IF go /\ Head(d).type = "STR" THEN Waiting ELSE cs
      /\ rx' = IF go THEN NoBytes ELSE r
      /\ line' = IF go THEN mux ELSE line

\* Sending a SETTIME counts as the correction of the day, unless SNTP has no
\* time just then: the frame is then not rebuilt and goes out as it is.
CorrectedBySend(q, cor) ==
  LET d == Dropped(q)
  IN  IF HeadIs(d, {"send"}) /\ Head(d).type = "SETTIME" THEN {cor, TRUE} ELSE {cor}

----------------------------------------------------------------------------
(* uart_receive_timer_func: it acts on the head of the queue only while    *)
(* the driver is not asleep.                                               *)
Awake(flags) == sleepCnt = 0 /\ HeadIs(queue, flags)

TimerSend ==
  /\ Awake({"send"})
  /\ SendToUart(queue, conn, cmdStatus, rx, muxOn)
  /\ corrected' \in CorrectedBySend(queue, corrected)
  /\ UNCHANGED <<lastResp, repeatCnt, repErrors, halted, sleepCnt, muxOn,
                 day, archStatus, dayRead, lastDay, yesterdayOf, rxEvent, meter, budget>>

\* The answer is judged as soon as uart_Task has seen the end of reception,
\* or when the answer timeout is over and nothing is on its way any more.
Judged ==
  \/ Awake({"reading"})
  \/ Awake({"waiting"}) /\ ~line /\ ~rxEvent

Valid == rx.n >= 4 /\ rx.ok
FailCode == IF rx.n >= 4 THEN 7 ELSE 6

JudgeOk ==
  /\ Judged /\ Valid
  /\ queue' = Flagged(queue, "ready")
  /\ lastResp' = IF rx.n = 4 THEN rx.code ELSE 0
  /\ repErrors' = 0
  /\ UNCHANGED <<conn, cmdStatus, repeatCnt, halted, sleepCnt, muxOn, archive, rx,
                 rxEvent, line, meter, budget>>

\* A custom command is not repeated: the error is its answer.
JudgeCustomFailed ==
  /\ Judged /\ ~Valid /\ Head(queue).type = "STR"
  /\ lastResp' = FailCode
  /\ SendToUart(Flagged(queue, "deleted"), conn, FailCode, rx, muxOn)
  /\ corrected' \in CorrectedBySend(Flagged(queue, "deleted"), corrected)
  /\ UNCHANGED <<repeatCnt, repErrors, halted, sleepCnt, muxOn, day, archStatus,
                 dayRead, lastDay, yesterdayOf, rxEvent, meter, budget>>

\* Mutation: the counter of repeated errors is not held at the threshold.
NextErrorsUnheld == repErrors + 1

NextErrors == IF repErrors + 1 > ErrorsThr THEN repErrors ELSE repErrors + 1

CountError ==
  /\ Judged /\ ~Valid /\ Head(queue).type # "STR"
  /\ lastResp' = FailCode
  /\ repErrors' = NextErrors
  /\ halted' = (halted \/ repErrors + 1 > ErrorsThr)
  /\ UNCHANGED <<archStatus, day, dayRead, lastDay, yesterdayOf, rxEvent, meter, budget>>

\* Mutation: the repetitions of a connect are counted like any other.
MayRepeatCounted == repeatCnt > 0

MayRepeat == conn # "Connected" \/ repeatCnt > 0
MustSleep == SleepMax # 0
FallAsleep == sleepCnt' = SleepMax /\ muxOn' = FALSE /\ line' = FALSE

JudgeRepeat ==
  /\ CountError
  /\ MayRepeat /\ ~(repeatCnt = 0 /\ MustSleep)
  /\ queue' = Flagged(queue, "send")
  /\ repeatCnt' = IF repeatCnt = 0 THEN 0 ELSE repeatCnt - 1
  /\ UNCHANGED <<conn, cmdStatus, sleepCnt, muxOn, corrected, rx, line>>

\* "ErrSleepC": no repeat is left and there is no connection; the request
\* stays at the head as it is while the driver sleeps.
JudgeSleepUnconnected ==
  /\ CountError
  /\ MayRepeat /\ repeatCnt = 0 /\ MustSleep
  /\ FallAsleep
  /\ UNCHANGED <<queue, conn, cmdStatus, repeatCnt, corrected, rx>>

JudgeDrop ==
  /\ CountError
  /\ ~MayRepeat
  /\ repeatCnt' = RepeatMax
  /\ LET q == Flagged(queue, "deleted")
     IN IF MustSleep
        THEN /\ queue' = q
             /\ FallAsleep
             /\ UNCHANGED <<conn, cmdStatus, corrected, rx>>
        ELSE /\ SendToUart(q, conn, cmdStatus, rx, muxOn)
             /\ corrected' \in CorrectedBySend(q, corrected)
             /\ UNCHANGED <<sleepCnt, muxOn>>

----------------------------------------------------------------------------
(* The next call of the timer decodes the answer it found valid.  Whatever *)
(* the answer was, the head is then deleted and the next request sent; q   *)
(* is the queue with what the answer itself made the driver add.           *)
Decoding == Awake({"ready"})
StatusAnswer == Decoding /\ rx.n = 4
DataAnswer(t) == Decoding /\ rx.n # 4 /\ Head(queue).type = t

Finish(q, c, cs) ==
  /\ SendToUart(Flagged(q, "deleted"), c, cs, rx, muxOn)
  /\ repeatCnt' = RepeatMax
  /\ UNCHANGED <<lastResp, repErrors, halted, sleepCnt, muxOn, lastDay, rxEvent,
                 meter, budget>>
KeepCorrected(q) == corrected' \in CorrectedBySend(Flagged(q, "deleted"), corrected)
KeepArchive == UNCHANGED <<archStatus, dayRead, yesterdayOf>>

\* 5, the channel is not open: all other requests are forgotten.
DecodeNotConnected ==
  /\ StatusAnswer /\ lastResp = 5
  /\ LET q == <<Head(queue), Connect(1)>>
     IN Finish(q, conn, cmdStatus) /\ KeepCorrected(q)
  /\ KeepArchive /\ UNCHANGED day

\* 4, the meter's clock was already corrected today.
DecodeCorrectedToday ==
  /\ StatusAnswer /\ lastResp = 4
  /\ Finish(queue, conn, cmdStatus)
  /\ corrected' = TRUE
  /\ KeepArchive /\ UNCHANGED day

\* Any other status, of interest only to a connect.  A refused connect is
\* marked for repetition, but the common end of the handler deletes it.
DecodeStatus ==
  /\ StatusAnswer /\ lastResp \notin {4, 5}
  /\ Finish(queue,
            IF conn = "Connecting" /\ lastResp = 0 THEN "Connected" ELSE conn,
            cmdStatus)
  /\ KeepCorrected(queue) /\ KeepArchive /\ UNCHANGED day

\* A value.  Three words move the reading of the archive on; the words of the
\* last quarters are recognised by address, whatever the portion is.
AllMonthsExceeded(st) == (st - 4) * Quarter > NMonths         \* mutation: off by one
AllMonths(st) == (st - 4) * Quarter >= NMonths

NextStatus(v) ==
  CASE v = Today -> 3
    [] v = Today + 1 -> 4
    [] v \notin {Today, Today + 1} /\ v = LastOfPortion(archStatus) ->
         IF AllMonths(archStatus + 1) THEN 1 ELSE archStatus + 1
    [] OTHER -> archStatus

MovesArchive(v) == v \in {Today, Today + 1, LastOfPortion(archStatus)}

DecodeNumber ==
  /\ DataAnswer("NUMBER")
  /\ LET v  == Head(queue).var
         st == NextStatus(v)
         q  == IF MovesArchive(v) /\ st # 1 THEN ReadArchive(queue, st) ELSE queue
     IN  /\ Finish(q, conn, cmdStatus)
         /\ KeepCorrected(q)
         /\ archStatus' = st
         /\ dayRead' = IF v = Today + 1 THEN day ELSE dayRead
         /\ yesterdayOf' = IF v = Yesterday THEN meterDay ELSE yesterdayOf
  /\ UNCHANGED day

DecodeOther ==
  /\ \E t \in {"TIME", "CONNECT", "SETTIME"} : DataAnswer(t)
  /\ Finish(queue, conn, cmdStatus)
  /\ KeepCorrected(queue) /\ KeepArchive /\ UNCHANGED day

\* The meter's clock.  When it differs from SNTP time (known, correction
\* enabled and address set) the correction is queued behind all other requests.
\* Mutation: the connect as administrator is forgotten.
ClockCorrectionsAsUser(q) ==
  {<<>>} \cup
  {c \in {<<SetTime(0)>>, <<SetTime(1), Connect(1)>>} :
     CorrectClock /\ ~corrected /\ Room(q) >= Len(c)}

ClockCorrections(q) ==
  {<<>>} \cup
  {c \in {<<SetTime(0)>>, <<Connect(2), SetTime(1), Connect(1)>>} :
     CorrectClock /\ ~corrected /\ Room(q) >= Len(c)}

DecodeCurTime ==
  /\ DataAnswer("CURTIME")
  /\ \E c \in ClockCorrections(queue) :
       LET q == queue \o c
       IN Finish(q, conn, cmdStatus) /\ KeepCorrected(q)
  /\ day' \in IF rx.ok THEN {meterDay} ELSE 0..MaxDay
  /\ KeepArchive

DecodeCustom ==
  /\ DataAnswer("STR")
  /\ Finish(queue, conn, lastResp)
  /\ KeepCorrected(queue) /\ KeepArchive /\ UNCHANGED day

UartReceiveTimer ==
  \/ TimerSend
  \/ JudgeOk \/ JudgeCustomFailed \/ JudgeRepeat \/ JudgeSleepUnconnected \/ JudgeDrop
  \/ DecodeNotConnected \/ DecodeCorrectedToday \/ DecodeStatus
  \/ DecodeNumber \/ DecodeOther \/ DecodeCurTime \/ DecodeCustom

----------------------------------------------------------------------------
\* uart_Task: the end of reception was posted by the interrupt handler.
UartTask ==
  /\ rxEvent
  /\ rxEvent' = FALSE
  /\ queue' = IF HeadIs(queue, {"waiting", "reading"}) THEN Flagged(queue, "reading")
              ELSE queue
  /\ UNCHANGED <<driver, archive, rx, line, meter, budget>>

\* pwmt_request_timer_func, every cfg_glo.request_period.
RequestTimer ==
  /\ sleepCnt = 0
  /\ IF queue = <<>> THEN UNCHANGED overlaps
     ELSE overlaps > 0 /\ MoreTrouble /\ overlaps' = overlaps - 1
  /\ LET connect == \/ queue = <<>> /\ conn = "NotConnected"
                    \/ lastResp = 6 /\ conn # "Connecting"
         q == ReadCurrent(ReadArchive(IF connect THEN PushConnect(queue, 1) ELSE queue,
                                      archStatus))
     IN  IF queue = <<>>
         THEN /\ SendToUart(q, conn, cmdStatus, rx, muxOn)
              /\ corrected' \in CorrectedBySend(q, corrected)
         ELSE /\ queue' = q
              /\ UNCHANGED <<conn, cmdStatus, rx, line, corrected>>
  /\ UNCHANGED <<lastResp, repeatCnt, repErrors, halted, sleepCnt, muxOn, day, archStatus,
                 dayRead, lastDay, yesterdayOf, rxEvent, meter, faults, webs>>

\* What update_cnt_timer_func does to the driver every second: it counts the
\* sleep down, runs the driver's clock, which may lag behind the meter's, and
\* clears the correction mark when a new day of the archive is stored.
Wakes == sleepCnt = 1

Tick ==
  /\ sleepCnt' = IF sleepCnt = 0 THEN 0 ELSE sleepCnt - 1
  /\ muxOn' = (muxOn \/ Wakes)
  /\ repeatCnt' = IF Wakes THEN RepeatMax ELSE repeatCnt
  /\ LET q == IF queue # <<>> /\ conn = "Connected" THEN Flagged(queue, "deleted") ELSE queue
     IN IF Wakes THEN SendToUart(q, conn, cmdStatus, rx, TRUE)
        ELSE UNCHANGED <<queue, conn, cmdStatus, rx, line>>
  /\ day' \in IF day # 0 /\ day < meterDay THEN {day, day + 1} ELSE {day}
  /\ \/ /\ day # 0 /\ dayRead > lastDay
        /\ lastDay' = lastDay + 1
        /\ corrected' = FALSE
     \/ /\ UNCHANGED lastDay
        /\ corrected' \in
             IF Wakes
             THEN CorrectedBySend(IF queue # <<>> /\ conn = "Connected"
                                  THEN Flagged(queue, "deleted") ELSE queue, corrected)
             ELSE {corrected}
  /\ UNCHANGED <<lastResp, repErrors, halted, archStatus, dayRead, yesterdayOf,
                 rxEvent, meter, budget>>

----------------------------------------------------------------------------
(* The web page.                                                           *)
Web(command) ==
  webs > 0 /\ MoreTrouble /\ command \in WebCommands /\ webs' = webs - 1

WebSendNow ==
  /\ Web("send_now")
  /\ Room(queue) > 0
  /\ \E empty \in BOOLEAN :       \* whether the command to send has no bytes
       LET q == IF empty THEN queue ELSE Append(queue, Record("STR", NoVar, 0))
       IN  IF Len(q) = 1
           THEN /\ SendToUart(q, conn, cmdStatus, rx, muxOn)
                /\ corrected' \in CorrectedBySend(q, corrected)
           ELSE /\ queue' = q
                /\ UNCHANGED <<conn, cmdStatus, rx, line, corrected>>
  /\ UNCHANGED <<lastResp, repeatCnt, repErrors, halted, sleepCnt, muxOn, day, archStatus,
                 dayRead, lastDay, yesterdayOf, rxEvent, meter, faults, overlaps>>

WebReadArchive ==
  /\ Web("r_arch")
  /\ archStatus' = 2
  /\ queue' = ReadArchive(queue, 2)
  /\ UNCHANGED <<driver, corrected, day, dayRead, lastDay, yesterdayOf, rx, rxEvent,
                 line, meter, faults, overlaps>>

WebTimeLog ==
  /\ Web("Tlog")
  /\ LET q == queue \o TimeRequests(queue)
     IN  /\ SendToUart(q, conn, cmdStatus, rx, muxOn)
         /\ corrected' \in CorrectedBySend(q, corrected)
  /\ UNCHANGED <<lastResp, repeatCnt, repErrors, halted, sleepCnt, muxOn, day, archStatus,
                 dayRead, lastDay, yesterdayOf, rxEvent, meter, faults, overlaps>>

\* What the meter does with a request it received.
SessionAfter(r) ==
  IF r.type # "CONNECT" THEN session ELSE IF r.arg = 2 THEN "admin" ELSE "user"

\* irda_init, then q is queued.  A request still on the line may have reached
\* the meter.
IrdaInit(q) ==
  /\ queue' = q
  /\ conn' = "NotConnected" /\ corrected' = FALSE /\ repErrors' = 0
  /\ repeatCnt' = RepeatMax
  /\ muxOn' = TRUE /\ line' = FALSE
  /\ session' \in IF line /\ queue # <<>> THEN {session, SessionAfter(Head(queue))}
                  ELSE {session}
  /\ UNCHANGED <<lastResp, cmdStatus, halted, sleepCnt, day, archStatus, dayRead, lastDay,
                 yesterdayOf, rx, rxEvent, meterDay, faults, overlaps>>

WebSave == Web("save") /\ IrdaInit(<<Connect(1)>>)
WebRequestPeriod == Web("req_period") /\ IrdaInit(<<>>)

----------------------------------------------------------------------------
(* The meter and the line (outside src/).                                  *)
Answers(r) ==
  CASE r.type = "CONNECT" -> {Reply(0)} \cup {Reply(c) : c \in Refusals}
    [] r.type # "CONNECT" /\ session = "closed" -> {Reply(5)}
    [] r.type \in {"NUMBER", "TIME", "CURTIME"} /\ session # "closed" -> {DataFrame}
    [] r.type = "STR" /\ session # "closed" -> {DataFrame, Reply(0)}
    [] r.type = "SETTIME" /\ session # "closed" ->
         IF r.arg = 1 /\ session = "user" THEN {Reply(3)} ELSE {Reply(0), Reply(4)}

MeterAnswers ==
  /\ line /\ HeadIs(queue, InFlight)
  /\ \E a \in Answers(Head(queue)) :
       /\ rx' = IF rx.n = 0 THEN a ELSE Garbled
       /\ session' = IF a = Reply(0) THEN SessionAfter(Head(queue)) ELSE session
  /\ line' = FALSE /\ rxEvent' = TRUE
  /\ UNCHANGED <<queue, driver, archive, meterDay, budget>>

\* The request or its answer is lost, damaged or cut; or a late answer, or
\* noise, comes after it, perhaps when the request is about to be repeated.
Disturbance ==
  /\ faults > 0 /\ MoreTrouble /\ faults' = faults - 1
  /\ queue # <<>> /\ muxOn /\ sleepCnt = 0
  /\ \E f \in FaultFrames \cup {rx} :
       /\ f.n >= rx.n
       /\ rx' = f
       /\ rxEvent' = (rxEvent \/ f # rx)
  /\ line' = FALSE
  /\ session' \in IF line THEN {session, SessionAfter(Head(queue))} ELSE {session}
  /\ UNCHANGED <<queue, driver, archive, meterDay, webs, overlaps>>

MeterMidnight ==
  /\ meterDay < MaxDay /\ MoreTrouble
  /\ meterDay' = meterDay + 1
  /\ UNCHANGED <<queue, driver, archive, rx, rxEvent, line, session, budget>>

SessionExpires ==
  /\ SessionsExpire /\ session # "closed"
  /\ session' = "closed"
  /\ UNCHANGED <<queue, driver, archive, rx, rxEvent, line, meterDay, budget>>

Next ==
  \/ UartReceiveTimer \/ UartTask \/ RequestTimer \/ Tick
  \/ WebSendNow \/ WebReadArchive \/ WebTimeLog \/ WebSave \/ WebRequestPeriod
  \/ MeterAnswers \/ Disturbance \/ MeterMidnight \/ SessionExpires

Spec == Init /\ [][Next]_vars

(* The timers are periodic, the event task is run by the SDK's loop, and   *)
(* the meter answers what reaches it; faults and web commands are bounded. *)
Fairness ==
  /\ WF_vars(UartReceiveTimer) /\ WF_vars(UartTask)
  /\ WF_vars(RequestTimer) /\ WF_vars(Tick) /\ WF_vars(MeterAnswers)

LiveSpec == Spec /\ Fairness

----------------------------------------------------------------------------
(* Properties.                                                             *)

\* Nothing is ever written behind the last slot of uart_queue: the readers
\* test the room for their whole batch, also when a batch is added while the
\* head is still the request being answered.
QueueFits == Len(queue) <= QueueMax

\* The line carries one request at a time: only the head of the queue can be
\* in another state than "wait to be sent".
OnlyHeadInFlight ==
  \A i \in 2..Len(queue) : queue[i].flag = "send"

\* While the driver is awake the head is never a deleted request.  No handler
\* would look at such a head again, so the whole queue would stand still.
NoDeadHead == sleepCnt = 0 => ~HeadIs(queue, {"deleted"})

\* The meter is left open at the admin level only while the connect that
\* brings it back to the user level is still queued (or the driver starts over).
AdminReturns ==
  session = "admin" /\ conn # "NotConnected" =>
    \E i \in 1..Len(queue) : queue[i].type = "CONNECT" /\ queue[i].arg = 1

\* The command that sets the clock, wherever it is in the queue, has the
\* connect to the user level right behind it, and it is on the line only
\* while the meter's channel is open at the admin level.
SetTimeBracketed ==
  \A i \in 1..Len(queue) :
    queue[i].type = "SETTIME" /\ queue[i].arg = 1 =>
      /\ i < Len(queue) /\ queue[i + 1].type = "CONNECT" /\ queue[i + 1].arg = 1
      /\ queue[i].flag # "deleted" /\ queue[i].flag # "send" => session # "user"

\* A month of pwmt_arch is asked for only by its index in the array.
MonthsInArray ==
  \A i \in 1..Len(queue) :
    queue[i].type = "NUMBER" /\ queue[i].var < CurBase => queue[i].var < Month(NMonths)

\* Status 1 means that the archive is received (mercury.h:43): unless a frame
\* was disturbed, no value of it has got lost on the way, in however many
\* portions it was asked for, and whatever was refused, expired or forgotten
\* between them; of the values Yesterday is the one that is followed.  It takes
\* a repetition count above 0.
ArchiveComplete == archStatus = 1 /\ faults = MaxFaults => yesterdayOf # 0

\* Once the line is quiet and the page leaves the driver alone, the archive of
\* the current day is read to the end, whatever requests the timers and
\* earlier faults left in the queue and in whatever order its portions came.
ArchiveIsRead == <>[](archStatus = 1 /\ dayRead = meterDay)

\* The driver never wedges: under the same assumptions the last request of a
\* batch, the meter's clock, is answered and decoded again and again, which is
\* what keeps the accounting and the cloud supplied with fresh values.
KeepsReading == []<><<DecodeCurTime>>_vars

=============================================================================
