# PowerMeter-IrDA: a verification development

TLA+ models of the firmware of an ESP8266 that reads a Mercury 230/231
electricity meter over IrDA, accounts for the energy in flash and FRAM, and
serves it over HTTP and to an IoT server.  TLC checks small instances, TLAPS
proves the main safety properties for every value of the constants.

Paths are relative to the repository; `mercury.c` is
`src/app/user/mercury.c`, `power_meter.c` is `src/app/user/power_meter.c`, and
`web_int_callbacks.c`, `web_srv.c`, `webfs.c`, `tcp_srv_conn.c` are in `src/app/web`.

## 1. The system

The build that is modelled is the one `include/user_config.h` selects
(`PROGECT_NUMBER 2`): web server, SNTP, the debug log in RAM, I2C FRAM, UART0
used for IrDA, the Mercury driver, the `USE_TIMER0` transmit timer, one sector
for the configuration.  The SDK runs one task at a time: timers, event tasks,
lwIP callbacks and page callbacks are never pre-empted by each other, only by
the interrupt handlers of the UART and of the transmit timer.  That is why a
handler is one action of the models unless it can be cut short by a loss of
power, where it is split.

### 1.1 Components

| Component | Sources | State | Operations | Models |
|---|---|---|---|---|
| Mercury driver | `mercury.c`, `mercury.h` | `uart_queue`, connection, repeat and sleep counters, `pwmt_cur`, `pwmt_arch` | `uart_receive_timer_func`, `uart_Task`, `pwmt_request_timer_func`, `irda_init`, queue fillers | `Mercury` |
| Accounting | `power_meter.c` | `fram_store`, ring of minutes, ring of days, `FRAM_Status`, `Fram_SaveCountdown` | `update_cnt_timer_func`, `update_cnts`, `FRAM_Store_Init`, `power_meter_clear_all_data` | `PowerMeter` |
| FRAM over I2C | `driver/i2c.c`, `driver/eeprom.c` | the bus | block read, block write | in `PowerMeter`, only what a stopped transfer leaves behind |
| IrDA UART driver | `web/uart_tcp.c` | buffer, index, echo lock, parity state | transmit timer interrupt, receive interrupt, mux | in `Mercury`, only the end-of-reception event, the buffer and the mux |
| Flash configuration store | `web/flash_eep.c` | a log of objects in one sector | `flash_save_cfg`, `flash_read_cfg`, `pack_cfg_fmem` | `FlashCfg`, against `ConfigStore` |
| IoT cloud client | `user/iot_cloud.c` | run flags, request list, error timer, `tc_servcfg` | `iot_cloud_init`, `iot_cloud_send`, `tc_go`, `tc_go_next`, TCP and DNS callbacks | `IotCloud` |
| TCP server | `tcp_srv_conn.c` | configurations, connection lists, pcbs | lwIP callbacks, closes, polls, reconnects | server side in `WebServer`, client side in `IotCloud` |
| Web server and pages | `web_srv.c`, `web_int_vars.c`, `web_int_callbacks.c` | page state, open files, commands, history pages in progress | requests, uploads, includes, disconnect, history readers | `WebServer`, `History`; commands in `Mercury` and `PowerMeter` |
| WEBFS, ini file, OTA | `webfs.c`, `web_fs_init.c` | file handles, lock | open, close, initialisation after an upload | in `WebServer`, the handles and the lock |
| Wi-Fi events | `web/wifi_events.c`, `web/wifi.c` | flags, service state | event handler, open and close of the services | in `IotCloud` and `WebServer`, what happens to the services |
| SNTP client | `web/sntp.c` | time | get time | in `Mercury`, only "time known or not" |
| Start-up | `user/user_main.c` | none | `user_initialize` | its order, in `PowerMeter`'s `Restart` |
| CRC | `user/crc.c` | none | pure function | as validity of a frame |
| External watchdog | `WatchdogESP01/WatchdogESP01.c` (AVR) | phase, counters | main loop | not modelled, see 6 |
| Calendar, debug log | `web/localtime.c`, `user/debug_ram.c` | none of interest | conversion, formatting | not modelled |
| Compiled-out features | captive DNS, NetBIOS, websocket, Modbus, RS-485, SPI, TCP2UART, overlays | | | not modelled |
| SDK, vendored code, tools | `app/sdklib`, `include`, `app/gdbstub`, scripts | | | not modelled |

### 1.2 Interactions

* The page, the request timer and the decoder append requests to `uart_queue`;
  `pwmt_send_to_uart` drops a deleted head and sends the next.  Only the
  request at the head is on the line.
* The UART receive interrupt fills `UART_Buffer` and posts `UART_RX_CHARS`;
  `uart_Task` marks the head; `uart_receive_timer_func` judges the frame in one
  call and decodes it in the next.
* The driver publishes `pwmt_cur.Total`, `pwmt_cur.Time`, `pwmt_arch` and
  `pwmt_arch.DayLastRead`.  The one second timer of `power_meter.c` advances
  `pwmt_cur.Time`, wakes the driver after a sleep, and once a minute moves
  energy into the rings.
* After too many errors the driver sets `Fram_halted` and holds both FRAM pins
  low: the external watchdog sees this and cuts the power.  From then on the
  accounting goes on in RAM and flash but saves nothing to FRAM.
* Wi-Fi, UART, system and meter settings and the user constants are objects of
  the configuration store, saved by the page and read at start-up.
* `web_int_vars.c` writes the record (`TotalCnt`, `LastDay`, `reset_data`),
  queues a custom command or the archive, and re-initialises the driver.
* The decoder of the meter's clock calls `iot_cloud_send(1)`: a fresh reading is
  what starts the requests of the cloud client.
* The web server and the cloud client take their `TCP_SERV_CFG` from the same
  heap and the same list.  Losing the Wi-Fi closes all of them
  (`close_all_service`); getting it back opens the web server and calls the client.
* The history pages read the rings and `fram_store` that the accounting writes,
  in several callbacks with minutes and days between them.
* Pages that change settings only ask for a save; it is done, and the server
  reopened, by the callback that ends the connection.

### 1.3 What is hard here

* **Ordering in the driver.**  Answers carry no number.  A late, damaged or
  foreign frame meets a queue that has moved on; a handler deletes the head
  while others append; the portions of the archive are recognised by the
  address of their last word.
* **Brackets.**  Setting the meter's clock is three queue entries (open as
  administrator, set, open as user); losses, repetitions and a re-initialisation
  may come between any two.
* **Liveness.**  Connect, archive and current values are asked for under
  different conditions; after losses, sleep and closed sessions the reading must
  start again by itself.
* **Power failures.**  Flash is written every minute, FRAM every few minutes
  and in two sizes.  After a restart the record is older than the rings.
* **Partial failures.**  A flash write, an erase or an I2C transfer fails after
  the record in RAM was changed.
* **Limits.**  The queue, `maxloop`, the capacity of an element, counters that
  count down to zero, the half word in which a history by days counts its rows,
  rings that must keep an erased element, a table of file handles, a short list of
  nested includes.
* **Callbacks.**  The answer, the error timer, DNS, a new ini file and the loss of
  the Wi-Fi all end a request of the cloud client.  A close, an error, a poll and
  a restart of the server all end a connection of the web server.
* **State read before a callback and used after it.**  `tc_servcfg`,
  `iot_data_processing`, `hst_bydays_ptr` and `HistorySums` outlive what they
  were computed from.

`PROJECT.json` lists each of these as a hazard at its line, with the properties
that look for it.

### 1.4 What makes each component correct

* *Driver*: the queue never overflows; only its head is in flight; no deleted
  head blocks it; indices into the archive stay in the array; the administrator
  session is closed again; the reading never stops for good.
* *Accounting*: energy is counted at most once and, while the device runs,
  eventually; the rings keep their end markers; the element of a day is dated
  correctly; the countdown to a save never wraps.
* *Configuration store*: what was saved last is what is read, through packs; a
  save that is cut short damages no other object, except while the sector is
  being rewritten; nothing is written behind the sector.
* *Cloud client*: one connection at a time, and it belongs to the running
  request; an answer is credited to the request it answers (both until a query for
  the address outlives its configuration, see 4); no configuration is lost; the
  run flag is never stuck; every request of the list has its turn.
* *Web server*: no file handle is lost or shared; lwIP never calls back with a
  freed connection; settings that a page saved are saved; connections end.
* *History pages*: a row carries the date and the total of what it shows, and rows
  never turn back, while minutes are written and other pages are read.

## 2. The modules

### 2.1 `Mercury`

| Action | Code |
|---|---|
| `TimerSend`, `JudgeOk`, `JudgeCustomFailed`, `JudgeRepeat`, `JudgeSleepUnconnected`, `JudgeDrop` | `uart_receive_timer_func`, the branches for a waiting head, `mercury.c` 315-400 |
| `DecodeNotConnected` ... `DecodeCustom` | the same handler, a valid answer, `mercury.c` 400-530 |
| `UartTask` | `uart_Task` |
| `RequestTimer` | `pwmt_request_timer_func` |
| `Tick` | what `update_cnt_timer_func` does to the driver |
| `WebSendNow`, `WebReadArchive`, `WebTimeLog`, `WebSave`, `WebRequestPeriod` | `web_int_vars.c` commands |
| `MeterAnswers`, `Disturbance`, `MeterMidnight`, `SessionExpires` | the meter and the line: external |

`queue` is `uart_queue[0 .. uart_queue_len-1]`, `rx` is `UART_Buffer` with its
index, reduced to the number of bytes, the result of the CRC and the status
byte.  A value read from the meter is reduced to the word it is stored in.

Three abstractions matter.  A test of elapsed time is nondeterministic from the
moment it may be true.  The energy values and the deltas of the archive
(l. 426-455) are left out.  The status of an answer is kept, its payload is not.

### 2.2 `PowerMeter`

One call of `update_cnt_timer_func` is one pass through `pc` = `idle`, `count`,
`day`, `save`; a power failure may come between any two steps, so that every
combination of flash and FRAM contents the code can leave is reached.  The
calls are not interleaved with anything else, as in the SDK.

| Action | Code |
|---|---|
| `MinuteTimer` | the guard and the difference of totals, `power_meter.c` 138-168 |
| `CountLongGap`, `CountMinute`, `CountWriteFails`, `CountEraseFails` | `update_cnts` and the loop around it |
| `NoNewDay`, `StoreDay`, `StoreDayWriteFails`, `StoreDayEraseFails` | the by-day part |
| `NoSave`, `Save`, `SaveFails`, `SaveFindsBad` | the FRAM part |
| `Crash`, `CrashAndNoRead`, `CrashInSave` | a loss of power, `FRAM_Store_Init`, `user_initialize` |
| `Reading`, `ArchiveRead`, `MinutePasses`, `Halt` | what the driver delivers, time, `Fram_halted` |
| `WebSetTotalCnt`, `WebSetLastDay`, `WebResetData` | web commands on `fram_store` |

Flash is modelled as flash: a cell can be programmed once after an erase, a
second value leaves the AND of both (`Mixed`).  A FRAM write that stops leaves
a prefix of the record; a word never written reads `Blank`.  The value of a day
element is the day on which it was read, so that a mix-up is visible.

`overrun` is a history variable: a call ended with energy in `PowerCnt`, because
`maxloop` was used up or an element was full.

### 2.3 `ConfigStore` and `FlashCfg`

`ConfigStore` is what the callers of `flash_eep.c` may rely on: a store of
objects by id, one save at a time, and for each phase of a save the set of
objects that a loss of power may damage (`AtRisk`): none until the first flash
write, then the object itself, and all of them from the erase of the sector
until the copy is back.  `FlashCfg` is the code:

| Action | Code |
|---|---|
| `SaveSame`, `Save` | `flash_save_cfg`, the comparison with the stored object and the search for room, `flash_eep.c` 240-269 |
| `PackCopy`, `PackErase`, `Restore` | `pack_cfg_fmem`: the pass that collects the last objects, the erase, the write of the copy, 155-197 |
| `WriteHead`, `WriteBody` | the object itself, 270-272 |
| `Stop`, `StopInRestore` | an error return, or the power fails, there |

`log` is the sector, the objects in the order of their addresses, each with the
address behind it (`end`); `buffer` is the copy in RAM, of the same form; `scan`
is `faddr` in the two passes.  `ImplementsConfigStore` maps a state to what the
store would hold if the save in progress were finished (`Meant`): a save takes
effect with its header in the ordinary case and with the erase in a pack.

Abstractions: a size counts words and includes the header (all addresses are
multiples of four, and nothing depends on the rest); the header is one word and
is written at once; an erase is complete or did not happen; flash can be read.
A body that was not completely written is `Torn`, whatever it holds:
`flash_read_cfg` returns it as "ok, saved size" (l. 420), because nothing marks
it, and the next save of the same object replaces it.  Objects of size 0 are
refused (l. 243) and no code of this build saves one.

### 2.4 `IotCloud`

| Action | Code |
|---|---|
| `Send` | `iot_cloud_send(1)` from the decoder of the clock, with `iot_cloud_init` when nothing was read yet |
| `ErrorTimer` | `tc_go_next` from the error timer |
| `WebInit` | `iot_cloud_init` after the page switched the client or wrote another ini file |
| `DnsFound` | `tc_dns_found_callback` |
| `Connected`, `Received`, `Closed` | `tc_listen`, `tc_recv`, the close of the server |
| `ConnectFails`, `PollTimeout`, `Reconnect` | `tcpsrv_error`, `tcpsrv_poll`, `ptimer` of the client's connection |
| `StrayReceives`, `StrayConnects`, `StrayEnds`, `StrayException` | a client started on a freed configuration: its answer in `tc_recv`, the port it writes (`tcpsrv_client_connect`), the pcb it abandons (`find_tcp_pcb`), an exception |
| `WifiLost`, `WifiGotIp` | `wifi_handle_event_cb` with `close_all_service` and `open_all_service` |
| `Tick` | `system_get_time`, and the error timer running down |

The list is numbered in its order; a request has an interval and the time since
its last answer, nothing else.  `tcp` is the client's view of `tcp_srv_conn.c`:
`tc_servcfg`, what is allocated at each address of a configuration, the one
connection, and which request was written to it.  A freed address may be given
to the next configuration, the web server's as well.  `last_run` is compared
with a counter that wraps: after a new ini file any age is possible.  In between
ages only grow, up to `AgeMax`: the counter of microseconds turns in 71 minutes,
and a request that was not answered for as long may look young once more.

`DnsFound` does what the callback does on whatever `tc_servcfg` points to.  On the
client's own configuration it starts the connection.  On one that
`close_all_service` freed it starts a stray client (`stray`), which no list of
connections has and no `tc_close` finds; on one that the web server was given
meanwhile it takes the web server's port away (`"deaf"`: it still has the pcb that
listens, whose number is not the configuration's any more).  The state of a stray
client is not followed, nor how many there are: as long as the program runs its
answer may come in any state of the client's own process, and be written to
`iot_data_processing` when that is NULL; any call through the freed memory may end in
an exception (`Restart`).

### 2.5 `WebServer`

| Action | Code |
|---|---|
| `Accept`, `Error`, `CloseStarts`, `CloseAgain` | `tcpsrv_server_accept`, `tcpsrv_error`, `tcpsrv_server_close` from the client's close or a poll, the poll in `SRVCONN_CLOSEWAIT` |
| `Request` | `webserver_received_data` until the answer begins or an upload does |
| `Upload` | `web_rx_buf` and `upload_boundary` |
| `Sent` | `webserver_send_fdata` from `webserver_sent_callback` |
| `OpenServices`, `CloseServices` | `webserver_init`, `close_all_service` |
| `PcbEnds` | lwIP is through with a pcb |

`page[c]` holds the flags of a connection that decide what its end does
(`SCB_FCALBACK`, `SCB_SYSSAVE`, the disconnect callback `webserver_reinit`),
`files[c]` is `bffiles`, and `stubs` the entries of `WEBFSStubs` in use.  The
operator `tcpsrv_list_delete` is the one place a connection ends; it runs
`webserver_disconnect`, which closes the files, saves the settings and, for
`webserver_reinit`, drops every other connection.  HTTP, headers and the text of
a page are left out: any request may open a file or none, succeed or fail.

`WEBFSInit` at the end of a disk upload frees all stubs, also those that other
pages have open.  From then on handles are shared; `upset` records it, and the
requests of such a state are not followed any further.

### 2.6 `History`

| Action | Code |
|---|---|
| `AskMinutes`, `AskDays` | the first callback of `web_get_history`, `web_get_history_bydays` |
| `Retry` | the callback again, with the next buffer (`SCB_RETRYCB`) |
| `MinuteRow`, `MinuteWaits`, `MinutesEnd` | one turn of the loop of `web_get_history` |
| `HourRow`, `HourWaits` | the sums of the hours behind it |
| `DayRow`, `DayWaits`, `DaysEnd` | one turn of the loop of `web_get_history_bydays` |
| `NewMinute`, `NewDay` | `update_cnts`, the by-day part: one more element, and the erase of the next sector |

Minutes and days are counted from the first one in the ring, so that a row can
be compared with what it shows.  A ring is a function of how many elements were
written (`Cell`); that the accounting keeps its rings like this is the subject
of `PowerMeter`.  A callback is not interrupted (`busy`), the steps between two
callbacks are.

A page of days keeps both counts in one word, `hst_bydays_days`: the rows left in
its lower half (`left`), the days taken off `LastDay` in the upper one (`date`).
`Asked` is what the cookie `ChartMaxDays` may hold: some rows, more than the half
word counts, or 0; `NextDay` is `xNextDay` with its underflow.

### 2.7 Proof and model-checking modules

`MercuryProof`, `MercuryRequestsProof`, `PowerMeterProof`, `PowerRingsProof`, `FlashCfgProof`,
`IotCloudProof`, `WebServerProof` and `HistoryProof` EXTEND the components and
`TLAPS`.  `MCMercury`, `MCPowerMeter`, `MCFlashCfg`, `MCIotCloud`, `MCWebServer` and
`MCHistory` define the model values of the runs.

## 3. The runs

| Run | Asks | Shows |
|---|---|---|
| `MercuryQueue` | `TypeOK`, `QueueFits`, `OnlyHeadInFlight`, `NoDeadHead`, `MonthsInArray`, `ArchiveComplete` | the queue under every web command, foreign and late answers, refused connects, expired sessions, sleep and a midnight |
| `MercuryLive` | `SetTimeBracketed`, `AdminReturns`, `ArchiveIsRead`, `KeepsReading` | with two losses, a restart of the driver or overlapping periods the clock is set only inside its bracket and the meter is brought back to the user level; in the end the archive of the day is read, and the clock for ever |
| `PowerCount` | `TypeOK`, `CountedOnce`, `CountdownRuns` | no energy twice: flash and FRAM failures, torn FRAM writes, bad places, a halted FRAM, a power failure at any step, every web command |
| `PowerRings` | `EndMarkers`, `DaysNotMixed`, `DaysAligned` | more than one turn of both rings with two power failures |
| `PowerLive` | `AllCounted` | what was read is counted within two minutes, also after a flash failure or a crash |
| `PowerTwice` | `PowerCntIsNotProcessed` | finding |
| `FlashCfg` | `TypeOK`, `FitsSector`, `ImplementsConfigStore` | any sequence of saves with packs and a stop at any flash operation: the log implements the store by id |
| `IotCloud` | `TypeOK`, `TimerGuardsRun`, `ConnOfRun`, `AnswerOfRequest`, `NoLostConfig`, `FlagReleased`, `EachRequestTried` | sends, answers, silence, no memory, a new ini file and losses of the Wi-Fi in any order |
| `IotWeb` | `WebServerServes` | finding |
| `WebServer` | `TypeOK`, `HandlesOwned`, `CallbacksOfLinked`, `SettingsKept`, `Released` | two clients whose pages, includes, uploads, failed closes, errors and server restarts end in any order |
| `History` | `TypeOK`, `DayRowsDated`, `MinutesGoBack` | two history pages read in several buffers while minutes and days are written |
| `HistoryRows` | `MinuteRowsDated` | finding |

**Bounds of Mercury.**  The queue has its real shape (`ArchBuf` + current array
+ 1 slots) with the smallest archive portion the code can work with (6: a year
portion has six words) and no numeric request before `Total_T1`; three to six
months give one or two month portions, after which the index wraps back to
"received".  `MaxTrouble` bounds disturbances, commands, overlapping periods and
midnights together: any two of them meet in any state of an exchange, in
`MercuryQueue` with at most one of each kind, in `MercuryLive` also two losses, which
is "lost, repeated, lost again" with `RepeatMax` 1.  `MercuryLive` lets no session
expire and refuses no connect, and knows one page command, the one that restarts
the driver: what is left is what the clock correction has to survive.

**Bounds of PowerMeter.**  Two sectors per ring of two elements (`PowerCount`:
one), days of two minutes (`PowerCount`: seven), so that a run crosses sector,
ring and day boundaries; `MaxLoop` 2 stands for 400, and `MaxDown`, the minutes
without power, reaches beyond it.  `PowerRings` covers ten minutes, or five days,
on rings of four elements.
One fault and one crash: each property is about a step followed by
one failure and one recovery; `PowerRings` allows a second power failure during
the recovery.

**Bounds of FlashCfg.**  Nothing bounds the number of saves, packs or stops: the
state space is finite because the sector is.  Three ids, objects of two sizes,
and two different objects of one size; the sector holds three of the larger
ones exactly, so that a pack can leave it full to the last word, the case
`FitsSector` is about.

**Bounds of IotCloud.**  Two requests are a first one, which has a next, and a last
one, which has none; their intervals are longer than the error timer, so that a
request may be due again or not when the list comes round.  (Three requests with
one loss of the Wi-Fi were run once, without a violation.)  Two addresses are all
that can be in use at once (client and web server).  One request may find no
memory, the Wi-Fi is lost twice, and one new ini file is read: a query that
outlives its configuration takes one loss, and the stray client it starts lives
through the second one.

**Bounds of WebServer.**  Two connections; three handles that can be opened and a
list of two includes, so that both limits are met while the other page has a file
open.  Nothing bounds how long the clients go on.

**Bounds of History.**  A ring of six minutes in three sectors and one of three days
with a sector each, two hours to a day, buffers of three rows.  A page of three
rows needs two buffers; four days turn the ring of days once; eleven minutes let
the writer go almost twice around the ring of minutes and past a reader that began
in the second turn, which is where the distance in `MinutesGoBack` is met: three
elements can lie between two rows, two that were gone over when a buffer was full
and the place behind the ring (with one element less the property is violated at
eleven minutes, and holds at ten).  Two pages by days compete for `HistorySums`.
`HalfWord` 4 stands for 65536: pages are asked for with none to three rows, and
with five, one more than the word counts.

**Initial states.**  The configuration store starts erased.  A device whose FRAM was cleared (`NewDevice`, what
`reset_data` leaves), and one in use (`InUse`), as it is after a first start, the
command `LastDay` and a power cycle.

**Deadlock** is checked in every run but those of `PowerMeter`, which bound the
meter's clock, so that the model stops at `MaxTime`: `CHECK_DEADLOCK FALSE`.

**Fairness.**  `LiveSpec` of `Mercury`: weak fairness of the receive timer, the
event task, the request timer and the one second timer (periodic timers and the
SDK's loop) and of the meter's answers.  Faults, web commands and midnights are
bounded, so that the line is quiet in the end, but they may come at any time.
No fairness is assumed for lost frames, sessions or commands.  `LiveSpec` of
`PowerMeter`: the one second timer, the readings of the meter, and the passing
of time up to its bound.  `IotCloud`: time passes, the error timer's function runs
when it is due, the Wi-Fi comes back, and the meter is read again and again, also
when a send has nothing to do for a while (strong fairness of `Send`, which
`KeepsReading` of `Mercury` stands for); nothing is assumed of the server, the
network or DNS.  `WebServer`: a connection that waits too long is closed by the
poll, and a close that failed is tried again until there is memory for it; the
waiting times `web_twrec` and `web_twcls` are not 0, which stands for ever
(`web_srv.c:2114`).

**Mutants.**  Every property of every passing run is violated by a mutant of a
definition it depends on (a batch queued without the test for room, a countdown
that runs while the FRAM is halted, an erase only at the start of the ring ...).
They stand next to the definitions they change, marked "mutation".

## 4. Findings

Three runs find a violation of what a comment of the code says:

* `PowerTwice`: when `maxloop` ends the loop with energy left in `PowerCnt`
  (the device was without power for more than 401 minutes), the next call adds
  `total - TotalCnt` again, which includes that energy: it is counted twice.
  `power_meter.h:60` calls `PowerCnt` "not processed count".
* `IotWeb`: `close_all_service` frees the client's configuration and leaves
  `tc_servcfg` pointing to it (`iot_cloud.c:74`); the `iot_cloud_send(0)` behind it
  returns at its guards.  When the Wi-Fi is back the web server may be given the
  freed address, and the next `tc_close` closes it: the port is set, the services
  are open and nothing listens.
* `HistoryRows`: from pointer 0 the history by minutes goes to
  `ArrayOfCntsSize`, one element behind the ring (`web_int_callbacks.c:551`; the
  history by days subtracts the element, l. 670-671), and the pointer is moved
  before the test for a full buffer (l. 571), so that each buffer skips one
  element.  The later rows carry the date of another minute.

Seen while modelling, without a run of their own:

* *Driver.*  The archive is "received" (status 1, `mercury.h:43`) although the
  request for `Yesterday` was dropped after its repetitions (`mercury.c:467`);
  `ArchiveComplete` is about undisturbed lines for this reason.  With a repetition
  count of 0, which the page accepts (`cerr`, `web_int_vars.c:374`), the same
  happens on an undisturbed line: `irda_init` leaves the posted end-of-reception
  event, which then has a request judged before its answer is there.  A custom command
  that is answered by a 4-byte status stays "waiting", 0xFF, for ever
  (`mercury.c:403`, `mercury.h:55`).  A refused connect is marked for repetition
  (l. 417, "reconnect" in l. 416), and the common end of the handler (l. 527)
  deletes it; a clock command behind a refused administrator connect is then sent
  at the user level, and refused.
* *Accounting.*  When a bad FRAM place moves the record, the saves that follow
  write only the by-minute part; a power failure then starts the device with
  `FRAM_Status` 0 and a by-day part that was never written (`power_meter.c:238`).
  `FRAM Reinit` (l. 144-153) lies behind a guard (l. 139) that returns whenever
  `FRAM_Status` is not 0, so that after an FRAM error the accounting stays off
  until a restart.
* *Web server.*  `WEBFSInit` (`web_srv.c:1610`) frees the stubs of pages that are
  being sent, and their handles are then given to others; pages in progress go on
  reading during an upload although the disk is locked; the first of two uploads
  to end unlocks it for both; an upload that is broken off leaves it locked.  The
  last handle of the table is never used (`==` in `webfs.c:136`).  In
  `SRVCONN_CLOSEWAIT` the forced close after some tries is never reached, because
  `recv_check` does not count there; and a pcb that is reset after a failed close
  leaves its connection in the list (the exception in `Released`).
* *Cloud client.*  A loss of the Wi-Fi frees the configuration and leaves the query
  for the server's address pending.  `tc_dns_found_callback` only tests `tc_servcfg`
  for NULL (`iot_cloud.c:242`) and starts a client on the freed memory, or on the
  web server's configuration when that was given the address.  No `tc_close`
  finds such a client: it sends the request of the moment beside the running one,
  its answer is credited to `iot_data_processing`, which may be NULL by then (l. 121), and the
  port it binds is written over the web server's.  `ConnOfRun` and
  `AnswerOfRequest` hold until that happens (`stray`); no comment or test says
  more, so that there is no run for it.
* *History.*  0 in `udata_start` means "not begun": when hour 0 is the one that
  did not fit, the minutes are gone through again and the hours printed twice
  (l. 598-606).  A history by days whose pages are separated by a midnight takes
  its dates from the new `LastDay`, and two pages with totals share
  `HistorySums`; `DayRowsDated` is about pages that neither happens to (`alone`).
  The page calls 0 days "all" (`WEBFiles/history.htm:31`; the cookie is 31 after a
  start, `power_meter.c:319`).  A history by days then has no row at all, and one
  with totals takes 1 off the 0 (l. 694): all ones, so that the second row is dated
  65535 days before `LastDay`, the third one `LastDay` again, and so on.  65536 days
  or more leave their upper half in the days taken off, and every date is wrong.
  The model has these pages; `DayRowsDated` is about the others (`counted`), and
  without this condition the run finds it violated.

## 5. What is proved

TLAPS checks these for every value of the constants that satisfies the named
assumption of each module (`MercuryAssumption`, `PowerMeterAssumption`,
`FlashCfgAssumption`, `CloudAssumption`, `WebAssumption`, `HistoryAssumption`);
bounds on faults, commands and time are constants too, so the theorems hold for
any number of them.

* `MercuryProof`: `TypeCorrect`, `QueueNeverOverflows`, `OneRequestOnTheLine`,
  `QueueNeverStalls`.  The invariant `IInv` describes the queue: its length is
  within its size, everything behind the head waits to be sent, and the head is
  deleted only while the driver sleeps.  Every handler is a composition of three
  kinds of steps on the queue (mark the head, drop and send, append a batch that
  fits), each a lemma; `QueueStep` puts them together per action, `TypeStep` does the
  same for the other variables.
* `MercuryRequestsProof`: `MonthsStayInArray`, `AdminSessionEnds`, `ClockSetAsAdmin`,
  `ArchiveKept`.
  The invariant of the first (`ArchiveInv`) adds that the portion
  `pwmt_arch.Status` stands for begins in the array, which is what the test in
  `NextStatus` keeps and the page command resets, and that every queued request
  is of the array.  A portion that begins in the array also ends in it, because
  the array is whole portions (`PortionEnds`), here 12 months in portions of 4.
  The other two are `AdminReturns` and `SetTimeBracketed` under `HonestAnswers`:
  the meter refuses no connect, and no frame of a disturbed line is a valid
  answer.  Both conditions are needed: a refused connect as administrator is
  deleted like an answered one (see 4), and a late frame of a custom command is
  taken for the answer of whatever request is at the head.  The bracket by itself is
  not inductive.  `BracketInv` says that the three requests lie in a row in the
  queue, the first of them missing only when the second is the head
  (`Bracketed`); that an answer to a connect at the head means that the meter's
  channel has changed (`HeadFine`), so that deleting it keeps the order of
  session and queue; and that the connect as user is queued as long as the
  session lasts (`UserBehind`).  Requests are only ever appended in the batches
  that the handlers make, three of them with the clock in the middle
  (`RequestBracketed`), the head is only dropped or marked (`SentBracketed`,
  `JudgeBracketed`), and everything else forgets the whole queue and the
  connection at once.
  `ArchiveKept` is `ArchiveComplete` for a repetition count above 0 (`RepeatMax`; the
  default is 3, `power_meter.c:308`), without which it is false (see 4).  Its
  invariant (`QuietNow`) speaks of undisturbed behaviours only and has two parts.
  `CalmLine`: what is in the buffer answers the request at the head, a value
  either with data or with status 5, and the only request judged without an
  answer is one met by an event from before `irda_init`, which finds the
  repetition counter full (`InvalidIsStray`); so no request of the driver's own is
  given up and the driver never sleeps.  `InOrder`: as long as `Yesterday` has not
  come, the status is 0 or 2 and of every two words `Today` and `Yesterday` in the
  queue the second stands in front.  `Today` therefore never reaches the head, and
  the address that ends a portion (`LastOfPortion`), which below status 4 lies in
  front of `Month`, is odd for both of these and is no word that is asked for
  (`FirstPortion`): the status cannot move.  When `Yesterday` leaves the head it
  was read, or the whole queue is forgotten.
* `PowerMeterProof`: `EnergyCountedOnce`, `TypeCorrect`, `CountdownNeverWraps`.
  `CountedOnce` is not inductive: after a power failure the record is what the
  FRAM holds.  `IInv` adds that every image in the FRAM that a restart would
  accept is *settled*: nothing waits in its `PowerCnt` and its `TotalCnt` is
  not above the meter's total; and that `PowerCnt` is empty outside the
  loop.  A save happens only behind the loop, hence saves only settled
  records; a torn write is settled because `PowerCnt` and `TotalCnt` are written
  before the `LastTime` that makes an image acceptable (`WrittenSettled`).
* `PowerRingsProof`: `EndMarkersKept`, as long as no flash operation fails.  An
  erased element is not inductive, nor is one in front of the pointer: a restart
  takes the pointers back to what the FRAM holds.  The invariant (`Markers`) is
  that the *last element of some sector* is erased in each ring: only a pass that
  enters the next sector programs such an element, and it erases all of that
  sector, its last element too (`ProgramKeepsEnd`, from the assumption that a ring
  is whole sectors).  It needs nothing of the pointers but that they are numbers.
* `PowerRingsProof`: `DaysNeverMixed` and `StoredDaysDated`, which are
  `DaysNotMixed` and `DaysAligned` for executions in which no more than `YearGap`
  days are missed at a time (`WithinYear`; behind it `StoreDay` is not repeated for
  every day, and the record is taken for a new one).
  *Not mixed* holds with FRAM faults of every kind, torn writes included
  (`FramFaultsOnly`).  The invariant is about the FRAM, not the memory: the ring
  *takes* the next day of the image a restart would read (`Takes`: the element at
  its pointer is erased, zero, or already holds that very day, and what lies behind
  it in the sector is erased).  The record in memory has the days of the image (`SameDay`) or is about to be saved, with a
  pointer whose element is erased (`Ahead`).  After a torn write the image has
  the new pointer and the old date: the element is erased, and takes any day.
  *Aligned* is false after a torn write, which stores the day a second time: it is
  proved while only the power fails between writes (`OnlyPowerFails`), for the
  record in memory and for the one in the FRAM together (`Dated`, `DatedInv`).  The
  last place of the ring is left out of the counting because one element of it is
  always erased (`Markers`).  A flash failure leaves `LastDay` advanced
  (`power_meter.c:192`), a command of the page sets it: both move the dates, and
  the run without them is what `DaysAligned` is about.
* `FlashCfgProof`: `StoreKept` (the refinement), `StaysInSector`, `TypeCorrect`.
  The first part is about logs: what is read after an object was appended
  (`ReadAppend`), after a body was written (`BodyFacts`), and from the beginning
  of a log with one object of an id at most (`ReadPrefix`).  `IInv` adds to the
  types that every object ends within the sector (`LogOK`); that the copy has one object of an
  id at most and none of the one to save, hence, by a count of the ids, room for
  it (`CompactOK`, `PackRoom`); that it agrees with the log on the ids met so far
  (`CopiedOK`); and that the sector holds the beginning of the copy while it is
  written back (`RestoredOK`).  The step lemmas follow the actions, once for
  `IInv` and once for the step of `ConfigStore` each action is.
  The assumption says that the sector holds the largest object for every id:
  the code does not test it, and does not need to with nine ids and objects
  of up to some 320 bytes.

* `IotCloudProof`: `TypeCorrect`, `TimerAlwaysGuards`, `ConnOnlyOfRun`,
  `AnswerCredited`, `NoConfigLost`, from `CloudInvariant`.  The invariant is the
  conjunction of the properties with the facts they rest on: `iot_data_processing`
  points into a list that exists, `tc_servcfg` holds whatever is allocated for the
  client (`Owned`), and, until a query outlives its configuration (`stray`), only a
  running process has a connection or a query, never
  both at once.  Every handler is made of `tc_close`, `tc_init` and the loop `TryFrom`, and there
  is one lemma for each.
* `WebServerProof`: `TypeCorrect`, `NoHandleLost`, `NoFreedCallback`,
  `SaveNotForgotten`, from `ServerInvariant`.  The invariant says in addition that
  a connection that is not in the list has neither page nor files, and that a page
  that was not asked for yet saves nothing.  The lemmas are about the list
  of files (`Pushed`, `Popped`, closing all of them) and about the ends of a
  callback (`GoesOn`, `tcpsrv_list_delete`, `Answer`); the actions are combinations.
* `HistoryProof`: `TypeCorrect`, `DaysDated`, from `HistoryInvariant`, and
  `MinutesNeverTurn`.  A page of days
  that is `alone` and `counted` has its pointer as many elements behind the ring's as rows were
  taken off `LastDay`, its total is that of the day before them, and the rows left
  do not reach the end of the half word (`Behind`, `NextDayOK`);
  what lies k elements behind the pointer of a ring is what was written k before
  the last, unless it is erased (`CellBehind`), and the walk ends before it comes
  to its beginning (`OneMoreBehind`).
  A page of minutes has lost count of its rows (finding `HistoryRows`), so that
  `BackInv` follows its pointer from the element of the last minute it showed
  (`Placed`): there, one place on when a buffer was full, or at most two places
  behind the first elements when a row was read behind the ring.  The next
  row is at most three places behind (`NextPlace`), where an earlier minute lies
  until the ring is written to within three elements of a whole turn
  (`EarlierBehind`); and a row never shows an erased element, because a sector is
  whole words and the walk ends at an erased word (`FoundShown`).  The proof
  attempt found the distance wrong by one in an earlier form of the property,
  which a run with nine minutes had not met.

Only model-checked is liveness (`ArchiveIsRead`, `KeepsReading`, `AllCounted`,
`FlagReleased`, `EachRequestTried`, `Released`): liveness under fairness is out of
the prover's reach.

## 6. Limits

* One fault per step, and a bounded number of them in the runs.
* `DaysAligned` is checked without flash failures: `LastDay` is advanced before
  the write that may fail (`power_meter.c:192`), which leaves the dates one day
  off and no reader can tell.
* `DaysNotMixed` is about a device in use; the first start and a gap of
  more than a year store the day before the archive's instead.
* A double count by overflow of `Cap` or by `Huge` needs more energy than the
  meter can deliver in a minute; the realistic case is `maxloop`.
* `LastTotal`, `LastTotal_T1` and the Wi-Fi reconnection of the one second
  timer are left out of `PowerMeter`; they touch none of its variables.
* Values of the archive are no data of the models; `Yesterday` stored after
  midnight for the wrong day (`power_meter.c:185`) needs the composition of
  `Mercury` and `PowerMeter`, and each of them alone has hundreds of thousands of
  states at its smallest instance.
* A pack that is cut short can lose every object of the configuration store;
  `ConfigStore` says so, and the readers then take their defaults.  A flash read
  that fails is not modelled.
* The command `LastDay` on a record whose by-day part was never written
  (`PtrCurrentByDay` blank) is not exercised.

* `SetTimeBracketed` and `AdminReturns` are checked with a meter that accepts every
  connect: a refused administrator connect is forgotten (see 4), and the command
  behind it reaches a meter that is open at the user level.
* What a request of the cloud client contains and how an answer is parsed are left
  out.  Of a stray client only its effects on the client and the web server are
  modelled, not its own state; a second query, or a second connection on the
  client's configuration that it leads to, is merged into it.  A failed
  `webserver_init` is not among the faults.
* The commands `TotalCnt` and `LastDay` of the page store 0 or the value read
  (`web_int_vars.c:342`, `346`), not any number; `uart_tx_buf` takes a whole request
  (`mercury.c:223`).
* After `upset` the web server's pages are not followed: two pages with one
  handle read and close each other's file.
* Freed memory is followed where a property looks at it (`CallbacksOfLinked`,
  `NoLostConfig`); what code does that goes on with a connection its own
  disconnect callback has freed (`webserver_reinit`) is not.

### Not modelled

* *IrDA UART driver* (`web/uart_tcp.c`).  The echo lock falls when the receiver has
  been idle for a while; whether that is before the answer comes is a matter of
  the length of a byte, the period of the transmit timer and the receive timeout,
  all in microseconds.  A model without real time could only allow both.
* *External watchdog.*  The same in milliseconds: it samples two pins of the FRAM,
  and what looks like a halt depends on how often an I2C transfer pulls them low.
* *Calendar conversions, CRC.*  Arithmetic without a state; the first is newlib's.
* *SDK, lwIP, headers, debugger stub, tools.*  Third-party code and most of the
  repository's lines; what the modules need of lwIP (callbacks, pcbs, failing
  closes) is in the actions that stand for it.
* *Compiled-out features* are not part of the firmware.

## 7. Plan

1. `Mercury`, `MCMercury`, `MercuryProof` - done.
2. `PowerMeter`, `MCPowerMeter`, `PowerMeterProof` - done.
3. `ConfigStore`, `FlashCfg`, `MCFlashCfg`, `FlashCfgProof` - done.
4. `IotCloud`, `MCIotCloud`, `IotCloudProof` - done.
5. `WebServer`, `MCWebServer`, `WebServerProof` - done.
6. `History`, `MCHistory`, `HistoryProof`; `MercuryRequestsProof`, `PowerRingsProof` - done.
7. Left: the composition of `Mercury` and `PowerMeter` for the value of
   `Yesterday` at midnight, with an abstraction of the driver small enough for it.
