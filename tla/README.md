# yyy: formal models

TLA+ models of the firmware in `src/`, checked with TLC and, in part, proved
with TLAPS. `PROJECT.json` lists the components, the runs, which definition
stands for which lines of the source, the hazards and the theorems. Paths below
are relative to `src/`, or to `src/yy1/main/` or `src/yy2/main/` where the board
is clear.

## 1. The system

Two ESP32 boards. **yy1**, the vision hub (ESP32-S3, two cores), has a camera,
gas and climate sensors, an OLED, a flash log and a web server. **yy2**, the
scout (ESP32-C5, one core, one radio for two bands), polls the hub over 2.4 GHz
and talks to Telegram over 5 GHz. Both run FreeRTOS tasks with fixed
priorities. The hub's `yyy` scripts build and flash the two.

### yy1, the vision hub

| Part | State it keeps | Operations | Talks to | What must hold |
|---|---|---|---|---|
| Frame pool `cam/frame_pool.c` | slots with reference counts and numbers, `latest`, `next_seq`, table of subscribers | subscribe, unsubscribe, acquire, publish, get_latest, wait_newer, release | one producer, four kinds of consumer | no buffer is written while it is read; counts are exact; no wake-up is lost; frames keep coming |
| Camera pipeline `cam/cam_pipeline.c` | failure counters | capture, copy, publish, reinitialise | camera driver, frame pool | gives up a frame rather than wait |
| WebSocket stream `net/ws_stream.c` | client table and counter, one sender task per client | open, send, give up, close | frame pool, HTTP server | the counter agrees with the table; a stream that ends gives its slot back; a sender sends to its own client only |
| Snapshot `net/stream_handler.c` | none | get_latest, send, release | frame pool | |
| Motion and blobs `vision/motion_detect.c`, `vision/blob_finder.c` | background model, 16 tracks, labels | one pass per frame | frame pool, alarm engine, telemetry | labels are connected components; every blob has a track, and an alert is earned by its own track; a still scene clears |
| Face detector `vision/face_detect.cpp` | last result | one pass per frame | frame pool | |
| JPEG DC decoder `vision/jpeg_dc.c` | bit reader, Huffman tables | decode the DC terms | motion | whatever is lost of a frame, what is returned is what the camera meant |
| Sensor hub `sensors/*.c` | last readings, device handles, a failure counter | poll, reset the I2C bus | alarm engine, telemetry | a stuck bus is reset, again and again |
| Alarm engine and gas analyzer `alarm/*.c` | inputs, alarm state, cooldown | feed, evaluate, fire, clear | sensor hub, telemetry, transport | a hazard is announced, and the alarm ends with it |
| Flash log `storage/bist_logger.c`, `ext_flash.c` | write index; the flash | boot scan, erase, program, wrap | telemetry | recent records survive failures and power cycles |
| Wi-Fi and HTTP `net/wifi_manager.c`, `http_server.c` | disconnection counter, event bits, server handle | connect, retry after a sleep, restart the chip, start the server | all servers | the bits tell the truth; a restart is earned; the station never stays down |
| System services `app_main.c`, `system/*.c` | the order of the start | start, restart when a step fails | all of the above | |
| Web authentication, admin panel, telemetry, OLED | one struct under one mutex; pages | read, format | | |

### yy2, the scout

| Part | State it keeps | Operations | Talks to | What must hold |
|---|---|---|---|---|
| Dual-band Wi-Fi `net/wifi_dual.c` | `connected`, `current_band`, `task_lock`, event bits | switch to 5G, release, the switcher's window, event handler | every sender, the driver | the flag agrees with the radio; one holder of the lock |
| Telegram client `net/telegram_client.c` | `send_mutex`, offset, response buffer, mute | send, poll, commands | dual-band Wi-Fi, registry | a message is sent or given up; a command is executed once |
| Sensor registry `system/sensor_registry.c` | last telemetry and edges, under one mutex | poll one, relay edges, report | Telegram, reporter | an alarm is relayed, and others get the mutex |
| Status reporter, watchdog | none | report, feed the watchdog | registry | is never late |
| Bridge and heartbeat `net/espnow_bridge.c` | timers | heartbeat, status replies | registry, Telegram | a report is sent again and again |
| Health and boot notification `system/scout_health.c`, `app_main.c` | counters; a time stamp in flash | tell of a restart, with a rate limit | Telegram | notices keep their distance, and none is suppressed unless one was sent lately |
| Admin panel, LED | | | | |

### Where it is hard

* *Interleaving*: publish and release around the pool mutex; the stream's
  counter, tested and changed outside the mutex of its table; three writers of
  `connected`; one `task_lock` flag for many senders; one response buffer that two
  tasks fill and one of them searches; the alarm is raised from a snapshot and
  cleared from live inputs read without a mutex, by a clock that goes on between.
* *Names that outlive what they name*: a socket number is given to the next
  session while a sender still has it; a track identifier is given out again
  after a wrap; a track's slot, with its flags, goes from one track to another.
* *Lost or late wake-ups and timeouts*: the frame notifications, the event bits
  of the Wi-Fi wait, an event handler that sleeps while events queue up, the
  watchdog against a send under a mutex, the alarm's cooldown.
* *Partial failure*: a flash command that failed after it took effect, and one
  the chip ignored that returned `ESP_OK`; a sensor that reads as zero; a camera
  that freezes and a driver that does not come back; an address that is lost
  while the link stays; a frame that lost its end; a message that was not sent
  and is counted as sent; a time stamp that cannot be read.
* *Restart*: the boot scan of the log; the offset of the Telegram poller; the
  notice of a restart and its rate limit; a restart in the middle of the start.
* *Order*: labels flattened in one pass; boxes merged while they grow; tracks
  aged on a path of their own when a frame has no blobs.
* *Limits*: slots, subscribers, clients, labels, tracks, wrap-around of the log.

`PROJECT.json` has each of these at its line under `hazards`.

## 2. Modules

| Module | Models | Built on |
|---|---|---|
| `FrameFeed` | what the frame pool promises: pictures appear, consumers look at the newest complete one, none changes while it is looked at | |
| `FramePool` | the pool with `cam_task`, the watchers, the WebSocket senders' life, and `/snapshot` | refines `FrameFeed` |
| `FramePoolProofs` | theorems about `FramePool` | `FramePool` |
| `MCFramePool` | instances for TLC | `FramePool` |
| `Loops` | the counted loop the image code is made of | |
| `JpegDc` | the DC extractor: segments, Huffman tables, bit reader, MCUs, restart markers, truncation | `Loops` |
| `JpegCamera` | the camera's encoder (external): what `JpegDc` is checked against | `Loops` |
| `Blobs` | difference mask, dilation, labelling by union-find, merging of near boxes | `Loops` |
| `JpegProofs` | theorems about `Loops`, `JpegDc`, and `JpegDc` reading what `JpegCamera` writes | `JpegDc`, `JpegCamera` |
| `Tracker` | association, ageing, escalation and publishing of tracks | |
| `MotionDetect` | the motion task: camera to tracks, frame by frame | composes the five above |
| `MotionProofs` | theorems about `Blobs`, `Tracker` and `MotionDetect`, which refines `Tracker` | `MotionDetect`, `JpegProofs` |
| `MCMotion` | cameras, scenes and headers for TLC | `MotionDetect` |
| `WsStream` | the client table of the streams, handler, senders, the server's sockets | |
| `WsProofs` | theorems about `WsStream` | `WsStream` |
| `WifiLink` | the hub's station: event queue, handler that sleeps, counter, HTTP server | |
| `CamTask` | the camera driver and the loop that reinitialises it | |
| `SensorBus` | device handles, failure counter and reset of the I2C bus | |
| `HubBoot` | the start of the hub, and the three above running beside it | composes them |
| `HubProofs` | theorems about `HubBoot` and `BistLog` | `HubBoot`, `BistLog` |
| `BistLog` | the flash log with a chip that may ignore commands, failing operations and power loss | |
| `GasAnalyzer` | the classification of readings | |
| `AlarmEngine` | the sensor poll and the alarm task | `GasAnalyzer` |
| `AlarmProofs` | theorems about `AlarmEngine` and `GasAnalyzer` | `AlarmEngine` |
| `MCAlarmEngine` | rooms for TLC | `AlarmEngine` |
| `DualBand` | the radio, the event handler, `connect_to_band` statement by statement, the band switcher | |
| `Scout` | the tasks that use the radio: registry, senders, reporter, watchdog | composed with `DualBand` |
| `ScoutReports` | the notice of a restart with its rate limit, the heartbeat, restarts | |
| `ScoutProofs` | theorems about `Scout` and `ScoutReports` | `Scout`, `ScoutReports` |
| `TelegramPoll` | the poller: offset, response buffer, commands, mute, restarts | |
| `TelegramProofs` | theorems about `TelegramPoll` | `TelegramPoll` |
| `MCTelegramPoll` | the messages people post in the instances for TLC | `TelegramPoll` |

Operators named as *mutants* in comments are variants of an action with one
plausible bug. They are no part of any specification; `PROJECT.json` names the
property each of them breaks.

### FramePool

A step is what the code does without letting another task in: a section under
the pool mutex, one atomic operation on a `refcount`, one notification, or local
work between two of these. `frame_pool_publish` is therefore `Publish` (under
the mutex), `DropOldLatest`, one `NotifyOne` per copied subscriber, and
`PublishReturns`; between any two of them consumers take, sleep, wake, release,
unsubscribe and are deleted. Notifications are a flag per task (the code clears
the count when it takes it). `Wake` may come without a notification: every call
has a timeout. A full table leaves a watcher unsubscribed, and as in the code it
goes on. Picture contents are the number they are published under, so that a
torn picture would be seen.

The refinement maps what a consumer looks at to the contents of the buffer it
holds. That the picture a consumer is looking at never changes is thereby a
consequence of implementing `FrameFeed`.

### JpegDc, JpegCamera, Blobs, Tracker, MotionDetect

The pipeline from the camera's bytes to the tracks is modelled value by value,
since it is arithmetic that goes wrong in it. `JpegDc` follows `jpeg_dc.c`: the
segments of the header, the canonical Huffman tables, a bit reader that unstuffs
bytes and stops at markers, the blocks with their predictors, and what is filled
in when the data end too soon. `JpegCamera` is the encoder of the JPEG standard
(the camera is not in the repository) and is what a picture is encoded with
before `JpegDc` reads it; the two were written from different texts. `Segment`
says what a header may hold. `jpeg_dc.c` does not check the numbers of tables and
components it indexes with; that they are of tables and components there are is
assumed of the camera (`HeaderAssumption`). A table that no segment has given is
all zeros, as `memset` leaves it.

`Blobs` has one operator per image function. A mask is a function from pixels to
intensities, a union-find forest a function from labels to labels. The loops
over pixels, boxes and provisional labels are folds (`Loops`), in the order of
the code, because what they do to a structure that changes under them depends on
it. `Tracker` has one step for each blob, then ageing and publishing, as
`tracker_update` has; the smoothing of a position, a float in the code, may take
either neighbouring integer.

`MotionDetect` lets any picture, with any detail, any of the losses in
`LostAtRun`, and any header arrive, with memory that holds anything before it is
written. One frame is extracted, compared with the last one, dilated, labelled,
merged and tracked; a frame that cannot be extracted is passed over, and as in
the code nothing ages then (`motion_detect.c:425`). `DcIsExact`, `LabelsAreComponents` and `MergeIsFinest`
compare an algorithm with what it should return over all inputs of the instance;
their references are the encoder, reachability over neighbouring pixels, and all
divisions of the boxes into groups.

### WsStream

The handler runs on the one task of the HTTP server: its test of
`s_client_count`, the slot it takes under the mutex, the increment outside it
and the start of the sender are steps, and senders run between them. The part of
`clients_release_slot` that is under the mutex is two steps, because the counter
is read without it (`Locked` keeps others out of the mutex). A session is a use
of a socket number; `HangUp` and `CloseAsked` end it and `Accept` gives the
number to somebody else, also while a sender still uses it: `own` is a history
variable that says whether it is still the sender's client. Frames are unseen or
not; what a sender sees of the pool beyond that is in `FramePool`.

### WifiLink, CamTask, SensorBus, HubBoot

`WifiLink` has the radio, which puts events into a queue, and the handler, which
takes them one by one and sleeps (`asleep`) before it connects again. The counter
is reset with the address and restarts the chip at its limit. `losses` is a
history variable: the disconnections since the last address, as the radio knows
them, ahead of what the handler has seen. An address may be lost while the
association stays (`LosesAddress`): the code registers no handler for that event.
`esp_wifi_connect` may fail (`Connect`), and as in the code nobody looks at it; the
station is then `refused`, and no event will come. `CamTask` counts failures
of capture and reinitialises the driver; both halves of that may fail, and after
a failed init no action of the loop is left. `SensorBus`
counts polls in which nobody on the bus has answered and resets it. `HubBoot`
composes them with `app_main`: each step is the start of one subsystem. All of
them but the display may abort (`BootFails`, bounded): camera, face detector and
flash are done without if their init fails, but the start of their task is under
`ESP_ERROR_CHECK`. A restart puts everything back, from any step and with any
events under way.

### BistLog

A page is blank, holds the record of one snapshot, is *garbled* (programmed
twice: the header, which is the same in every record of a page, survives the
bitwise AND; the payload does not) or *torn* (cut by power loss, so it reads as
anything). An erase or a program is a command and a return. The driver waits
before the command and after it until the chip is not busy, but drops the result
of reading its status, which leaves "not busy", and that of the write-enable
(`ext_flash.c:45-51,63-67`). So the chip obeys the command or ignores it
(`EraseCommand`, `ProgramCommand`), it may still be at it when the next one comes
(`busy`, `ChipDone`), and `ESP_OK` says no more than that a command was sent;
an error may be reported for a command the chip completes. `programmed` and
`unerased` are history: the records whose command the chip has obeyed, and
whether it ignored the last erasure. `LogBoot` reads the pages the code reads,
the first of each sector, and each read may fail. The module's names begin with
`Log` where those of `HubBoot` are the same, so that one module can prove about
both.

### GasAnalyzer, AlarmEngine

A reading is the band of values it lies in between the thresholds the code
compares it with, at the default configuration (alarm above 60 degrees and at 50
ppm CO). `SensorPoll` chooses the room and the sensors that fail: they leave a
zero, and the readings count as valid if one of the three I2C sensors has
answered. `evaluate` is five steps: the snapshot, three conditions, and the
clearing. The alarm task has the higher priority on the same core, but it may
block on its way (logging, the telemetry mutex), so the sensor task may be in
the middle of feeding when `clear_alarm_if_safe` reads the inputs without the
mutex: `ClearDuringFeed` lets every field be old or new.

Time is a tick of one second. `evaluate` runs twice a second, so that a whole one
lies between two ticks, but a tick may come at any of its steps: `fire_alarm`
reads the clock again each time. If the cooldown runs out there, the worse
condition has been refused and a lesser one takes the alarm and starts the
cooldown again (`Overtaken`). `late` and `races` are history: the ticks for which
the most urgent condition has not been the reason of an active alarm, and how
many of them were of this kind.

### DualBand, Scout

The chip has one core and the driver and event loop preempt all tasks, so an
event and its handler are one step that may come between any two statements of
`connect_to_band`. The statements that write `s_wifi` are steps of their own.
The driver is modelled by what the code relies on, written down at the head of
the module. In `Scout`, `sensor_reg` polls, takes the registry mutex, and sends
under it; every other caller of `telegram_send` is a sender that may first count
the sensors under the registry mutex; `status_rpt` needs that mutex before it
feeds the watchdog. A tick passes when every task is waiting for something.
`Faulty` allows links to be lost, connections and requests to fail, and the
driver to be slow.

### TelegramPoll

The response buffer is a string in the code; here it is a sequence of cells, one
for an `update_id`, for the message that follows it, for anything else in a
response, or for a NUL. `strstr` is the first cell that has the key before the
first NUL, from wherever it starts: like the code, it does not stop at the end
of an update, and so takes a later update's text for that of one that has none.
`http_event_handler` gets a piece of any length and stores it whole or not at all,
in three steps: the check (`PollData`, `SendData`), the copy (`CopyPiece`) and the
sum (`AddLength`). `busy` says whose call is past the check. No mutex keeps the
other task out: if it passes the check too, or sets `response_len` to zero, while
a call is under way, pieces can be written behind the end of the buffer. The model
notes this (`raced`) and does not follow what becomes of the program until it
restarts (`RaceEnds`). The buffer is emptied by
setting `response_len` only; old text stays behind it, and only `Terminate`
writes a NUL, so text of an earlier response can be seen by the parser if a
send has put `response_len` back in the meantime. `PollEnds` tests `response_len`,
and `Terminate` comes after the wait for the mutex of the counters. The parser
makes a search of its own for the update, its number, its thread and its text
(`FindUpdate`, `ReadId`, `ReadThread`, `ReadText`), between which other tasks may
write; the last includes `process_command`. A command that answers goes
on in `SendOwn`, `SendData`, `SendEnds` and overwrites the buffer being parsed,
as it does in the code. The server's reply to a send repeats what was sent; the
answer to `/help` has the word `/mute` in it, and the test alarm says "test
alarm", which is a command too. Commands that only answer are one
kind (`query`). Whether the 5G window is open, and whether it is the morning at
which the mute ends, are choices: `DualBand` has the first, the second is the
time of day. A restart (`Reboot`, `PowerLoss`) loses the offset and the mute.

`runs`, `everRun`, `reboots` and `calm` are history. `calm` is the condition
under which the command properties are stated: one update to a response and no
send of another task during the poll. Without it they are false of the code.
An answer overwrites the buffer from its start: of three updates in a response
the second can be lost to the answer to the first, while the third is read and
confirms all of them; a command after an update without text is executed for
that one and for itself. `Terminated` and `ActsOnRequest` do not need it: they hold
whatever two tasks do to the buffer in turns, until two are in
`http_event_handler` at once; and so does `UpdatesAreConfirmed`, for which such a
race may be the end.

### ScoutReports

`app_main`, `boot_notify_task` and `bridge_task` with a clock that ticks when
nobody is due. `time(NULL)` is right (`clock_set`) or says 1970; the stamp in
flash is missing, early or real. `ReadStamp` is where the task reads it into its
`last`; `nvs_open` may fail there, and then the notice is due, and so may
`nvs_get_blob`, which leaves zero. `Elapsed` is the difference the code computes
of whatever clocks it has, with decades as `Years`. `Restart` may come between
any two steps, with or without loss of the clock; writing the stamp may fail
(`Mark`), and the flash may have to be erased (`BootHealth`). The rest is history:
`tried_age` and `report_tried_age` say when `telegram_send` last returned from a
notice and from any report, and `noted` whether the stamp is of that notice. Neither
task looks at what `telegram_send` returns, so what they promise is said of reports
that were sent, lost or not.

## 3. Runs

| Run | Question | Bounds | Result |
|---|---|---|---|
| `frame_pool` | counts, exclusive writes, wake-ups, refinement; do free slots and new frames come back | 2 slots; motion task (every second frame), 1 sender that comes and goes, `/snapshot`; room for 1 subscriber; 4 frames, 1 failed acquire | holds |
| `motion` | extraction, labels, merging, identifiers, one track for each blob, alerts, clearing | a 6x2 colour camera with restart markers and a 4x3 grey one; 2 blobs, 2 tracks, 2 identifiers | holds |
| `ws_stream` | does the counter agree with the table, does every stream end | 2 slots, 2 socket numbers, 1 wait without a frame | holds |
| `ws_sessions` | does a sender send to its own client | the same | **violated** |
| `hub_boot` | do the bits follow the link, is a restart earned, are station, frozen camera and bus tried again | 2 retries, 2 failures of the camera, 2 polls, 1 abort | holds |
| `bist_log` | retention, and what a power cycle damages | 2 sectors of 3 pages, 7 records, 3 boots | holds |
| `alarm` | is every hazard told in time, does every alarm end, is the classification the worst | 2 rooms, 5 sensors that fail in every combination, a cooldown of 2, overtaken twice | holds |
| `scout` | flag, lock, every send ends, the registry mutex comes free | registry and 1 other sender, switcher, reporter; everything may fail | holds |
| `scout_alert` | is an alert sent when nothing fails | registry only, nothing fails | **violated** |
| `scout_reports` | notices of a restart, their rate limit, and silence | 4 ticks between notices, 6 between heartbeats (as 600 s to 900 s), delays of 1 | holds |
| `telegram` | is the buffer a string, is a command executed and once, who mutes, does the poller catch up | 2 updates of 4 kinds, buffer of 7 cells, pieces of 1 or 2, 1 failure or foreign send | holds |
| `telegram_reboot` | does `/reboot` restart the chip once | 1 update, buffer of 4 cells | **violated** |

Why the bounds are enough. *Frame pool*: with two slots one held frame and the latest are all there
is, so that the producer starves and must come back; four frames let a slot be used
again after each other one and let the stride of the motion task skip one. One
subscriber place for two watchers makes a full table happen. The safety theorems
remove all of these. *Motion*: the colour camera has two blocks to an MCU,
chrominance to be skipped and several restart intervals, so that a loss leaves
whole intervals before it and a torn one; the grey one has no markers. The three
kinds of detail fill the AC coefficients with nothing, a run, and values that
need stuffed bytes. All 4096 masks of twelve cells are labelled and merged, and
they hold more than two blobs, more provisional labels than components, and boxes
that come close only after others have merged. Two tracks for two blobs are
taken at once; two identifiers wrap at the third track. In the state graph only
the grey camera loses bytes; the extractor is checked with every loss for both.
*WsStream*: two slots are the code's `WS_STREAM_MAX_CLIENTS`; two numbers let one
be given away while the other sender goes on. *HubBoot*: two is the least limit
at which a counter is neither fresh nor at its end; the abort and the restarts
for want of a network, which are not bounded, come at every step of the start. *ScoutReports*: the intervals
have the ratio of the code's, so that a heartbeat falls between two notices and
a suppressed notice between two heartbeats. *BistLog*: two sectors and three
pages per sector let the log wrap around, enter a sector it has filled before,
and stand at the head, in the middle and at the end of one; seven records go
round once and enter a sector again; three boots are two power cycles after the
first start, the second of them upon a log the first has damaged. The run stops when the
records are used up (`CHECK_DEADLOCK FALSE`). *Alarm*: of the two rooms, the
subsets of sensors that answer leave every rule of the classification alone and
together with others (toxic gas, fire, cable, dangerous, poor air, heat without
gas, nothing); two ticks of cooldown tell waiting a whole cooldown from waiting
part of one; being overtaken twice (`MaxRaces`) tells a cooldown for each time from
one for all. *Scout*: the second sender is what it takes to contend for the send
mutex and for the registry mutex; a third one would only queue up. The counters
(`waited`, `wdt`) are bounded by the timeouts. *TelegramPoll*: of seven cells six
can be filled; a response with two updates takes four and a reply three, so that
pieces are refused for want of room when both come at once; two updates are what
it takes for one to be read into the other. One event is a failed request, a
lost one, a power loss or a send of another task; the restarts by `/reboot` are
not bounded there, nor are the races in `http_event_handler` a send can bring.

### What the violations show

* `scout_alert`: if the switcher is connecting, the sender's configuration is
  refused twice, it posts on the wrong band, and the edge is forgotten, against
  `yy2/main/system/sensor_registry.c:12`.
* `telegram_reboot`: the command is executed before its update is confirmed, and
  the offset is lost with the restart, so the server delivers it again: the
  scout restarts for ever, against its help text (`yy2/main/net/telegram_client.c`).
* `ws_sessions`: a client goes away, the server gives its socket number to the
  next one, and the old sender sends its frames there, against
  `yy1/main/net/ws_stream.c:17-20`; when it gives up it closes the new session.

### Other disagreements met while modelling

These are visible in the modules and have no run of their own.

* `yy1/main/cam/frame_pool.h:42-45` says four slots let two WebSocket clients and
  the motion task hold a frame each without the producer ever starving. The
  latest frame needs one too. `StarvationEnds` shows that it does not last.
* Unsubscribing before a task is deleted is not enough for it not to be notified
  any more (`yy1/main/net/ws_stream.c:219-221`): publish notifies from a copy.
* `yy1/main/storage/bist_logger.h:19`: the boot scan finds the last *sector head*, and the log
  resumes at the second page of a sector that may be full. `DamageConfined` shows
  the damage stays in that sector, as long as the chip obeys erasures.
* `yy1/main/alarm/alarm_engine.c:223`: a failed MQ or AHT20 sensor reads as zero and clears an
  alarm while the room is unchanged.
* An alert is sent under the registry mutex, for up to 30 s, while the reporter,
  who feeds the watchdog of 15 s, waits for that mutex (`yy2/ARCHITECTURE.md:144-145`).
  `ReporterGetsIn` says only that it comes free.
* `yy1/main/net/wifi_manager.h:8-9` and `http_server.h:9` speak of stopping the server when the
  link is lost; nobody calls `http_server_stop`. The counter documented as the
  attempts since boot is reset with each address (`wifi_manager.c:78`). A server
  that does not start is not tried again before the next address. The result of
  `esp_wifi_connect` is not looked at (`wifi_manager.c:37,67`): if it fails, no event
  comes and the station stays down, which `StationTries` excepts.
* A camera whose reinitialisation has failed leaves `cam_task` in a loop that
  waits for it and never tries again (`cam_pipeline.c:89-92,107-114`), against
  `yy1/main/cam/cam_pipeline.h:16-17`. `CameraTries` (part of `HubTries`) is what is left: a freeze under an
  initialised driver is always answered, also after the driver has refused to let
  go. A dropped frame does not reset the failure counter.
* The station's address may be lost while the association stays. Nothing is
  registered for `IP_EVENT_STA_LOST_IP` (`wifi_manager.c:102-105`), the bit stays set,
  and `wifi_manager_is_connected` says true, against `yy1/main/net/wifi_manager.h:53`
  ("has an IP address currently"). `LinkIsKnown` says what is true: a link that is
  reported has an address or has had one.
* `yy1/main/cam/frame_pool.h:87` says a slot has a count of zero when it has been
  acquired; `frame_pool_acquire_writable` sets it to one.
* `yy1/main/storage/ext_flash.h:40-41` says an erase blocks until it is complete;
  the wait ends early if reading the chip's status fails
  (`ext_flash.c:45-51,63-67`), and `ESP_OK` may be returned for an erasure or a record
  the chip has ignored. `RecentRecordsInPlace` and `DamageConfined` except these.
* `http_event_handler` (`yy2/main/net/telegram_client.c:68-70`) checks, copies and
  adds without a mutex in tasks of one priority. Two pieces checked against one
  `response_len` take it past the buffer, and then the NUL (line 307) is written
  outside, too. Nothing in the repository says that this cannot be.
* `fire_alarm` reads the clock for each condition (`yy1/main/alarm/alarm_engine.c:51-59`),
  so a lesser condition may take the place of a worse one that was refused a
  moment before, and start the cooldown again. `HazardIsTold` counts these.
* The scout does not register `IP_EVENT_STA_LOST_IP` either (`wifi_dual.c:191-194`).
  That an address goes only with its link is among the assumptions at the head of
  `DualBand`.
* A single I2C sensor whose handle is lost is never added again while another one
  answers (`sensor_hub.c:50,107`), and the light sensor's success does not count.
* `yy1/main/vision/motion_detect.h:20` calls the confirming matches consecutive; a miss does not
  reset them. A frame that cannot be extracted does not age the tracks
  (`motion_detect.c:425`). The score threshold of a track cannot be missed.
* After data that end inside an AC magnitude, the bits that are left are read as
  the next block's DC (`jpeg_dc.c:498-501` says otherwise). `DcIsExact` is
  therefore stated for the restart intervals that have arrived as a whole.
* The one-pass flattening of the labels is right because labels only ever point to
  smaller ones; when the label table is full, pixels are left out.
* The result of `telegram_send` is ignored and the notice is marked as sent all
  the same, against "last successful boot notification" (`yy2/ARCHITECTURE.md:190`); a
  restart soon after one that was lost is passed over in silence. A heartbeat that
  was lost begins a new window, too (`espnow_bridge.c:224`). `RestartIsTried` and
  `ReportsAreTried` speak of what was sent.
* A crash between sending the notice and marking it repeats the notice
  (`yy2/main/app_main.c:117-120`); marked without a clock, the stamp is replaced by
  an early one; a stamp that cannot be read lets a notice through early
  (`yy2/main/system/scout_health.c:179,182`). `poll_s3_telemetry` has no caller, so the
  telemetry history is always empty.

## 4. Fairness

* `FramePool`: weak fairness of `cam_task`, of each watcher's loop, and of each
  release. Tasks are never suspended, every wait has a timeout, and a send ends
  or fails. Nobody has to open a stream or ask for a snapshot, and a sender need
  not be deleted.
* `MotionDetect`: infinitely many steps: frames keep arriving. That they do is
  `FramePool`'s `NewFrameArrives`.
* `WsStream`: weak fairness of the handler and of each sender; strong fairness of
  `Release`, which needs a mutex that is free again and again (FreeRTOS hands it
  to who waits). Nothing is assumed of clients, of the server's closing of
  sessions, or of frames.
* `HubBoot`: weak fairness of the start, of the event handler (its sleep is over
  after a time), of the camera task and of the sensor poll. Nothing is assumed of
  the radio, and faults need not happen or stop.
* `AlarmEngine`: weak fairness of the alarm task. The sensors need not be read, and
  time need not pass.
* `Scout`: weak fairness of the driver for what it has begun, of each task in
  `connect_to_band` and in a request (both have timeouts), of the registry's
  poll once it is under way, and of the reporter and the clock together; strong
  fairness of taking `send_mutex`, which is open only now and then: FreeRTOS
  hands a mutex to the waiter of highest priority, and sends are rare next to a
  send's duration, so that every waiter has its turn. Nothing is assumed of
  faults, of the switcher outside `connect_to_band`, or of the watchdog's reset:
  the mutexes come free without it.
* `TelegramPoll`: weak fairness of the poller as long as it has something to do,
  the start of a poll among it, since the 5G window comes again and again
  (`DualBand`) and the task sleeps three seconds at a time; of sends under
  way, since requests have timeouts; and of the handler, which waits for nothing.
  Nobody has to post, and nothing is assumed of failures.
* `ScoutReports` needs none: its clock does not pass what is due, so that lateness
  is a question of safety.

## 5. Proofs

Every proof is for all values of the constants; the assumptions are the
`ASSUME`s of the modules, which TLC evaluates in the runs. They bound constants
from below by what the code's own constants satisfy; `ReachAssumption` says that the
tracker's coordinates go as far as the cameras' pictures do, `HeaderAssumption` and
`ScanAssumption` that a camera's header is of segments, its scan is of bytes, and the
scan's components are the frame's; `BaselineAssumption` and `PictureAssumption` are told
of with the decoder.

*FramePool* (`FramePoolProofs`): `TypeCorrect`, `RefcountsAreExact`,
`WritesAreExclusive`, `WakeupsAreNotLost`, `FeedIsImplemented`, for any finite
number of slots, watchers, senders and snapshot handlers. `RefcountExact` is not
inductive by itself: dropping the old latest reference is right only while the
old slot is not also the new one, and acquiring is right only because a slot
with count zero is nobody's. `IInv` adds which of `cam_task`'s variables are in
use at each control state, that a consumer holds a slot exactly while it uses
it, and how the numbers in the slots relate to `next_seq`; the last part carries
the refinement. The arithmetic of counts rests on two lemmas about the
cardinality of a slot's holders when one comes or goes.

*Tracker* (`MotionProofs`): `TrackerTypeCorrect`, `IdsDistinct`, `AlertsEarned`,
`BlobsTracked`, for any number of tracks and identifiers and any limits. That two
live tracks have one identifier only after a wrap rests on what was given out
since each of them began: as long as that is less than there are identifiers it
says how far `next_id` is ahead of the track's own (`IdsFollow`), and no two
tracks have the same of it (`SpawnedApart`). That an alert is earned rests on
`alert_frames` never running ahead of the matches in a row (`EscalationInv`).

*Blobs* (`MotionProofs`): `HalvedKeeps`, `UnionMerges`, `FlattenedIs`,
`BlobsAreComponents`, and with them `LabelsAreRight` of `MotionDetect`: for every camera, every picture and every reach, the blobs are
the connected components of the dilated mask that have enough pixels, each with its
box, its area and its centre. The labels form a forest in which a parent is never
greater than its child. Path halving keeps the root of every label, and `Union`
makes one of two trees and leaves the others as they were. After each pixel of the
raster scan, neighbours scanned so far have one root, and pixels of one root are in
every set that holds one of them and is closed under being neighbours (`LabelInv`);
with the last pixel the roots are the components. Then boxes and sums are gathered
by root, and sorted by area. The loops of the code are recursive functions on
naturals; `LoopRuns` says once that what a step keeps holds after any number of
them. It is proved from the least member of a set of naturals, as the induction
rules of the library take an operator as a parameter.

*Merging* (`MotionProofs`): `MergingIsFinest`, for any number of blobs
anywhere in a picture, and with it `MergeIsRight` of `MotionDetect`. The measure is
the length of the list: a pass of `merge_close_blobs` that absorbs nothing has
looked at every pair and found none close, and each other pass makes the list
shorter, so that as many passes as there were blobs leave nothing close (`MergeIs`).
What is kept from the first pass to the last is that each box is the hull of a group
of the blobs, with the sums of their areas and intensities (`BoxAt`), and that every
division whose boxes are apart has each group in one of its own (`GroupedBy`).
Absorbing keeps this because two boxes are no further from each other when they grow
(`CloseGrows`), so groups that are close cannot be in two boxes that are apart
(`NotParted`). The sums exist as functions on sets (`TotalIs`), and the hull does not
depend on the order in which a group is gone through (`BoxIs`).

*JpegDc* (`JpegProofs`): `HuffStaysInTable`, `GridStaysInPicture`, for any data,
ending anywhere, and any tables a header can set up. A table is `Proper` if a code
between the first and the last of its length has a symbol in it, and a code that is
above the last does not fall below the first of the next length. `build_huff` makes
such tables whenever there are as many symbols as codes, also from counts that no
prefix code has (`BuildHuffType`), and so is a table nobody has set (`NoTableType`).
The walk over a code is then never below the first of its length. The rest follows
the calls: what is read ahead is bits, an MCU's blocks lie in the MCU and the MCUs in
the picture (`RecordType`), and values are clamped.

*The decoder and the camera* (`JpegProofs`, `MotionProofs`): `HuffGivesBack`,
`HeaderParses`, `FrameIsExact`, `DecoderIsExact`, which is `DcIsExact` for every
camera (size, sampling, colour, quantiser, restart interval), every picture of 11-bit
quantised DC values, each kind of detail and any number of bytes missing at the end.
Two programs are related, which share nothing but the standard. What they have in
common at a point is said of a *stream*: the bits one restart interval stands for, at
a place in the data, with a byte 255 followed by 0, and a marker or the end of the
data behind them (`Carries`). A reader is at bit `a` of a stream if what it has read
ahead are the bits from there on, and its position is that of the next byte, or past
half of a marker the end of the data has cut (`Reading`). All else goes by one rule:
if the bits the encoder wrote for something are found at `a`, what the decoder does
for it has the value that was coded, and it reads on behind these bits.

* *Bits*: `FillReads`, `GetReads`: reading ahead, byte by byte, and taking bits off.
* *Huffman codes*: the encoder's codes are those of Annex C, counted up over the list
  of symbols; the decoder has for each length the least code, the greatest and where its
  symbols begin (`Canonical`). Of the code of a symbol the first `l` bits are greater
  than any code of length `l`, until its own length is reached (`Midway`), so that
  `huff_decode` stops there and nowhere before: for any table whose codes fit their
  lengths.
* *Values*: `Extend` undoes the category and the bits of a difference (`DcReads`). The
  AC coefficients, of which the decoder wants only the length, end after the 64th or at
  the end of the block, for each kind of detail (`AcReads`).
* *Blocks and MCUs*: the walk has the encoder's predictions (`Agree`), the blocks of an
  MCU come in the order of the scan, and what is recorded is the mean of the cell
  the block is of (`Follows`, `McuReads`).
* *Intervals*: behind the last MCU of an interval is padding, then a marker; the
  decoder drops the rest of what it has read ahead and passes over the marker
  (`RestartStarts`). An interval that has arrived as a whole carries its stream whatever
  is missing behind it (`IntervalCarried`); by induction over the intervals each begins
  with the reader at its start and the predictions at zero (`IntervalStep`).
* *The rest of a frame* writes cells of later intervals only, and never takes one back
  (`LaterKeeps`), so that whatever is read there, what had arrived stays right
  (`WalkIsExact`).
* *The header*: the seven segments set the tables, the sampling and the restart interval
  the walk relies on (`HeaderParses`).

Here `BaselineAssumption` is needed (bytes of 8 bits, codes of at most 16, 64
coefficients, eight restart markers: the standard's numbers and the code's), and
`PictureAssumption`: the values are of 11 bits, and a frame has the camera's header
or one the decoder refuses. The tables are the camera's of `JpegCamera`, and the details
its three.

*MotionDetect* (`MotionProofs`): `DetectorTracks`, `MotionTypeCorrect`,
`DetectorIsRight`. What the extractor gives is bytes at cells of the picture, so is
what the mask and its dilation hold; the blobs are boxes in the picture, merged or
not (`FoundType`, `MergeStaysIn`), and their centres are within the tracker's reach
(`ChangedType`). So each frame is a step of `TrackNext` that feeds it blobs, the
detector implements `TrackSpec`, and what is proved of the tracker for any blobs
holds of the detector.

*WsStream* (`WsProofs`): `WsTypeCorrect`, `SlotsAreFound`, for any number of slots
and sockets. The counter is the number of slots in a set that is described for
each step of handler and senders (`Counted`), for slot and counter are changed one
after the other. It is less than the slots in use only between the handler's two
changes, and the handler is the only one who tests it.

*HubBoot* (`HubProofs`): `LinkIsAlwaysKnown`, `RestartsAreEarned`, for any limits.
What is in the queue is at most the story of one link, as nothing is posted while
the handler sleeps (`QueueInv`); the counter is behind the radio's losses by the
disconnection that is waiting (`CounterInv`).

*BistLog* (`HubProofs`): `LogTypeCorrect`, `RecentRecordsStay`, `DamageIsConfined`,
for any number and size of sectors and any number of power cycles. Neither property
is inductive. That damage is confined needs to know what is ahead of the write
index: in a sector the log has entered by erasing it there is no acknowledged
record there (`AheadInv`), in the sector it resumed in there may be, and in one
whose erasure the chip ignored. That the recent records the chip has programmed stay
needs the number in hand to be new (`StampInv`), the record that waits for `ESP_OK` to
be on the page of the index if it is on any (`HandInv`), and erasures
to begin only at the head of a sector (`EraseInv`); then the pages at distances 1
to `NPages - PerSector` behind the index are not in the sector being erased
(`Spared`), and a record that is acknowledged moves the others back by one
(`StillBehind`). Both are facts about remainders of sums that wrap.

*AlarmEngine* (`AlarmProofs`): `ClassifySound` (for every reading, the first rule
that applies is the worst that matches), `AlarmTypeCorrect`, `HazardsAreTold`,
`ClassifyAlwaysWorst`. That no hazard waits longer than a cooldown, and one more for
each time it is overtaken, rests on a
sum: while a hazard is not told, its waiting time and the remaining cooldown
are together at most so many cooldowns (`WaitInv`). A tick moves one from the second
to the first. The cooldown starts again only when an alarm is raised. In an
evaluate without a tick, either nothing has waited then, or what has waited is what
was raised, since a hazard that has waited is the one in evaluate's snapshot
(`SnapInv`). Once the cooldown is over nothing may have waited when such an evaluate
ends, because each condition that was due in the snapshot has left a cooldown
(`CheckInv`). In an evaluate with a tick, the alarm may go to another hazard, and
what has waited is covered by the races counted so far (`RacedInv`). The
reading without a mutex is harmless for the same reason (`TornIsCalm`): two
readings with the same condition due cannot look safe together.

*Scout* (`ScoutProofs`): `ScoutTypeCorrect`, `ConnectedIsSound`, `LockIsHeldOnce`,
for any senders, conditions and timeouts, with faults or without. The lock is a
flag that every sender writes; it is right because they write it under
`send_mutex`, and the part of `telegram_send` that holds it is exactly what is
between. Types need one more fact: what `sensor_reg` sends is about a condition
it has looked at (`EdgeInv`).

*ScoutReports* (`ScoutProofs`): `ReportsTypeCorrect`, `NoticesAreSpaced`,
`RestartsAreTried`, `ReportsGoOn`, for any intervals and delays. The stamp is never
younger than the last notice that was sent, and as old as it if it was noted
(`StampInv`);
how long ago a report was last sent is told by where `bridge_task` is
(`SilenceInv`).

*TelegramPoll* (`TelegramProofs`): `TelegramTypeCorrect`, `BufferIsTerminated`,
`OwnAnswersAreIgnored`, `NoCommandIsLost`, `CommandsRunOnce`, for any buffer, pieces,
messages and number of updates.
`IInv` says that nothing ever reaches the last cell until two tasks are in
`http_event_handler` at once (`BufferInv`: the NUL `poll_updates` writes is within the
buffer, and the last cell keeps the NUL it started with), because the piece that is
past the check still fits, and is for a request that goes on (`HandlerInv`); and
where the poller's own answer can be. While `tg_poll` sends, nobody else does, so what
it receives starts the buffer (`OwnReplyInv`), and the text of an answer is always in the
second cell. An update could take it for its own text only from the first
(`Deceptive`). Such a buffer does occur, when one cell of a response has come
over an old answer, but it is never parsed: what is parsed has a NUL behind what
was received, and behind an update that has been found there is no such answer
(`KeyedInv`), so that its number, thread and text may be looked for one after the
other. The least member of a set of cells is found with the
well-foundedness of strict inclusion on the intervals from zero (`MinIn`).

That no command is lost and none is executed twice needs a second invariant, of the
runs in which updates come one at a time and nobody else sends meanwhile
(`CalmInv`). What the server has forgotten and what the poller has seen has been
executed if it is a command, nothing has been executed twice, and what has not
been seen has not been (`RecordInv`). What is on its way to the buffer is an empty
answer or the one update the server can have, whole and in order
(`ArrivalInv`), and when parsing begins the first cell holds no update or that
one (`ParsedInv`). Behind it there is nothing to find: an answer goes no further
than the third cell and an identifier no further than the first, whatever
responses and answers have been over each other (`AloneInv`, `StaleInv`). All
this needs a buffer that holds an identifier, a text and the NUL
(`TelegramAssumption`: `2 < Cap`; the code's has 4096 bytes): in a smaller one the
text is dropped and the update confirmed all the same.

Every invariant and every safety property a passing run checks is proved. What TLC
alone checks is liveness under fairness, which with ENABLED is out of TLAPS's reach:
`StarvationEnds`, `NewFrameArrives`, `StillSceneClears`, `StreamEnds`, `HubTries`,
`AlarmEnds`, `SendEnds`, `ReporterGetsIn`, `UpdatesAreConfirmed`. That the references
of the runs themselves (the encoder, reachability, the divisions into groups) are what
the standard and the documents mean is for the reader to see.

## 6. Not modelled

* The 32-bit wrap of `next_seq`: more than five years at 25 frames a second.
* Formatting, web pages, authentication, the OLED, LEDs, the register I/O of
  sensor drivers, the telemetry struct under its one mutex: no state a property
  could be about.
* The neural network (vendored), and the floating-point heuristics of classifier
  and ROI tracker, which take part in no decision that is modelled.
* The counters and memory figures of `scout_health`: shown, never read back. The
  monitor and the fault handler of the hub: calls of ESP-IDF services.
* The build and flash scripts: glue around vendor toolchains.
* ESP-NOW: the source declares the bridge and does not implement it.
* Whether `esp_wifi_connect` on a connected station has an effect: the source
  does not say; `DualBand` takes it to have none.
* The HTTP server's purging of sessions beyond closing some (`http_server.c:54`):
  `HangUp` closes any session at any time.

## 7. Plan

1. `FramePool` with `WsStream`: the sender of one as the watcher of the other. The
   senders are the same tasks; the composition would show a stream ending while a
   frame is held.
2. `Scout` with `ScoutReports`: the heartbeat and the notice as senders with the
   radio's delays, in place of `SendTime`.
