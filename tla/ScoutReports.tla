---------------------------- MODULE ScoutReports ----------------------------
(***************************************************************************)
(* What yy2 tells the group of its own accord: the notice of a restart     *)
(* (boot_notify_task of app_main.c), at most one in ten minutes by a time  *)
(* stamp in flash (system/scout_health.c), and the heartbeat every fifteen *)
(* minutes (bridge_task of net/espnow_bridge.c).  The scout may restart at *)
(* any moment, and every restart runs the same race.                       *)
(*                                                                         *)
(* Time passes in ticks, and no task oversleeps.  The scout's clock is     *)
(* right, or it was not set since the power came and says 1970; a restart  *)
(* without loss of power keeps it.  telegram_send, with the radio and the  *)
(* mutex it waits for, is in Scout; here it takes a time, and the message  *)
(* gets through or not, which neither task looks at.  What the messages    *)
(* say is left out.                                                        *)
(***************************************************************************)
EXTENDS Integers

CONSTANTS MinInterval,      \* BOOT_NOTIFY_MIN_INTERVAL_S
          HeartbeatWindow,           \* BIST_INTERVAL_MS
          NoticeWait,       \* boot_notify_task waits for an address and the time
          StartDelay,       \* of bridge_task
          Round,            \* its vTaskDelay
          SendTime          \* longest telegram_send

ASSUME ReportsAssumption ==
  /\ MinInterval \in Nat \ {0} /\ HeartbeatWindow \in Nat \ {0}
  /\ NoticeWait \in Nat /\ StartDelay \in Nat /\ Round \in Nat /\ SendTime \in Nat

VARIABLES
  clock_set,        \* time(NULL) is past 2020
  boot_ts,          \* in flash: "none", "early" (before 2020) or "real"
  boot_ts_age,      \* the time since a real one was written
  app,              \* what app_main does next
  notice,           \* what boot_notify_task does next
  notice_age,       \* the time it has been at that
  last,             \* its last: what it has read of boot_ts, "closed" if it could not
  bridge,           \* what bridge_task does next
  bridge_age,
  report_age,       \* the time since bist_last_report_us
  tried_age,        \* history: since telegram_send returned from a notice,
  noted,            \* history: whether that is what boot_ts says
  report_tried_age  \* history: since it returned from any report

flashVars   == <<boot_ts, boot_ts_age>>
noticeVars  == <<notice, notice_age, last>>
bridgeVars  == <<bridge, bridge_age, report_age>>
historyVars == <<tried_age, noted, report_tried_age>>
reportsVars == <<clock_set, flashVars, app, noticeVars, bridgeVars, historyVars>>

\* As long as the scout can go without sending a report; ages are
\* counted to this.
Silence == MinInterval + StartDelay + HeartbeatWindow + Round + SendTime
Ages == 0 .. Silence
Older(age) == IF age < Silence THEN age + 1 ELSE Silence

ReportsInit ==
  /\ clock_set = FALSE /\ boot_ts = "none" /\ boot_ts_age = Silence
  /\ app = "health"
  /\ notice = "none" /\ notice_age = 0 /\ last = "none"
  /\ bridge = "none" /\ bridge_age = 0 /\ report_age = 0
  /\ tried_age = Silence /\ noted = FALSE
  /\ report_tried_age = Silence

-----------------------------------------------------------------------------
(* app_main *)

\* Up to the sensor registry.  A flash partition that nvs_flash_init cannot use
\* is erased.
BootHealth ==
  /\ app = "health" /\ app' = "bridge"
  /\ \/ UNCHANGED <<flashVars, noted>>
     \/ boot_ts' = "none" /\ boot_ts_age' = Silence /\ noted' = FALSE
  /\ UNCHANGED <<clock_set, noticeVars, bridgeVars, tried_age, report_tried_age>>

\* espnow_bridge_init
BootBridge ==
  /\ app = "bridge" /\ app' = "notify"
  /\ bridge' = "delay" /\ bridge_age' = 0 /\ report_age' = 0
  /\ UNCHANGED <<clock_set, flashVars, noticeVars, historyVars>>

BootNotify ==
  /\ app = "notify" /\ app' = "done"
  /\ notice' = "wait" /\ notice_age' = 0 /\ last' = "none"
  /\ UNCHANGED <<clock_set, flashVars, bridgeVars, historyVars>>

\* SNTP has an answer.
ClockSet ==
  /\ app # "health" /\ ~clock_set
  /\ clock_set' = TRUE
  /\ UNCHANGED <<flashVars, app, noticeVars, bridgeVars, historyVars>>

\* A step of app_main under ESP_ERROR_CHECK, a panic, the watchdog, /reboot or
\* the power.
Restart ==
  /\ clock_set' \in {clock_set, FALSE}
  /\ app' = "health"
  /\ notice' = "none" /\ notice_age' = 0 /\ last' = "none"
  /\ bridge' = "none" /\ bridge_age' = 0 /\ report_age' = 0
  /\ UNCHANGED <<flashVars, historyVars>>

-----------------------------------------------------------------------------
(* boot_notify_task *)

Years == 2 * Silence

\* It waits for the time, but not for ever; then it reads the stamp.  nvs_open may
\* fail, and nvs_get_blob, which leaves the zero in last.
ReadStamp ==
  /\ notice = "wait" /\ (clock_set \/ notice_age = NoticeWait)
  /\ notice' = "decide" /\ notice_age' = 0
  /\ last' \in {"closed", "none", boot_ts}
  /\ UNCHANGED <<clock_set, flashVars, app, bridgeVars, historyVars>>

\* now - last; what is not a real time is decades before one.
Elapsed ==
  IF clock_set THEN (IF last = "real" THEN boot_ts_age ELSE Years)
  ELSE (IF last = "real" THEN -Years ELSE 0)

\* Mutant of ShouldSend: a clock that was not set is not looked for.
ShouldSendByTime == last = "closed" \/ Elapsed >= MinInterval

\* scout_health_should_send_boot_notification
ShouldSend == last = "closed" \/ ~clock_set \/ Elapsed >= MinInterval

AnnounceRestart ==
  /\ notice = "decide" /\ ShouldSend
  /\ notice' = "send" /\ notice_age' = 0 /\ last' = "none"
  /\ UNCHANGED <<clock_set, flashVars, app, bridgeVars, historyVars>>

Suppress ==
  /\ notice = "decide" /\ ~ShouldSend
  /\ notice' = "suppressed" /\ notice_age' = 0 /\ last' = "none"
  /\ UNCHANGED <<clock_set, flashVars, app, bridgeVars, historyVars>>

\* telegram_send returns; what it returns is not looked at, so that the notice is
\* marked as sent also if it was lost (ARCHITECTURE.md:190 says "last successful
\* boot notification").
NoticeSent ==
  /\ notice = "send"
  /\ notice' = "mark" /\ notice_age' = 0
  /\ tried_age' = 0 /\ noted' = FALSE
  /\ report_tried_age' = 0
  /\ UNCHANGED <<clock_set, flashVars, app, last, bridgeVars>>

\* Mutant of Mark: the first stamp stays.
MarkOnce ==
  /\ notice = "mark"
  /\ notice' = "done" /\ notice_age' = 0
  /\ boot_ts' = IF boot_ts # "none" THEN boot_ts
                ELSE IF clock_set THEN "real" ELSE "early"
  /\ boot_ts_age' = IF boot_ts = "none" THEN 0 ELSE boot_ts_age
  /\ noted' = clock_set
  /\ UNCHANGED <<clock_set, app, last, bridgeVars, tried_age, report_tried_age>>

\* scout_health_mark_boot_notification_sent; a write that fails is not noticed.
Mark ==
  /\ notice = "mark"
  /\ notice' = "done" /\ notice_age' = 0
  /\ \/ /\ boot_ts' = IF clock_set THEN "real" ELSE "early"
        /\ boot_ts_age' = 0
        /\ noted' = clock_set
     \/ UNCHANGED <<flashVars, noted>>
  /\ UNCHANGED <<clock_set, app, last, bridgeVars, tried_age, report_tried_age>>

-----------------------------------------------------------------------------
(* bridge_task *)

BridgeBegins ==
  /\ bridge = "delay" /\ bridge_age = StartDelay
  /\ bridge' = "sleep" /\ bridge_age' = Round /\ report_age' = 0
  /\ UNCHANGED <<clock_set, flashVars, app, noticeVars, historyVars>>

\* One turn of the loop: the counters, which say nothing here, and the time.
Wakes == bridge = "sleep" /\ bridge_age = Round

\* Mutant of Heartbeat: the heartbeat waits for a clock that is set.
HeartbeatOnTime ==
  /\ Wakes /\ report_age >= HeartbeatWindow
  /\ bridge' = IF clock_set THEN "send" ELSE "sleep"
  /\ bridge_age' = 0
  /\ UNCHANGED <<clock_set, flashVars, app, noticeVars, report_age, historyVars>>

Heartbeat ==
  /\ Wakes /\ report_age >= HeartbeatWindow
  /\ bridge' = "send" /\ bridge_age' = 0
  /\ UNCHANGED <<clock_set, flashVars, app, noticeVars, report_age, historyVars>>

NoHeartbeat ==
  /\ Wakes /\ report_age < HeartbeatWindow
  /\ bridge_age' = 0
  /\ UNCHANGED <<clock_set, flashVars, app, noticeVars, bridge, report_age, historyVars>>

\* send_bist_report returns: the window begins when telegram_send is done, with
\* the message out or lost.
HeartbeatSent ==
  /\ bridge = "send"
  /\ bridge' = "sleep" /\ bridge_age' = 0 /\ report_age' = 0
  /\ report_tried_age' = 0
  /\ UNCHANGED <<clock_set, flashVars, app, noticeVars, tried_age, noted>>

-----------------------------------------------------------------------------

\* A task that is due does not wait for the next tick.
NobodyIsDue ==
  /\ notice = "wait" => notice_age < NoticeWait
  /\ notice = "send" => notice_age < SendTime
  /\ notice \notin {"decide", "mark"}
  /\ bridge = "delay" => bridge_age < StartDelay
  /\ bridge = "sleep" => bridge_age < Round
  /\ bridge = "send" => bridge_age < SendTime

ReportsTick ==
  /\ NobodyIsDue
  /\ boot_ts_age' = Older(boot_ts_age)
  /\ notice_age' = IF notice \in {"wait", "send"} THEN notice_age + 1 ELSE 0
  /\ bridge_age' = IF bridge = "none" THEN 0 ELSE bridge_age + 1
  /\ report_age' = IF bridge = "none" THEN 0 ELSE Older(report_age)
  /\ tried_age' = Older(tried_age) /\ report_tried_age' = Older(report_tried_age)
  /\ UNCHANGED <<clock_set, boot_ts, app, notice, last, bridge, noted>>

ReportsNext ==
  \/ BootHealth \/ BootBridge \/ BootNotify \/ ClockSet \/ Restart
  \/ ReadStamp \/ AnnounceRestart \/ Suppress \/ NoticeSent \/ Mark
  \/ BridgeBegins \/ Heartbeat \/ NoHeartbeat \/ HeartbeatSent
  \/ ReportsTick

ReportsSpec == ReportsInit /\ [][ReportsNext]_reportsVars

-----------------------------------------------------------------------------
(* Properties *)

ReportsTypeOK ==
  /\ clock_set \in BOOLEAN
  /\ boot_ts \in {"none", "early", "real"} /\ boot_ts_age \in Ages
  /\ app \in {"health", "bridge", "notify", "done"}
  /\ notice \in {"none", "wait", "decide", "send", "mark", "suppressed", "done"}
  /\ notice_age \in 0 .. NoticeWait + SendTime
  /\ last \in {"closed", "none", "early", "real"}
  /\ bridge \in {"none", "delay", "sleep", "send"}
  /\ bridge_age \in 0 .. StartDelay + Round + SendTime /\ report_age \in Ages
  /\ tried_age \in Ages /\ noted \in BOOLEAN
  /\ report_tried_age \in Ages

\* ARCHITECTURE.md section 5.4: of two notices in a row the second comes
\* MinInterval after the first was noted, whatever restarts and losses of power
\* lie between them and whether or not they get through; unless the first could
\* not be noted, or the note was erased or cannot be read, or the clock is not
\* set now.
StampIsRead == last = boot_ts
NoticesSpaced ==
  [][AnnounceRestart /\ clock_set /\ noted /\ StampIsRead => tried_age >= MinInterval]_reportsVars

\* A restart is passed over in silence only if a notice was sent less than
\* MinInterval ago: never because of a time stamp from another clock
\* (scout_health.c:184).  Sent is what telegram_send has returned from: whether it
\* got through is nothing the code knows.
RestartIsTried == [][Suppress => tried_age < MinInterval]_reportsVars

\* Once a start has decided about its notice, a report is sent at least once in the
\* two intervals and the delays of the tasks: the heartbeat makes up for the
\* notice that was suppressed.  One that does not get through is not repeated.
ReportsAreTried == notice \in {"suppressed", "done"} => report_tried_age < Silence

=============================================================================
