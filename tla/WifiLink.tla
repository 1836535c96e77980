----------------------------- MODULE WifiLink -----------------------------
(***************************************************************************)
(* The Wi-Fi station of yy1 (net/wifi_manager.c) and the HTTP server it    *)
(* starts (net/http_server.c).  Everything happens in one handler, on the  *)
(* task of the default event loop, which takes the events one by one and   *)
(* sleeps in the middle of one of them.                                    *)
(*                                                                         *)
(* The radio is external: an attempt to connect ends in an association or  *)
(* in a disconnection, an association may bring an address, and either is  *)
(* lost at any time; it never connects by itself, and may refuse to.  Of   *)
(* an address that is lost alone the code hears nothing: it registers      *)
(* IP_EVENT_STA_GOT_IP and not IP_EVENT_STA_LOST_IP.                       *)
(***************************************************************************)
EXTENDS Integers, Sequences

CONSTANT MaxRetry           \* CONFIG_VH_WIFI_MAX_RETRY

ASSUME WifiAssumption == MaxRetry \in Nat \ {0}

VARIABLES
  radio,            \* what the station is doing; "lapsed" is associated, the
                    \* address lost; "refused", esp_wifi_connect has failed
  events,           \* the queue of the event loop
  asleep,           \* the handler is in vTaskDelay, before esp_wifi_connect
  bits,             \* the bits of s_event_group
  s_reconnect_cnt,
  server,           \* s_server # NULL
  losses            \* history: disconnections since there was an address

wifiVars == <<radio, events, asleep, bits, s_reconnect_cnt, server, losses>>

WifiInit ==
  /\ radio = "off" /\ events = <<>> /\ asleep = FALSE
  /\ bits = {} /\ s_reconnect_cnt = 0 /\ server = FALSE
  /\ losses = 0

\* wifi_manager_init: esp_wifi_start.
WifiStart ==
  /\ radio' = "idle" /\ events' = <<"start">>
  /\ UNCHANGED <<asleep, bits, s_reconnect_cnt, server, losses>>

\* All of it is in RAM.
WifiReset ==
  /\ radio' = "off" /\ events' = <<>> /\ asleep' = FALSE
  /\ bits' = {} /\ s_reconnect_cnt' = 0 /\ server' = FALSE
  /\ losses' = 0

-----------------------------------------------------------------------------
(* The radio *)

Post(event) == events' = Append(events, event)

Associates ==
  /\ radio = "connecting"
  /\ radio' = "associated" /\ Post("connected")
  /\ UNCHANGED <<asleep, bits, s_reconnect_cnt, server, losses>>

GetsAddress ==
  /\ radio \in {"associated", "lapsed"}
  /\ radio' = "online" /\ Post("got_ip")
  /\ losses' = 0
  /\ UNCHANGED <<asleep, bits, s_reconnect_cnt, server>>

\* The lease runs out and is not renewed.  It has lasted longer than the handler
\* takes for the events of the link.
LosesAddress ==
  /\ radio = "online" /\ events = <<>>
  /\ radio' = "lapsed"
  /\ UNCHANGED <<events, asleep, bits, s_reconnect_cnt, server, losses>>

Disconnects ==
  /\ radio \in {"connecting", "associated", "online", "lapsed"}
  /\ radio' = "idle" /\ Post("disconnected")
  /\ losses' = losses + 1
  /\ UNCHANGED <<asleep, bits, s_reconnect_cnt, server>>

-----------------------------------------------------------------------------
(* event_handler *)

Handles(event) ==
  /\ ~asleep /\ events # <<>> /\ Head(events) = event
  /\ events' = Tail(events)

\* The result of esp_wifi_connect is not looked at, and no event tells of it.
Connect == radio' \in {"connecting", "refused"}

StaStart ==
  /\ Handles("start")
  /\ Connect
  /\ UNCHANGED <<asleep, bits, s_reconnect_cnt, server, losses>>

StaConnected ==
  /\ Handles("connected")
  /\ bits' = bits \cup {"CONNECTED"}
  /\ UNCHANGED <<radio, asleep, s_reconnect_cnt, server, losses>>

\* esp_restart in the handler of a disconnection.
MustRestart ==
  /\ ~asleep /\ events # <<>> /\ Head(events) = "disconnected"
  /\ s_reconnect_cnt + 1 >= MaxRetry

\* Mutant of LinkBits: only the association is forgotten.
AssociationBit == {"CONNECTED"}
LinkBits == {"CONNECTED", "GOT_IP"}

StaDisconnected ==
  /\ Handles("disconnected") /\ ~MustRestart
  /\ bits' = bits \ LinkBits
  /\ s_reconnect_cnt' = s_reconnect_cnt + 1
  /\ asleep' = TRUE
  /\ UNCHANGED <<radio, server, losses>>

\* Mutant of Reconnect: the handler returns without connecting.
ReturnOnly ==
  /\ asleep
  /\ asleep' = FALSE
  /\ UNCHANGED <<radio, events, bits, s_reconnect_cnt, server, losses>>

Reconnect ==
  /\ asleep
  /\ asleep' = FALSE /\ Connect
  /\ UNCHANGED <<events, bits, s_reconnect_cnt, server, losses>>

\* http_server_start: a running server is left alone, httpd_start may fail.
\* Nothing stops the server: http_server_stop has no caller.
HttpServerStart == server' \in {TRUE, server}

\* Mutant of StaGotIp: the counter goes on, as its name in the header says.
StaGotIpCounting ==
  /\ Handles("got_ip")
  /\ bits' = bits \cup LinkBits
  /\ HttpServerStart
  /\ UNCHANGED <<radio, asleep, s_reconnect_cnt, losses>>

StaGotIp ==
  /\ Handles("got_ip")
  /\ s_reconnect_cnt' = 0
  /\ bits' = bits \cup LinkBits
  /\ HttpServerStart
  /\ UNCHANGED <<radio, asleep, losses>>

\* wifi_manager_is_connected
IsConnected == "GOT_IP" \in bits

WifiTypeOK ==
  /\ radio \in {"off", "idle", "connecting", "refused", "associated", "online", "lapsed"}
  /\ events \in Seq({"start", "connected", "got_ip", "disconnected"})
  /\ asleep \in BOOLEAN /\ bits \subseteq LinkBits
  /\ s_reconnect_cnt \in 0 .. MaxRetry - 1
  /\ server \in BOOLEAN /\ losses \in Nat

Radio == Associates \/ GetsAddress \/ LosesAddress \/ Disconnects
EventLoop == StaStart \/ StaConnected \/ StaDisconnected \/ Reconnect \/ StaGotIp

=============================================================================
