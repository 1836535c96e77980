------------------------------ MODULE HubProofs ------------------------------
(***************************************************************************)
(* What TLC checks of the hub's boot (HubBoot) and of its flash log        *)
(* (BistLog) but for liveness.                                             *)
(*                                                                         *)
(* HubBoot, for any number of retries, failures and restarts: the          *)
(* invariant says which events may be waiting for the handler in each      *)
(* state of the radio, and what they will make of the bits and of the      *)
(* counter.                                                                *)
(*                                                                         *)
(* BistLog, for any number and size of sectors and any number of power     *)
(* cycles: the invariant says what is ahead of the write index in a sector *)
(* that was entered by erasing it.                                         *)
(***************************************************************************)
EXTENDS HubBoot, BistLog, SequenceTheorems, FiniteSetTheorems, TLAPS

\* The radio does nothing more once it has lost the link, until the handler has
\* seen it and slept: what is waiting is at most the story of one link.
Lost == {<<"disconnected">>, <<"connected", "disconnected">>,
         <<"got_ip", "disconnected">>, <<"connected", "got_ip", "disconnected">>}

QueueInv ==
  /\ radio = "off" => events = <<>>
  /\ radio = "idle" => IF asleep THEN events = <<>> ELSE events \in Lost \cup {<<"start">>}
  /\ radio \in {"connecting", "refused", "lapsed"} => events = <<>>
  /\ radio = "associated" => events \in {<<>>, <<"connected">>}
  /\ radio = "online" => events \in {<<>>, <<"got_ip">>, <<"connected", "got_ip">>}
  /\ asleep => radio = "idle"

\* Without a disconnection to come the bits are those of the link.
BitsInv ==
  /\ events = <<>> /\ radio = "online" => "GOT_IP" \in bits
  /\ radio \notin {"online", "lapsed"} /\ events \notin Lost => "GOT_IP" \notin bits

\* The counter is behind the radio by the disconnection that is waiting, and by
\* all of them if an address is.
Addressed == {<<"got_ip">>, <<"connected", "got_ip">>, <<"got_ip", "disconnected">>,
              <<"connected", "got_ip", "disconnected">>}

CounterInv ==
  losses = (IF events \in Lost THEN 1 ELSE 0)
           + (IF events \in Addressed THEN 0 ELSE s_reconnect_cnt)

StartInv ==
  /\ boot \in 1 .. Finished
  /\ boot <= 2 => radio = "off"
  /\ radio = "off" => bits = {}

LinkType ==
  /\ radio \in {"off", "idle", "connecting", "refused", "associated", "online", "lapsed"}
  /\ asleep \in BOOLEAN /\ bits \subseteq LinkBits
  /\ s_reconnect_cnt \in 0 .. MaxRetry - 1
  /\ server \in BOOLEAN /\ losses \in Nat

LinkInv == LinkType /\ QueueInv /\ BitsInv /\ CounterInv /\ StartInv

-----------------------------------------------------------------------------

LEMMA FinishedIs13 == Finished = 13
BY DEF Finished, Steps

LEMMA WifiIsSecond ==
  ASSUME NEW n \in 1 .. 12, Steps[n] = "wifi"
  PROVE  n = 2
BY DEF Steps

LEMMA SameSequence ==
  ASSUME NEW S, NEW s \in Seq(S), NEW e \in S, NEW t \in Seq(S),
         Len(t) = Len(s) + 1, \A i \in 1 .. Len(s) : t[i] = s[i], t[Len(s) + 1] = e
  PROVE  Append(s, e) = t
<1>1. /\ Append(s, e) \in Seq(S) /\ Len(Append(s, e)) = Len(s) + 1
      /\ \A i \in 1 .. Len(s) : Append(s, e)[i] = s[i]
      /\ Append(s, e)[Len(s) + 1] = e
  BY AppendProperties
<1>2. \A i \in 1 .. Len(Append(s, e)) : Append(s, e)[i] = t[i]  BY <1>1
<1> QED BY <1>1, <1>2, SeqEqual

LEMMA AppendToOne ==
  ASSUME NEW a, NEW b
  PROVE  Append(<<a>>, b) = <<a, b>>
<1>1. b \in {a, b} /\ <<a>> \in Seq({a, b}) /\ <<a, b>> \in Seq({a, b})  OBVIOUS
<1>2. Len(<<a, b>>) = Len(<<a>>) + 1 /\ <<a, b>>[Len(<<a>>) + 1] = b  OBVIOUS
<1>3. \A i \in 1 .. Len(<<a>>) : <<a, b>>[i] = <<a>>[i]  OBVIOUS
<1> QED BY <1>1, <1>2, <1>3, SameSequence

LEMMA AppendToTwo ==
  ASSUME NEW a, NEW b, NEW c
  PROVE  Append(<<a, b>>, c) = <<a, b, c>>
<1>1. c \in {a, b, c} /\ <<a, b>> \in Seq({a, b, c}) /\ <<a, b, c>> \in Seq({a, b, c})
  OBVIOUS
<1>2. /\ Len(<<a, b, c>>) = Len(<<a, b>>) + 1
      /\ <<a, b, c>>[Len(<<a, b>>) + 1] = c
  OBVIOUS
<1>3. \A i \in 1 .. Len(<<a, b>>) : <<a, b, c>>[i] = <<a, b>>[i]
  <2>1. Len(<<a, b>>) = 2 /\ <<a, b>>[1] = a /\ <<a, b>>[2] = b  OBVIOUS
  <2>2. <<a, b, c>>[1] = a /\ <<a, b, c>>[2] = b  OBVIOUS
  <2> QED BY <2>1, <2>2
<1> QED BY <1>1, <1>2, <1>3, SameSequence

LEMMA Posting ==
  /\ Append(<<>>, "connected") = <<"connected">>
  /\ Append(<<>>, "got_ip") = <<"got_ip">>
  /\ Append(<<"connected">>, "got_ip") = <<"connected", "got_ip">>
  /\ Append(<<>>, "disconnected") = <<"disconnected">>
  /\ Append(<<"connected">>, "disconnected") = <<"connected", "disconnected">>
  /\ Append(<<"got_ip">>, "disconnected") = <<"got_ip", "disconnected">>
  /\ Append(<<"connected", "got_ip">>, "disconnected")
       = <<"connected", "got_ip", "disconnected">>
<1>1. \A x : Append(<<>>, x) = <<x>>  OBVIOUS
<1> QED BY <1>1, AppendToOne, AppendToTwo

LEMMA Handling ==
  /\ Head(<<"start">>) = "start" /\ Tail(<<"start">>) = <<>>
  /\ Head(<<"connected">>) = "connected" /\ Tail(<<"connected">>) = <<>>
  /\ Head(<<"got_ip">>) = "got_ip" /\ Tail(<<"got_ip">>) = <<>>
  /\ Head(<<"disconnected">>) = "disconnected" /\ Tail(<<"disconnected">>) = <<>>
  /\ Head(<<"connected", "got_ip">>) = "connected"
  /\ Tail(<<"connected", "got_ip">>) = <<"got_ip">>
  /\ Head(<<"connected", "disconnected">>) = "connected"
  /\ Tail(<<"connected", "disconnected">>) = <<"disconnected">>
  /\ Head(<<"got_ip", "disconnected">>) = "got_ip"
  /\ Tail(<<"got_ip", "disconnected">>) = <<"disconnected">>
  /\ Head(<<"connected", "got_ip", "disconnected">>) = "connected"
  /\ Tail(<<"connected", "got_ip", "disconnected">>) = <<"got_ip", "disconnected">>
OBVIOUS

LEMMA Kinds ==
  /\ <<>> \notin Lost \cup Addressed /\ <<"start">> \notin Lost \cup Addressed
  /\ <<"connected">> \notin Lost \cup Addressed
  /\ <<"disconnected">> \in Lost /\ <<"disconnected">> \notin Addressed
  /\ <<"connected", "disconnected">> \in Lost
  /\ <<"connected", "disconnected">> \notin Addressed
  /\ <<"got_ip">> \in Addressed /\ <<"got_ip">> \notin Lost
  /\ <<"connected", "got_ip">> \in Addressed /\ <<"connected", "got_ip">> \notin Lost
  /\ <<"got_ip", "disconnected">> \in Lost \cap Addressed
  /\ <<"connected", "got_ip", "disconnected">> \in Lost \cap Addressed
<1>1. /\ <<>> \notin Lost \cup Addressed /\ <<"start">> \notin Lost \cup Addressed
      /\ <<"connected">> \notin Lost \cup Addressed
  BY DEF Lost, Addressed
<1>2. <<"disconnected">> \in Lost /\ <<"disconnected">> \notin Addressed
  BY DEF Lost, Addressed
<1>3. /\ <<"connected", "disconnected">> \in Lost
      /\ <<"connected", "disconnected">> \notin Addressed
  BY DEF Lost, Addressed
<1>4. /\ <<"got_ip">> \in Addressed /\ <<"got_ip">> \notin Lost
      /\ <<"connected", "got_ip">> \in Addressed /\ <<"connected", "got_ip">> \notin Lost
  BY DEF Lost, Addressed
<1>5. /\ <<"got_ip", "disconnected">> \in Lost \cap Addressed
      /\ <<"connected", "got_ip", "disconnected">> \in Lost \cap Addressed
  BY DEF Lost, Addressed
<1> QED BY <1>1, <1>2, <1>3, <1>4, <1>5

LEMMA Constants == MaxRetry \in Nat /\ MaxRetry > 0 /\ 0 \in 0 .. MaxRetry - 1
BY WifiAssumption

LEMMA InitIsSafe == Init => LinkInv
<1> SUFFICES ASSUME Init PROVE LinkInv  OBVIOUS
<1> USE DEF Init, WifiInit
<1>1. LinkType  BY Constants DEF LinkType, LinkBits
<1>2. QueueInv /\ BitsInv  BY DEF QueueInv, BitsInv
<1>3. CounterInv  BY Kinds DEF CounterInv
<1>4. StartInv  BY FinishedIs13 DEF StartInv
<1> QED BY <1>1, <1>2, <1>3, <1>4 DEF LinkInv

-----------------------------------------------------------------------------
(* The start *)

LEMMA BootWifiStep ==
  ASSUME LinkInv, BootWifi
  PROVE  LinkInv'
<1>1. boot = 2
  <2>1. boot \in 1 .. 12  BY FinishedIs13 DEF LinkInv, StartInv, BootWifi, At
  <2> QED BY <2>1, WifiIsSecond DEF BootWifi, At
<1>2. /\ radio = "off" /\ bits = {} /\ events = <<>> /\ ~asleep
      /\ radio' = "idle" /\ events' = <<"start">> /\ boot' = 3
      /\ UNCHANGED <<asleep, bits, s_reconnect_cnt, server, losses>>
  BY <1>1 DEF LinkInv, StartInv, QueueInv, BootWifi, WifiStart, Advance, LinkType
<1>3. LinkType'  BY <1>2 DEF LinkInv, LinkType
<1>4. QueueInv' /\ BitsInv'  BY <1>2 DEF QueueInv, BitsInv
<1>6. CounterInv'  BY <1>2, Kinds DEF LinkInv, CounterInv
<1>7. StartInv'  BY <1>2, FinishedIs13 DEF StartInv
<1> QED BY <1>3, <1>4, <1>6, <1>7 DEF LinkInv

LEMMA SameLink ==
  ASSUME LinkInv, UNCHANGED wifiVars, boot' \in 1 .. Finished, boot' >= boot
  PROVE  LinkInv'
<1>1. LinkType' /\ QueueInv' /\ BitsInv' /\ CounterInv'
  BY DEF LinkInv, LinkType, QueueInv, BitsInv, CounterInv, wifiVars
<1>2. StartInv'  BY FinishedIs13 DEF LinkInv, StartInv, wifiVars
<1> QED BY <1>1, <1>2 DEF LinkInv

LEMMA AdvanceType ==
  ASSUME LinkInv, boot < Finished, Advance
  PROVE  boot' \in 1 .. Finished /\ boot' >= boot
BY FinishedIs13 DEF LinkInv, StartInv, Advance

LEMMA BootStep ==
  ASSUME LinkInv, Boot
  PROVE  LinkInv'
<1>1. CASE BootWifi  BY <1>1, BootWifiStep
<1>2. CASE BootCamera \/ BootSensors \/ BootOther
  <2>1. boot < Finished /\ Advance /\ UNCHANGED wifiVars
    BY <1>2 DEF BootCamera, BootSensors, BootOther, At
  <2> QED BY <2>1, AdvanceType, SameLink
<1> QED BY <1>1, <1>2 DEF Boot

LEMMA RestartStep ==
  ASSUME LinkInv, Restart
  PROVE  LinkInv'
<1> USE DEF Restart, WifiReset
<1>1. LinkType'  BY Constants DEF LinkType, LinkBits
<1>2. QueueInv' /\ BitsInv'  BY DEF QueueInv, BitsInv
<1>3. CounterInv'  BY Kinds DEF CounterInv
<1>4. StartInv'  BY FinishedIs13 DEF StartInv
<1> QED BY <1>1, <1>2, <1>3, <1>4 DEF LinkInv

-----------------------------------------------------------------------------
(* The radio and the handler *)

\* What is left of StartInv once the radio is on.
LEMMA RadioIsOn ==
  ASSUME LinkInv, radio # "off", radio' # "off", UNCHANGED boot
  PROVE  StartInv'
BY DEF LinkInv, StartInv

LEMMA RadioStep ==
  ASSUME LinkInv, Radio, UNCHANGED boot
  PROVE  LinkInv'
<1>1. CASE Associates
  <2>1. events = <<>> /\ ~asleep /\ events' = <<"connected">>
    BY <1>1, Posting DEF LinkInv, LinkType, QueueInv, Associates, Post
  <2>2. LinkType'  BY <1>1 DEF Associates, LinkInv, LinkType
  <2>3. QueueInv' /\ BitsInv'
    BY <1>1, <2>1 DEF Associates, LinkInv, QueueInv, BitsInv, Lost
  <2>4. CounterInv'  BY <1>1, <2>1, Kinds DEF Associates, LinkInv, CounterInv
  <2> QED BY <1>1, <2>2, <2>3, <2>4, RadioIsOn DEF Associates, LinkInv
<1>2. CASE GetsAddress
  <2>1. /\ ~asleep /\ events \in {<<>>, <<"connected">>}
        /\ events' = IF events = <<>> THEN <<"got_ip">> ELSE <<"connected", "got_ip">>
    BY <1>2, Posting DEF LinkInv, LinkType, QueueInv, GetsAddress, Post
  <2>2. LinkType'  BY <1>2 DEF GetsAddress, LinkInv, LinkType
  <2>3. QueueInv'  BY <1>2, <2>1 DEF GetsAddress, QueueInv
  <2>4. BitsInv'   BY <1>2, <2>1 DEF GetsAddress, BitsInv
  <2>5. events' \notin Lost /\ events' \in Addressed
    BY <2>1, Kinds
  <2>6. CounterInv'  BY <1>2, <2>5 DEF GetsAddress, CounterInv
  <2> QED BY <1>2, <2>2, <2>3, <2>4, <2>6, RadioIsOn DEF GetsAddress, LinkInv
<1>3. CASE Disconnects
  <2>1. ~asleep  BY <1>3 DEF LinkInv, LinkType, QueueInv, Disconnects
  <2>2. /\ events \in {<<>>, <<"connected">>, <<"got_ip">>, <<"connected", "got_ip">>}
        /\ events' \in Lost
        /\ events = <<>> => events' = <<"disconnected">>
        /\ events = <<"connected">> => events' = <<"connected", "disconnected">>
        /\ events = <<"got_ip">> => events' = <<"got_ip", "disconnected">>
        /\ events = <<"connected", "got_ip">> =>
             events' = <<"connected", "got_ip", "disconnected">>
    BY <1>3, Posting DEF LinkInv, QueueInv, Disconnects, Post, Lost
  <2>3. LinkType'  BY <1>3 DEF Disconnects, LinkInv, LinkType
  <2>4. QueueInv' /\ BitsInv'
    BY <1>3, <2>1, <2>2 DEF Disconnects, QueueInv, BitsInv, Lost
  <2>5. CounterInv'
    <3>1. s_reconnect_cnt \in Int  BY DEF LinkInv, LinkType
    <3> QED BY <1>3, <2>2, <3>1, Kinds DEF Disconnects, LinkInv, CounterInv
  <2> QED BY <1>3, <2>3, <2>4, <2>5, RadioIsOn DEF Disconnects, LinkInv
<1>4. CASE LosesAddress
  <2>1. LinkType' /\ QueueInv' /\ BitsInv' /\ CounterInv'
    BY <1>4 DEF LosesAddress, LinkInv, LinkType, QueueInv, BitsInv, CounterInv
  <2> QED BY <1>4, <2>1, RadioIsOn DEF LosesAddress, LinkInv
<1> QED BY <1>1, <1>2, <1>3, <1>4 DEF Radio

\* What may be waiting, by its first event.
LEMMA Waiting ==
  ASSUME LinkInv, NEW event, Handles(event)
  PROVE  /\ ~asleep /\ radio \notin {"off", "connecting", "refused", "lapsed"}
         /\ event = "start" => events = <<"start">> /\ radio = "idle"
         /\ event = "disconnected" => events = <<"disconnected">> /\ radio = "idle"
         /\ event = "connected" =>
              \/ events = <<"connected">> /\ radio = "associated"
              \/ events = <<"connected", "got_ip">> /\ radio = "online"
              \/ events = <<"connected", "disconnected">> /\ radio = "idle"
              \/ events = <<"connected", "got_ip", "disconnected">> /\ radio = "idle"
         /\ event = "got_ip" =>
              \/ events = <<"got_ip">> /\ radio = "online"
              \/ events = <<"got_ip", "disconnected">> /\ radio = "idle"
BY Handling DEF LinkInv, LinkType, QueueInv, Handles, Lost

LEMMA HandlerStep ==
  ASSUME LinkInv, EventLoop, UNCHANGED boot
  PROVE  LinkInv'
<1>1. CASE StaStart
  <2>1. events = <<"start">> /\ events' = <<>> /\ radio = "idle" /\ ~asleep
    BY <1>1, Waiting, Handling DEF StaStart, Handles
  <2>2. LinkType'  BY <1>1 DEF StaStart, Connect, LinkInv, LinkType
  <2>3. QueueInv'  BY <1>1, <2>1 DEF StaStart, Connect, QueueInv
  <2>4. BitsInv'  BY <1>1, <2>1 DEF StaStart, Connect, LinkInv, BitsInv, Lost
  <2>5. CounterInv'  BY <1>1, <2>1, Kinds DEF StaStart, LinkInv, CounterInv
  <2> QED
    BY <1>1, <2>1, <2>2, <2>3, <2>4, <2>5, RadioIsOn DEF StaStart, Connect, LinkInv
<1>2. CASE StaConnected
  <2>1. /\ ~asleep /\ radio # "off"
        /\ \/ events = <<"connected">> /\ events' = <<>> /\ radio = "associated"
           \/ /\ events = <<"connected", "got_ip">> /\ events' = <<"got_ip">>
              /\ radio = "online"
           \/ /\ events = <<"connected", "disconnected">> /\ events' = <<"disconnected">>
              /\ radio = "idle"
           \/ /\ events = <<"connected", "got_ip", "disconnected">>
              /\ events' = <<"got_ip", "disconnected">> /\ radio = "idle"
    BY <1>2, Waiting, Handling DEF StaConnected, Handles
  <2>2. LinkType'  BY <1>2 DEF StaConnected, LinkInv, LinkType, LinkBits
  <2>3. QueueInv'  BY <1>2, <2>1 DEF StaConnected, QueueInv, Lost
  <2>4. BitsInv'  BY <1>2, <2>1 DEF StaConnected, LinkInv, BitsInv, Lost
  <2>5. CounterInv'  BY <1>2, <2>1, Kinds DEF StaConnected, LinkInv, CounterInv
  <2> QED BY <1>2, <2>1, <2>2, <2>3, <2>4, <2>5, RadioIsOn DEF StaConnected, LinkInv
<1>3. CASE StaDisconnected
  <2>1. /\ events = <<"disconnected">> /\ events' = <<>> /\ radio = "idle" /\ ~asleep
        /\ s_reconnect_cnt + 1 < MaxRetry
    BY <1>3, Waiting, Handling, Constants
       DEF StaDisconnected, Handles, MustRestart, LinkInv, LinkType
  <2>2. LinkType'  BY <1>3, <2>1, Constants DEF StaDisconnected, LinkInv, LinkType
  <2>3. QueueInv'  BY <1>3, <2>1 DEF StaDisconnected, QueueInv
  <2>4. BitsInv'  BY <1>3, <2>1 DEF StaDisconnected, BitsInv, LinkBits
  <2>5. CounterInv'
    BY <1>3, <2>1, Kinds DEF StaDisconnected, LinkInv, LinkType, CounterInv
  <2> QED BY <1>3, <2>1, <2>2, <2>3, <2>4, <2>5, RadioIsOn DEF StaDisconnected, LinkInv
<1>4. CASE Reconnect
  <2>1. events = <<>> /\ radio = "idle"  BY <1>4 DEF LinkInv, QueueInv, Reconnect
  <2>2. LinkType'  BY <1>4 DEF Reconnect, Connect, LinkInv, LinkType
  <2>3. QueueInv'  BY <1>4, <2>1 DEF Reconnect, Connect, QueueInv
  <2>4. BitsInv'  BY <1>4, <2>1 DEF Reconnect, Connect, LinkInv, BitsInv, Lost
  <2>5. CounterInv'  BY <1>4, <2>1 DEF Reconnect, LinkInv, CounterInv
  <2> QED
    BY <1>4, <2>1, <2>2, <2>3, <2>4, <2>5, RadioIsOn DEF Reconnect, Connect, LinkInv
<1>5. CASE StaGotIp
  <2>1. /\ ~asleep
        /\ \/ events = <<"got_ip">> /\ events' = <<>> /\ radio = "online"
           \/ /\ events = <<"got_ip", "disconnected">> /\ events' = <<"disconnected">>
              /\ radio = "idle"
    BY <1>5, Waiting, Handling DEF StaGotIp, Handles
  <2>2. server' \in BOOLEAN  BY <1>5 DEF StaGotIp, HttpServerStart, LinkInv, LinkType
  <2>3. LinkType'  BY <1>5, <2>2, Constants DEF StaGotIp, LinkInv, LinkType
  <2>4. QueueInv'  BY <1>5, <2>1 DEF StaGotIp, QueueInv, Lost
  <2>5. BitsInv'  BY <1>5, <2>1 DEF StaGotIp, BitsInv, Lost, LinkBits
  <2>6. CounterInv'  BY <1>5, <2>1, Kinds DEF StaGotIp, LinkInv, CounterInv
  <2> QED BY <1>5, <2>1, <2>3, <2>4, <2>5, <2>6, RadioIsOn DEF StaGotIp, LinkInv
<1> QED BY <1>1, <1>2, <1>3, <1>4, <1>5 DEF EventLoop

-----------------------------------------------------------------------------

LEMMA NextIsSafe == LinkInv /\ [Next]_vars => LinkInv'
<1> SUFFICES ASSUME LinkInv, [Next]_vars PROVE LinkInv'  OBVIOUS
<1>1. CASE Boot  BY <1>1, BootStep
<1>2. CASE BootFails \/ GiveUp  BY <1>2, RestartStep DEF BootFails, GiveUp
<1>3. CASE Radio /\ OfWifi  BY <1>3, RadioStep DEF OfWifi
<1>4. CASE EventLoop /\ OfWifi  BY <1>4, HandlerStep DEF OfWifi
<1>5. CASE UNCHANGED wifiVars /\ UNCHANGED boot
  BY <1>5, SameLink, FinishedIs13 DEF LinkInv, StartInv
<1> QED BY <1>1, <1>2, <1>3, <1>4, <1>5 DEF Next, OfCam, OfSensors, vars

LEMMA AlwaysLinkInv == Spec => []LinkInv
BY InitIsSafe, NextIsSafe, PTL DEF Spec

\* Whatever was waiting for the handler, once it has caught up an address that is
\* there is reported, and what is reported is a link that has or has had one
\* (wifi_manager.c:53, :81).
THEOREM LinkIsAlwaysKnown == Spec => []LinkIsKnown
<1>1. LinkInv => LinkIsKnown
  BY DEF LinkInv, QueueInv, BitsInv, LinkIsKnown, IsConnected, Lost
<1> QED BY <1>1, AlwaysLinkInv, PTL

\* For every MaxRetry the hub restarts for want of a network only after that
\* many disconnections without an address in between (wifi_manager.c:61).
THEOREM RestartsAreEarned == Spec => []RestartIsEarned
<1>1. LinkInv => RestartIsEarned
  <2> SUFFICES ASSUME LinkInv, MustRestart PROVE losses >= MaxRetry
    BY DEF RestartIsEarned
  <2>1. events = <<"disconnected">>
    BY Handling DEF LinkInv, LinkType, QueueInv, MustRestart, Lost
  <2> QED BY <2>1, Constants, Kinds DEF LinkInv, LinkType, CounterInv, MustRestart
<1> QED BY <1>1, AlwaysLinkInv, PTL

-----------------------------------------------------------------------------
(* The flash log: its invariant *)

\* A record's number is given once: no page has the one in hand before it is
\* programmed, and none is acknowledged that has not been given.
StampInv ==
  /\ acked \subseteq 1 .. stamp /\ programmed \subseteq 1 .. stamp /\ since <= stamp
  /\ \A i \in Pages : page[i] \in Stamps => page[i] <= stamp
  /\ pc \in {"erase", "erasing", "program", "programming"} =>
       stamp > since /\ stamp \notin acked
  /\ pc \in {"erase", "erasing", "program"} =>
       stamp \notin programmed /\ \A i \in Pages : page[i] # stamp

\* If the chip has programmed the record that waits for ESP_OK, it is on the page
\* of the index, and on no other.
HandInv ==
  pc = "programming" =>
    /\ stamp \in programmed => page[write_idx] \in {stamp, Torn, Garbled}
    /\ \A i \in Pages : i # write_idx => page[i] # stamp

EraseInv == pc \in {"erase", "erasing"} => write_idx \in Heads

\* Once the log has entered a sector and the chip has erased it, no acknowledged
\* record is ahead of the index there.
AheadInv ==
  /\ pc # "off" /\ SectorOf(write_idx) # resumed /\ ~unerased
  /\ write_idx \in Heads => pc \in {"erasing", "program", "programming"}
  => \A i \in Pages :
       SectorOf(i) = SectorOf(write_idx) /\ i >= write_idx => page[i] \notin acked

LogInv == LogTypeOK /\ StampInv /\ HandInv /\ EraseInv /\ AheadInv /\ RecentRecordsInPlace

-----------------------------------------------------------------------------
(* The flash log: pages and sectors *)

\* A number is the multiple of the divisor and a remainder.
LEMMA Division == ASSUME NEW d \in Nat \ {0}, NEW a \in Nat
                  PROVE  /\ a = d * (a \div d) + (a % d)
                         /\ a % d \in 0 .. d - 1 /\ a \div d \in Nat
  OBVIOUS

LEMMA DivisionIs == ASSUME NEW d \in Nat \ {0}, NEW a \in Nat, NEW q \in Nat,
                           NEW r \in 0 .. d - 1, a = d * q + r
                    PROVE  a \div d = q /\ a % d = r
  OBVIOUS

\* What the code has as constants.
LEMMA LogBounds ==
  /\ Sectors \in Nat \ {0} /\ PerSector \in Nat \ {0}
  /\ NPages \in Nat \ {0} /\ NPages = PerSector * Sectors /\ PerSector <= NPages
  /\ MaxStamp \in Nat /\ MaxBoots \in Nat
  /\ Pages = 0 .. NPages - 1
<1>1. Sectors \in Nat /\ Sectors >= 1 /\ PerSector \in Nat /\ PerSector >= 1
  BY LogAssumption DEF LogAssumption
<1>2. /\ Sectors * PerSector \in Nat /\ Sectors * PerSector = PerSector * Sectors
      /\ PerSector <= Sectors * PerSector
  BY <1>1
<1> QED
  BY <1>1, <1>2, LogAssumption DEF LogAssumption, NPages, Pages

\* What damages a page is no record.
LEMMA Damages == /\ Blank \notin Nat /\ Garbled \notin Nat /\ Torn \notin Nat
                 /\ Blank # Garbled /\ Blank # Torn /\ Garbled # Torn
  BY LogAssumption DEF LogAssumption

\* The sector of a page, and its place in it.
LEMMA Sector == ASSUME NEW i \in Pages
                PROVE  /\ SectorOf(i) \in 0 .. Sectors - 1
                       /\ i = PerSector * SectorOf(i) + (i % PerSector)
                       /\ i % PerSector \in 0 .. PerSector - 1
<1>1. i \in Nat /\ i < PerSector * Sectors
  BY LogBounds
<1> DEFINE q == i \div PerSector
           r == i % PerSector
<1>2. i = PerSector * q + r /\ r \in 0 .. PerSector - 1 /\ q \in Nat
  BY <1>1, LogBounds, Division
<1> HIDE DEF q, r
<1>3. q < Sectors
  <2> SUFFICES ASSUME q >= Sectors PROVE FALSE
    BY <1>2, LogBounds
  <2>1. PerSector * q >= PerSector * Sectors
    BY <1>2, LogBounds
  <2> QED
    BY <1>1, <1>2, <2>1, LogBounds
<1> QED
  BY <1>2, <1>3, LogBounds DEF q, r, SectorOf

\* The index moves on within the sector, or to the head of one.
LEMMA NextPage == ASSUME NEW w \in Pages
                  PROVE  /\ (w + 1) % NPages \in Pages
                         /\ \/ (w + 1) % NPages \in Heads
                            \/ /\ (w + 1) % NPages = w + 1
                               /\ SectorOf(w + 1) = SectorOf(w)
<1> DEFINE q == SectorOf(w)
           r == w % PerSector
<1>1. /\ w = PerSector * q + r /\ r \in 0 .. PerSector - 1 /\ q \in Nat
      /\ w \in Nat /\ w < NPages
  BY Sector, LogBounds
<1> HIDE DEF q, r
<1>2. CASE w + 1 = NPages
  <2>1. (w + 1) % NPages = 0
    BY <1>2, LogBounds
  <2>2. 0 \in Pages /\ 0 % PerSector = 0
    BY LogBounds
  <2> QED
    BY <2>1, <2>2 DEF Heads
<1>3. CASE w + 1 < NPages
  <2>1. (w + 1) % NPages = w + 1 /\ w + 1 \in Pages
    BY <1>1, <1>3, LogBounds
  <2>2. CASE r + 1 < PerSector
    <3>1. w + 1 = PerSector * q + (r + 1) /\ r + 1 \in 0 .. PerSector - 1
      BY <1>1, <2>2, LogBounds
    <3>2. (w + 1) \div PerSector = q
      BY <1>1, <3>1, LogBounds, DivisionIs
    <3> QED
      BY <2>1, <3>2 DEF q, SectorOf
  <2>3. CASE r + 1 = PerSector
    <3>1. w + 1 = PerSector * (q + 1) + 0 /\ 0 \in 0 .. PerSector - 1 /\ q + 1 \in Nat
      BY <1>1, <2>3, LogBounds
    <3>2. (w + 1) % PerSector = 0
      BY <1>1, <3>1, LogBounds, DivisionIs
    <3> QED
      BY <2>1, <3>2 DEF Heads
  <2> QED
    BY <1>1, <2>2, <2>3, LogBounds
<1> QED
  BY <1>1, <1>2, <1>3, LogBounds

\* The page k records behind.
LEMMA Behind == ASSUME NEW w \in Pages, NEW k \in 1 .. NPages
                PROVE  /\ (w - k) % NPages = IF k <= w THEN w - k ELSE w - k + NPages
                       /\ (w - k) % NPages \in Pages
                       /\ k < NPages => (w - k) % NPages # w
<1>1. w \in Nat /\ w < NPages /\ k \in Nat /\ 1 <= k /\ k <= NPages /\ NPages \in Nat \ {0}
  BY LogBounds
<1>2. (w - k) % NPages = IF k <= w THEN w - k ELSE w - k + NPages
  <2>1. CASE k <= w
    BY <1>1, <2>1
  <2>2. CASE k > w
    BY <1>1, <2>2
  <2> QED
    BY <1>1, <2>1, <2>2
<1> QED
  BY <1>1, <1>2, LogBounds

\* It is the same page when a record later it is k + 1 behind.
LEMMA StillBehind == ASSUME NEW w \in Pages, NEW k \in 1 .. NPages - 1
                     PROVE  (((w + 1) % NPages) - (k + 1)) % NPages = (w - k) % NPages
<1>1. /\ w \in Nat /\ w < NPages /\ k \in Nat /\ 1 <= k /\ k < NPages
      /\ NPages \in Nat \ {0}
  BY LogBounds
<1>2. CASE w + 1 = NPages
  <2>1. (w + 1) % NPages = 0
    BY <1>2, LogBounds
  <2>2. 0 \in Pages /\ k + 1 \in 1 .. NPages
    BY <1>1, LogBounds
  <2>3. (0 - (k + 1)) % NPages = 0 - (k + 1) + NPages
    <3>1. (0 - (k + 1)) % NPages = IF k + 1 <= 0 THEN 0 - (k + 1) ELSE 0 - (k + 1) + NPages
      BY <2>2, Behind, Zenon
    <3> QED
      BY <1>1, <3>1
  <2>4. (w - k) % NPages = w - k
    BY <1>1, <1>2, Behind
  <2> QED
    BY <1>1, <1>2, <2>1, <2>3, <2>4
<1>3. CASE w + 1 < NPages
  <2>1. (w + 1) % NPages = w + 1 /\ w + 1 \in Pages /\ k + 1 \in 1 .. NPages
    BY <1>1, <1>3, LogBounds
  <2>2. /\ ((w + 1) - (k + 1)) % NPages = IF k + 1 <= w + 1 THEN (w + 1) - (k + 1)
                                          ELSE (w + 1) - (k + 1) + NPages
    BY <2>1, Behind
  <2>3. (w - k) % NPages = IF k <= w THEN w - k ELSE w - k + NPages
    <3>1. k \in 1 .. NPages
      BY <1>1
    <3> QED
      BY <3>1, Behind, Zenon
  <2>4. (w + 1) - (k + 1) = w - k /\ (k + 1 <= w + 1 <=> k <= w)
    BY <1>1
  <2> QED
    BY <2>1, <2>2, <2>3, <2>4
<1> QED
  BY <1>1, <1>2, <1>3

\* Erasing the sector the index has entered spares all but a sector of what is
\* behind.
LEMMA Spared == ASSUME NEW w \in Heads, NEW k \in 1 .. NPages - PerSector
                PROVE  SectorOf((w - k) % NPages) # SectorOf(w)
<1>1. w \in Pages /\ w % PerSector = 0
  BY DEF Heads
<1>2. k \in 1 .. NPages /\ k <= NPages - PerSector /\ k \in Nat /\ k >= 1
  BY LogBounds
<1> DEFINE i == (w - k) % NPages
<1>3. i \in Pages /\ i = IF k <= w THEN w - k ELSE w - k + NPages
  BY <1>1, <1>2, Behind
<1> HIDE DEF i
<1> SUFFICES ASSUME SectorOf(i) = SectorOf(w) PROVE FALSE
  BY DEF i
<1> DEFINE m == PerSector * SectorOf(w)
<1>4. w = m + 0 /\ i = m + (i % PerSector) /\ i % PerSector \in 0 .. PerSector - 1
  BY <1>1, <1>3, Sector
<1> HIDE DEF m
<1>5. w \in Nat /\ i \in Nat /\ i >= w /\ i < w + PerSector
  <2>1. w \in Nat /\ i \in Nat
    BY <1>1, <1>3, LogBounds
  <2>2. m \in Int
    BY <1>1, Sector, LogBounds DEF m
  <2> QED
    BY <1>4, <2>1, <2>2, LogBounds
<1> QED
  BY <1>2, <1>3, <1>5, LogBounds

-----------------------------------------------------------------------------
(* The flash log: its steps *)

\* What a page that is written can hold.
LEMMA ProgrammedIs ==
  ASSUME NEW old, NEW rec
  PROVE  /\ Programmed(old, rec) \in {rec, Torn, Garbled}
         /\ Programmed(old, rec) = rec \/ Programmed(old, rec) = Torn \/ old # Blank
<1>1. CASE old = Blank
  BY <1>1, Zenon, Damages DEF Programmed
<1>2. CASE old = Torn
  BY <1>2, Zenon, Damages DEF Programmed
<1>3. CASE old # Blank /\ old # Torn
  BY <1>3, Zenon DEF Programmed
<1> QED
  BY <1>1, <1>2, <1>3

\* The acknowledged records of a session are finitely many, and each is as old
\* as there are younger ones.
LEMMA AgeType == ASSUME LogTypeOK, NEW a \in Session
                 PROVE  /\ IsFiniteSet({b \in Session : b >= a})
                        /\ Age(a) \in Nat /\ Age(a) >= 1
<1> DEFINE Younger == {b \in Session : b >= a}
<1>1. Younger \subseteq 1 .. MaxStamp /\ a \in Younger
  <2>1. Session \subseteq 1 .. MaxStamp
    BY DEF Session, LogTypeOK, Stamps
  <2>2. a >= a
    <3>1. a \in Int
      BY <2>1
    <3> QED
      BY <3>1
  <2>3. a \in Younger
    BY <2>2
  <2> QED
    BY <2>1, <2>3
<1> HIDE DEF Younger
<1>2. IsFiniteSet(Younger)
  <2>1. IsFiniteSet(1 .. MaxStamp)
    BY LogBounds, FS_Interval
  <2> QED
    BY <1>1, <2>1, FS_Subset
<1>3. Cardinality(Younger) \in Nat /\ Cardinality(Younger) # 0
  BY <1>1, <1>2, FS_CardinalityType, FS_EmptySet
<1> QED
  BY <1>2, <1>3 DEF Age, Younger

\* As long as the session and the index stay, only what is written to the pages
\* of its recent records matters.
LEMMA SamePlaces ==
  ASSUME LogTypeOK, RecentRecordsInPlace, UNCHANGED <<write_idx, acked, since>>,
         Session \cap programmed' = Session \cap programmed,
         \A k \in 1 .. NPages - PerSector :
           page'[(write_idx - k) % NPages] = page[(write_idx - k) % NPages]
  PROVE  RecentRecordsInPlace'
<1>1. Session' = Session /\ \A a \in Session : Age(a)' = Age(a)
  BY DEF Session, Age
<1> SUFFICES ASSUME NEW a \in Session \cap programmed, Age(a) <= NPages - PerSector
             PROVE  page'[(write_idx - Age(a)) % NPages] \in {a, Garbled, Torn}
  BY <1>1 DEF RecentRecordsInPlace
<1>2. Age(a) \in 1 .. NPages - PerSector
  <2>1. Age(a) \in Nat /\ Age(a) >= 1
    BY AgeType
  <2>2. NPages - PerSector \in Int
    BY LogBounds
  <2> QED
    BY <2>1, <2>2
<1> QED
  BY <1>2 DEF RecentRecordsInPlace

\* No recent record is on the page the index is at.
LEMMA NotAtIndex == ASSUME LogTypeOK, NEW k \in 1 .. NPages - PerSector
                    PROVE  /\ (write_idx - k) % NPages \in Pages
                           /\ (write_idx - k) % NPages # write_idx
<1>1. k \in 1 .. NPages /\ k < NPages
  BY LogBounds
<1> QED
  BY <1>1, Behind DEF LogTypeOK

\* The log starts empty.
LEMMA LogInitInv == ASSUME LogInit PROVE LogInv
<1>1. /\ page = [i \in Pages |-> Blank] /\ write_idx = 0 /\ pc = "off" /\ stamp = 0
      /\ busy = {} /\ acked = {} /\ programmed = {} /\ unerased = FALSE
      /\ boots = 0 /\ resumed = 0 /\ since = 0
  BY DEF LogInit
<1>2. LogTypeOK
  <2>1. /\ page \in [Pages -> Stamps \cup {Blank, Garbled, Torn}]
        /\ busy \subseteq Pages /\ acked \subseteq Stamps /\ programmed \subseteq Stamps
    BY <1>1
  <2>2. /\ write_idx \in Pages /\ stamp \in 0 .. MaxStamp /\ since \in 0 .. MaxStamp
        /\ boots \in 0 .. MaxBoots /\ resumed \in 0 .. Sectors - 1
    BY <1>1, LogBounds
  <2>3. unerased \in BOOLEAN /\ pc = "off"
    BY <1>1
  <2> QED
    BY <2>1, <2>2, <2>3 DEF LogTypeOK
<1>3. StampInv
  BY <1>1, Damages, LogBounds DEF StampInv, Stamps
<1>4. HandInv /\ EraseInv /\ AheadInv /\ RecentRecordsInPlace
  BY <1>1 DEF HandInv, EraseInv, AheadInv, RecentRecordsInPlace, Session
<1> QED
  BY <1>2, <1>3, <1>4 DEF LogInv

\* A session starts: none of its records is written, and it goes on in the
\* sector it resumes in.
LEMMA LogBootInv == ASSUME LogInv, LogBoot PROVE LogInv'
<1>1. LogTypeOK /\ StampInv
  BY DEF LogInv
<1>2. PICK last \in LastRecords : /\ write_idx' = (last + 1) % NPages
                                  /\ resumed' = SectorOf((last + 1) % NPages)
  BY DEF LogBoot
<1>3. /\ boots < MaxBoots /\ boots' = boots + 1 /\ since' = stamp /\ pc' = "idle"
      /\ programmed' = {} /\ unerased' = FALSE
      /\ UNCHANGED <<page, busy, stamp, acked>>
  BY DEF LogBoot
<1>4. write_idx' \in Pages
  <2>1. last \in Pages \/ last = -1
    BY DEF LastRecords, Heads
  <2>2. CASE last = -1
    <3>1. (last + 1) % NPages = 0
      BY <2>2, LogBounds
    <3> QED
      BY <1>2, <3>1, LogBounds
  <2> QED
    BY <1>2, <2>1, <2>2, NextPage
<1>5. resumed' = SectorOf(write_idx') /\ resumed' \in 0 .. Sectors - 1
  BY <1>2, <1>4, Sector
<1>6. LogTypeOK'
  <2>1. boots' \in 0 .. MaxBoots /\ since' \in 0 .. MaxStamp
    BY <1>1, <1>3, LogBounds DEF LogTypeOK
  <2>2. unerased' \in BOOLEAN /\ programmed' \subseteq Stamps /\ pc' = "idle"
    BY <1>3
  <2> QED
    BY <1>1, <1>3, <1>4, <1>5, <2>1, <2>2 DEF LogTypeOK
<1>7. StampInv'
  <2>1. stamp \in Nat
    BY <1>1, LogBounds DEF LogTypeOK
  <2> QED
    BY <1>1, <1>3, <2>1 DEF StampInv
<1>8. HandInv' /\ EraseInv' /\ AheadInv'
  BY <1>3, <1>5 DEF HandInv, EraseInv, AheadInv
<1>9. RecentRecordsInPlace'
  <2>1. acked \subseteq 1 .. stamp /\ stamp \in Int
    BY <1>1, LogBounds DEF StampInv, LogTypeOK
  <2>2. \A a \in acked : ~ (a > stamp)
    BY <2>1
  <2>3. Session' = {}
    BY <1>3, <2>2 DEF Session
  <2> QED
    BY <2>3 DEF RecentRecordsInPlace
<1> QED
  BY <1>6, <1>7, <1>8, <1>9 DEF LogInv

\* A record is in hand: it has a number no page has.
LEMMA WriteBeginInv == ASSUME LogInv, WriteBegin PROVE LogInv'
<1>1. LogTypeOK /\ StampInv /\ AheadInv /\ RecentRecordsInPlace
  BY DEF LogInv
<1>2. /\ pc = "idle" /\ stamp < MaxStamp /\ stamp' = stamp + 1
      /\ pc' = IF write_idx \in Heads THEN "erase" ELSE "program"
      /\ UNCHANGED <<page, busy, write_idx, acked, programmed, unerased,
                     boots, resumed, since>>
  BY DEF WriteBegin, logHistory, logSession
<1>3. stamp \in Nat /\ since \in Nat /\ acked \subseteq Nat /\ programmed \subseteq Nat
  BY <1>1, LogBounds DEF LogTypeOK, Stamps
<1>4. LogTypeOK'
  BY <1>1, <1>2, <1>3, LogBounds DEF LogTypeOK
<1>5. StampInv'
  <2>1. /\ acked' \subseteq 1 .. stamp' /\ programmed' \subseteq 1 .. stamp'
        /\ since' <= stamp' /\ stamp' > since'
        /\ stamp' \notin acked' /\ stamp' \notin programmed'
    BY <1>1, <1>2, <1>3 DEF StampInv
  <2>2. ASSUME NEW i \in Pages
        PROVE  (page'[i] \in Stamps => page'[i] <= stamp') /\ page'[i] # stamp'
    <3>1. stamp' \in Stamps /\ (page[i] \in Stamps => page[i] \in Nat /\ page[i] <= stamp)
      BY <1>1, <1>2, <1>3, LogBounds DEF StampInv, Stamps
    <3> QED
      BY <1>2, <1>3, <3>1
  <2> QED
    BY <2>1, <2>2 DEF StampInv
<1>6. HandInv' /\ EraseInv' /\ AheadInv'
  BY <1>1, <1>2 DEF HandInv, EraseInv, AheadInv
<1>7. RecentRecordsInPlace'
  BY <1>1, <1>2, SamePlaces
<1> QED
  BY <1>4, <1>5, <1>6, <1>7 DEF LogInv

\* What a command the chip obeys, or the loss of power, may do to the pages.
Erased     == pc = "erase" /\ page' = EraseSector
Written    == pc = "program" /\ page' = ProgramPage
Cut        == \A i \in Pages : page'[i] \in {page[i], Torn}
PageStep   == page' = page \/ Erased \/ Written \/ Cut

\* However it ends, the recent records are where they were.
LEMMA PagesKeep ==
  ASSUME LogInv, PageStep, UNCHANGED <<write_idx, stamp, acked, since>>,
         page' \in [Pages -> Stamps \cup {Blank, Garbled, Torn}],
         Session \cap programmed' = Session \cap programmed
  PROVE  /\ \A i \in Pages : page'[i] # page[i] =>
              \/ pc = "erase" /\ SectorOf(i) = SectorOf(write_idx) /\ page'[i] = Blank
              \/ pc = "program" /\ i = write_idx /\ page'[i] \in {stamp, Torn, Garbled}
              \/ page'[i] = Torn
         /\ RecentRecordsInPlace'
<1>1. /\ LogTypeOK /\ EraseInv /\ RecentRecordsInPlace
      /\ page \in [Pages -> Stamps \cup {Blank, Garbled, Torn}] /\ write_idx \in Pages
  BY DEF LogInv, LogTypeOK
<1>2. CASE page' = page
  BY <1>1, <1>2, SamePlaces
<1>3. CASE Erased
  <2>1. \A i \in Pages : page'[i] = IF SectorOf(i) = SectorOf(write_idx)
                                     THEN Blank ELSE page[i]
    BY <1>3 DEF Erased, EraseSector, ThisSector
  <2>2. ASSUME NEW k \in 1 .. NPages - PerSector
        PROVE  page'[(write_idx - k) % NPages] = page[(write_idx - k) % NPages]
    <3> DEFINE i == (write_idx - k) % NPages
    <3>1. write_idx \in Heads
      BY <1>1, <1>3 DEF Erased, EraseInv
    <3>2. i \in Pages /\ SectorOf(i) # SectorOf(write_idx)
      BY <1>1, <3>1, NotAtIndex, Spared
    <3> HIDE DEF i
    <3>3. page'[i] = page[i]
      BY <2>1, <3>2
    <3> QED
      BY <3>3 DEF i
  <2>3. RecentRecordsInPlace'
    BY <1>1, <2>2, SamePlaces
  <2> QED
    BY <1>3, <2>1, <2>3 DEF Erased
<1>4. CASE Written
  <2> DEFINE new == Programmed(page[write_idx], stamp)
  <2>1. new \in {stamp, Torn, Garbled}
    BY ProgrammedIs
  <2>2. page' = [page EXCEPT ![write_idx] = new]
    BY <1>4 DEF Written, ProgramPage
  <2> HIDE DEF new
  <2>3. /\ \A i \in Pages : i # write_idx => page'[i] = page[i]
        /\ page'[write_idx] \in {stamp, Torn, Garbled}
    BY <1>1, <2>1, <2>2
  <2>4. RecentRecordsInPlace'
    BY <1>1, <2>3, NotAtIndex, SamePlaces
  <2> QED
    BY <1>4, <2>3, <2>4 DEF Written
<1>5. CASE Cut
  <2>1. Session' = Session /\ \A a \in Session : Age(a)' = Age(a)
    BY DEF Session, Age
  <2> SUFFICES ASSUME NEW a \in Session \cap programmed, Age(a) <= NPages - PerSector
               PROVE  page'[(write_idx - Age(a)) % NPages] \in {a, Garbled, Torn}
    BY <1>5, <2>1 DEF RecentRecordsInPlace, Cut
  <2>2. Age(a) \in 1 .. NPages - PerSector
    <3>1. Age(a) \in Nat /\ Age(a) >= 1
      BY <1>1, AgeType
    <3> QED
      BY <3>1, LogBounds
  <2>3. (write_idx - Age(a)) % NPages \in Pages
    BY <1>1, <2>2, NotAtIndex
  <2>4. page[(write_idx - Age(a)) % NPages] \in {a, Garbled, Torn}
    BY <1>1 DEF RecentRecordsInPlace
  <2> QED
    BY <1>5, <2>3, <2>4 DEF Cut
<1> QED
  BY <1>2, <1>3, <1>4, <1>5 DEF PageStep

\* The parts of the invariant about a page that holds no acknowledged record are
\* kept if no page gets one.
LEMMA NumbersKeep ==
  ASSUME LogInv, PageStep, UNCHANGED <<write_idx, stamp, acked, since>>,
         page' \in [Pages -> Stamps \cup {Blank, Garbled, Torn}],
         Session \cap programmed' = Session \cap programmed
  PROVE  /\ \A i \in Pages : page'[i] \in Stamps => page'[i] <= stamp
         /\ \A i \in Pages : page[i] # stamp /\ (pc = "program" => i # write_idx)
                                => page'[i] # stamp
         /\ \A i \in Pages : page[i] \notin acked /\ stamp \notin acked
                                => page'[i] \notin acked
<1>1. LogTypeOK /\ StampInv /\ stamp \in Nat /\ acked \subseteq Nat
  BY LogBounds DEF LogInv, LogTypeOK, Stamps
<1> SUFFICES ASSUME NEW i \in Pages
             PROVE  /\ page'[i] \in Stamps => page'[i] <= stamp
                    /\ page[i] # stamp /\ (pc = "program" => i # write_idx)
                         => page'[i] # stamp
                    /\ page[i] \notin acked /\ stamp \notin acked
                         => page'[i] \notin acked
  OBVIOUS
<1>2. \/ page'[i] = page[i]
      \/ page'[i] \in {Blank, Torn, Garbled}
      \/ page'[i] = stamp /\ pc = "program" /\ i = write_idx
  BY PagesKeep
<1>3. \A x \in {Blank, Torn, Garbled} : x \notin Nat
  BY Damages
<1>4. Stamps \subseteq Nat /\ stamp <= stamp
  BY <1>1 DEF Stamps
<1>5. CASE page'[i] = page[i]
  BY <1>1, <1>5 DEF StampInv
<1>6. CASE page'[i] \in {Blank, Torn, Garbled}
  BY <1>1, <1>3, <1>4, <1>6
<1>7. CASE page'[i] = stamp /\ pc = "program" /\ i = write_idx
  BY <1>4, <1>7
<1> QED
  BY <1>2, <1>5, <1>6, <1>7

\* The command to erase, obeyed or ignored.
LEMMA EraseStep == ASSUME LogInv, EraseCommand PROVE LogInv'
<1>1. LogTypeOK /\ StampInv /\ EraseInv
  BY DEF LogInv
<1>2. /\ pc = "erase" /\ pc' \in {"erasing", "idle"}
      /\ UNCHANGED <<write_idx, stamp, acked, programmed, boots, resumed, since>>
      /\ \/ page' = EraseSector /\ busy' = ThisSector /\ unerased' = FALSE
         \/ unerased' = TRUE /\ UNCHANGED <<page, busy>>
  BY DEF EraseCommand, logSession
<1>3. PageStep
  BY <1>2 DEF PageStep, Erased
<1>4. page' \in [Pages -> Stamps \cup {Blank, Garbled, Torn}]
  BY <1>1, <1>2 DEF LogTypeOK, EraseSector
<1>5. LogTypeOK'
  BY <1>1, <1>2, <1>4 DEF LogTypeOK, ThisSector
<1>6. RecentRecordsInPlace'
  BY <1>2, <1>3, <1>4, PagesKeep
<1>7. StampInv'
  BY <1>1, <1>2, <1>3, <1>4, NumbersKeep DEF StampInv
<1>8. HandInv' /\ EraseInv'
  BY <1>1, <1>2 DEF HandInv, EraseInv
<1>9. AheadInv'
  <2> SUFFICES ASSUME pc' = "erasing", ~unerased',
                      NEW i \in Pages, SectorOf(i) = SectorOf(write_idx)
               PROVE  page'[i] \notin acked
    BY <1>1, <1>2 DEF AheadInv, EraseInv
  <2>1. page'[i] = Blank
    BY <1>2 DEF EraseSector, ThisSector
  <2>2. acked \subseteq Nat
    BY <1>1 DEF LogTypeOK, Stamps
  <2> QED
    BY <2>1, <2>2, Damages
<1> QED
  BY <1>5, <1>6, <1>7, <1>8, <1>9 DEF LogInv

\* The command to program, obeyed or ignored.
LEMMA ProgramStep == ASSUME LogInv, ProgramCommand PROVE LogInv'
<1>1. LogTypeOK /\ StampInv /\ AheadInv
  BY DEF LogInv
<1>2. /\ pc = "program" /\ pc' \in {"programming", "idle"}
      /\ UNCHANGED <<write_idx, stamp, acked, unerased, boots, resumed, since>>
      /\ \/ page' = ProgramPage /\ busy' = {write_idx} /\ programmed' = programmed \cup {stamp}
         \/ UNCHANGED <<page, busy, programmed>>
  BY DEF ProgramCommand, logSession
<1>3. PageStep
  BY <1>2 DEF PageStep, Written
<1>4. /\ stamp \in Stamps /\ stamp \in Nat /\ stamp \notin acked /\ stamp \notin programmed
      /\ stamp \in 1 .. stamp
  BY <1>1, <1>2, LogBounds DEF StampInv, LogTypeOK, Stamps
<1>5. page' \in [Pages -> Stamps \cup {Blank, Garbled, Torn}]
  <2> DEFINE new == Programmed(page[write_idx], stamp)
  <2>1. new \in Stamps \cup {Blank, Garbled, Torn}
    BY <1>4, ProgrammedIs
  <2>2. page' = page \/ page' = [page EXCEPT ![write_idx] = new]
    BY <1>2 DEF ProgramPage
  <2> HIDE DEF new
  <2> QED
    BY <1>1, <2>1, <2>2 DEF LogTypeOK
<1>6. Session \cap programmed' = Session \cap programmed
  BY <1>2, <1>4 DEF Session
<1>7. LogTypeOK'
  BY <1>1, <1>2, <1>4, <1>5 DEF LogTypeOK
<1>8. RecentRecordsInPlace'
  BY <1>2, <1>3, <1>5, <1>6, PagesKeep
<1>9. /\ \A i \in Pages : page'[i] \in Stamps => page'[i] <= stamp
      /\ \A i \in Pages : page[i] # stamp /\ (pc = "program" => i # write_idx)
                             => page'[i] # stamp
      /\ \A i \in Pages : page[i] \notin acked /\ stamp \notin acked
                             => page'[i] \notin acked
  BY <1>2, <1>3, <1>5, <1>6, NumbersKeep
<1>10. StampInv'
  BY <1>1, <1>2, <1>4, <1>9 DEF StampInv
<1>11. HandInv'
  <2>1. stamp \in programmed' => page'[write_idx] \in {stamp, Torn, Garbled}
    <3> SUFFICES ASSUME page' = ProgramPage
                 PROVE  page'[write_idx] \in {stamp, Torn, Garbled}
      BY <1>2, <1>4
    <3>1. Programmed(page[write_idx], stamp) \in {stamp, Torn, Garbled}
      BY ProgrammedIs
    <3> QED
      BY <1>1, <3>1 DEF ProgramPage, LogTypeOK
  <2>2. \A i \in Pages : i # write_idx => page'[i] # stamp
    BY <1>1, <1>2, <1>9 DEF StampInv
  <2> QED
    BY <1>2, <2>1, <2>2 DEF HandInv
<1>12. EraseInv' /\ AheadInv'
  BY <1>1, <1>2, <1>4, <1>9 DEF EraseInv, AheadInv
<1> QED
  BY <1>7, <1>8, <1>10, <1>11, <1>12 DEF LogInv

\* A wait that does not acknowledge the record, and the chip's own end of work,
\* change no page.
LEMMA WaitStep ==
  ASSUME LogInv, EraseReturns \/ ProgramFails \/ ChipDone
  PROVE  LogInv'
<1>1. /\ UNCHANGED <<page, write_idx, stamp, acked, programmed, unerased,
                     boots, resumed, since>>
      /\ busy' = busy \/ busy' = {}
      /\ \/ pc = "erasing" /\ pc' \in {"program", "idle"}
         \/ pc = "programming" /\ pc' = "idle"
         \/ pc' = pc
  BY DEF EraseReturns, ProgramFails, ChipDone, logHistory, logSession
<1>2. LogTypeOK /\ StampInv /\ HandInv /\ EraseInv /\ AheadInv /\ RecentRecordsInPlace
  BY DEF LogInv
<1>3. RecentRecordsInPlace'
  BY <1>1, <1>2, SamePlaces
<1>4. LogTypeOK'
  BY <1>1, <1>2 DEF LogTypeOK
<1>5. StampInv' /\ HandInv' /\ EraseInv'
  BY <1>1, <1>2 DEF StampInv, HandInv, EraseInv
<1>6. AheadInv'
  BY <1>1, <1>2 DEF AheadInv, EraseInv
<1> QED
  BY <1>3, <1>4, <1>5, <1>6 DEF LogInv

\* Power is lost.
LEMMA PowerLossStep == ASSUME LogInv, PowerLoss PROVE LogInv'
<1>1. /\ pc' = "off" /\ busy' = {}
      /\ page' \in {page, [i \in Pages |-> IF i \in busy THEN Torn ELSE page[i]]}
      /\ UNCHANGED <<write_idx, stamp, acked, programmed, unerased, boots, resumed, since>>
  BY DEF PowerLoss, logHistory, logSession
<1>2. LogTypeOK /\ StampInv
  BY DEF LogInv
<1>3. PageStep
  BY <1>1 DEF PageStep, Cut
<1>4. page' \in [Pages -> Stamps \cup {Blank, Garbled, Torn}]
  BY <1>1, <1>2 DEF LogTypeOK
<1>5. LogTypeOK'
  BY <1>1, <1>2, <1>4 DEF LogTypeOK
<1>6. RecentRecordsInPlace'
  BY <1>1, <1>3, <1>4, PagesKeep
<1>7. StampInv'
  BY <1>1, <1>2, <1>3, <1>4, NumbersKeep DEF StampInv
<1>8. HandInv' /\ EraseInv' /\ AheadInv'
  BY <1>1 DEF HandInv, EraseInv, AheadInv
<1> QED
  BY <1>5, <1>6, <1>7, <1>8 DEF LogInv

\* A record is acknowledged: the older ones of the session are one record older,
\* and the index has moved on by a page.
LEMMA ProgramOkStep == ASSUME LogInv, ProgramOk PROVE LogInv'
<1>1. LogTypeOK /\ StampInv /\ HandInv /\ AheadInv /\ RecentRecordsInPlace
  BY DEF LogInv
<1>2. /\ pc = "programming" /\ acked' = acked \cup {stamp}
      /\ write_idx' = (write_idx + 1) % NPages /\ pc' = "idle"
      /\ UNCHANGED <<page, busy, stamp, programmed, unerased, boots, resumed, since>>
  BY DEF ProgramOk, logSession
<1>3. /\ stamp \in Nat /\ since \in Nat /\ stamp > since /\ stamp \in Stamps
      /\ stamp \notin acked /\ acked \subseteq 1 .. stamp /\ acked \subseteq Stamps
      /\ write_idx \in Pages /\ write_idx' \in Pages
  <2>1. /\ write_idx \in Pages /\ stamp \in 0 .. MaxStamp /\ since \in 0 .. MaxStamp
        /\ acked \subseteq Stamps
    BY <1>1 DEF LogTypeOK
  <2>2. acked \subseteq 1 .. stamp /\ stamp > since /\ stamp \notin acked
    BY <1>1, <1>2 DEF StampInv
  <2>3. stamp \in Nat /\ since \in Nat /\ stamp \in Stamps
    BY <2>1, <2>2, LogBounds DEF Stamps
  <2>4. write_idx' \in Pages
    BY <1>2, <2>1, NextPage
  <2> QED
    BY <2>1, <2>2, <2>3, <2>4
<1>4. /\ stamp \in programmed => page[write_idx] \in {stamp, Torn, Garbled}
      /\ \A i \in Pages : i # write_idx => page[i] # stamp
  BY <1>1, <1>2 DEF HandInv
<1>5. LogTypeOK'
  BY <1>1, <1>2, <1>3 DEF LogTypeOK
<1>6. StampInv'
  BY <1>1, <1>2, <1>3 DEF StampInv
<1>7. HandInv' /\ EraseInv'
  BY <1>2 DEF HandInv, EraseInv
<1>8. AheadInv'
  <2> SUFFICES ASSUME SectorOf(write_idx') # resumed, ~unerased, write_idx' \notin Heads,
                      NEW i \in Pages, SectorOf(i) = SectorOf(write_idx'), i >= write_idx'
               PROVE  page[i] \notin acked'
    BY <1>2 DEF AheadInv
  <2>1. write_idx' = write_idx + 1 /\ SectorOf(write_idx') = SectorOf(write_idx)
    BY <1>2, <1>3, NextPage
  <2>2. i \in Nat /\ write_idx \in Nat /\ i > write_idx
    BY <1>3, <2>1, LogBounds
  <2>3. page[i] \notin acked
    BY <1>1, <1>2, <2>1, <2>2 DEF AheadInv
  <2>4. page[i] # stamp
    BY <1>4, <2>2
  <2> QED
    BY <1>2, <2>3, <2>4
<1>9. RecentRecordsInPlace'
  <2>1. Session' = Session \cup {stamp} /\ stamp \notin Session
    BY <1>2, <1>3 DEF Session
  <2> SUFFICES ASSUME NEW a \in Session' \cap programmed, Age(a)' <= NPages - PerSector
               PROVE  page[(write_idx' - Age(a)') % NPages] \in {a, Garbled, Torn}
    BY <1>2 DEF RecentRecordsInPlace
  <2>2. CASE a = stamp
    <3>1. {b \in Session' : b >= a} = {stamp}
      <4>1. \A b \in Session : b \in Nat /\ b < stamp
        BY <1>3 DEF Session
      <4>2. stamp >= stamp /\ \A b \in Session : ~ (b >= stamp)
        BY <1>3, <4>1
      <4> QED
        BY <2>1, <2>2, <4>2
    <3>2. Age(a)' = 1
      BY <3>1, FS_Singleton DEF Age
    <3>3. (write_idx' - 1) % NPages = write_idx
      <4>1. write_idx \in Nat /\ write_idx < NPages /\ NPages \in Nat \ {0}
        BY <1>3, LogBounds
      <4>2. CASE write_idx + 1 < NPages
        <5>1. write_idx' = write_idx + 1
          BY <1>2, <4>1, <4>2
        <5> QED
          BY <4>1, <5>1
      <4>3. CASE write_idx + 1 = NPages
        <5>1. write_idx' = 0
          BY <1>2, <4>1, <4>3
        <5> QED
          BY <4>1, <4>3, <5>1
      <4> QED
        BY <4>1, <4>2, <4>3
    <3> QED
      BY <1>4, <2>2, <3>2, <3>3
  <2>3. CASE a # stamp
    <3>1. a \in Session
      BY <2>1, <2>3
    <3> DEFINE Younger == {b \in Session : b >= a}
    <3>2. IsFiniteSet(Younger) /\ Age(a) = Cardinality(Younger) /\ Age(a) \in Nat /\ Age(a) >= 1
      BY <1>1, <3>1, AgeType DEF Age
    <3>3. a \in Nat /\ a <= stamp
      BY <1>3, <3>1 DEF Session
    <3>4. {b \in Session' : b >= a} = Younger \cup {stamp} /\ stamp \notin Younger
      BY <1>3, <2>1, <3>3
    <3> HIDE DEF Younger
    <3>5. Age(a)' = Age(a) + 1
      <4>1. Cardinality(Younger \cup {stamp}) = Cardinality(Younger) + 1
        BY <3>2, <3>4, FS_AddElement
      <4> QED
        BY <3>2, <3>4, <4>1 DEF Age
    <3>6. Age(a) <= NPages - PerSector /\ Age(a) \in 1 .. NPages - 1
          /\ Age(a) \in 1 .. NPages - PerSector
      <4>1. Age(a) + 1 <= NPages - PerSector
        BY <3>5
      <4> QED
        BY <3>2, <4>1, LogBounds
    <3>7. (write_idx' - Age(a)') % NPages = (write_idx - Age(a)) % NPages
      BY <1>2, <1>3, <3>5, <3>6, StillBehind
    <3>8. page[(write_idx - Age(a)) % NPages] \in {a, Garbled, Torn}
      BY <1>1, <3>1, <3>6 DEF RecentRecordsInPlace
    <3> QED
      BY <3>7, <3>8
  <2> QED
    BY <2>2, <2>3
<1> QED
  BY <1>5, <1>6, <1>7, <1>8, <1>9 DEF LogInv

\* Every step of the logger and every loss of power keeps the invariant.
LEMMA LogStep == ASSUME LogInv, [LogNext]_logVars PROVE LogInv'
<1>1. CASE LogNext
  BY <1>1, LogBootInv, WriteBeginInv, EraseStep, ProgramStep, WaitStep, ProgramOkStep,
     PowerLossStep DEF LogNext
<1>2. CASE UNCHANGED logVars
  <2>1. UNCHANGED <<page, busy, write_idx, pc, stamp, acked, programmed, unerased,
                    boots, resumed, since>>
    BY <1>2 DEF logVars, logHistory, logSession
  <2>2. RecentRecordsInPlace'
    BY <2>1, SamePlaces DEF LogInv
  <2> QED
    BY <2>1, <2>2 DEF LogInv, LogTypeOK, StampInv, HandInv, EraseInv, AheadInv
<1> QED
  BY <1>1, <1>2

LEMMA LogInvariant == LogSpec => []LogInv
  BY LogInitInv, LogStep, PTL DEF LogSpec

\* Wherever the log resumes, and however erasures and programs end, the write
\* index stays within the flash and every page has a record or a known damage.
THEOREM LogTypeCorrect == LogSpec => []LogTypeOK
<1>1. LogInv => LogTypeOK
  BY DEF LogInv
<1> QED
  BY <1>1, LogInvariant, PTL

\* For every size of the log: the records of a session that were acknowledged
\* and that the chip has programmed, but for the last sector's worth of the
\* oldest, are where bist_logger_write put them, whatever fails and whatever
\* ESP_OK was returned for.
THEOREM RecentRecordsStay == LogSpec => []RecentRecordsInPlace
<1>1. LogInv => RecentRecordsInPlace
  BY DEF LogInv
<1> QED
  BY <1>1, LogInvariant, PTL

\* However often the power is lost, bist_logger_write overprograms an
\* acknowledged record only in the sector bist_logger_init resumed in, or where
\* the chip ignored the command to erase: every other sector is blank when the
\* index enters it.
THEOREM DamageIsConfined == LogSpec => DamageConfined
<1> DEFINE Confined == \A i \in Pages : page[i] \in acked /\ page'[i] = Garbled
                                          => SectorOf(i) = resumed \/ unerased
<1>1. LogInv /\ [LogNext]_logVars => [Confined]_logVars
  <2> SUFFICES ASSUME LogInv, LogNext,
                      NEW i \in Pages, page[i] \in acked, page'[i] = Garbled
               PROVE  SectorOf(i) = resumed \/ unerased
    OBVIOUS
  <2>1. /\ LogTypeOK /\ AheadInv /\ page'[i] # page[i] /\ write_idx \in Pages
        /\ page' # page
    <3>1. LogTypeOK /\ AheadInv /\ write_idx \in Pages
      BY DEF LogInv, LogTypeOK
    <3>2. page[i] \in Nat
      <4>1. Stamps \subseteq Nat /\ acked \subseteq Stamps
        BY <3>1, LogBounds DEF LogTypeOK, Stamps
      <4> QED
        BY <4>1
    <3> QED
      BY <3>1, <3>2, Damages
  <2>2. pc = "program" /\ i = write_idx
    <3>1. CASE ProgramCommand
      BY <2>1, <3>1 DEF ProgramCommand, ProgramPage, LogTypeOK
    <3>2. CASE EraseCommand
      <4>1. page' = EraseSector
        BY <2>1, <3>2 DEF EraseCommand
      <4>2. page'[i] \in {page[i], Blank}
        BY <4>1 DEF EraseSector
      <4> QED
        BY <2>1, <4>2, Damages
    <3>3. CASE PowerLoss
      <4>1. page'[i] \in {page[i], Torn}
        BY <3>3 DEF PowerLoss
      <4> QED
        BY <2>1, <4>1, Damages
    <3>4. CASE LogBoot \/ WriteBegin \/ EraseReturns \/ ProgramOk \/ ProgramFails \/ ChipDone
      BY <2>1, <3>4 DEF LogBoot, WriteBegin, EraseReturns, ProgramOk, ProgramFails, ChipDone
    <3> QED
      BY <3>1, <3>2, <3>3, <3>4 DEF LogNext
  <2>3. i \in Int
    BY LogBounds
  <2> QED
    BY <2>1, <2>2, <2>3 DEF AheadInv
<1> QED
  BY <1>1, LogInvariant, PTL DEF LogSpec, DamageConfined
=============================================================================
