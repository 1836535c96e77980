---------------------------- MODULE TelegramPoll ----------------------------
(***************************************************************************)
(* How yy2 receives commands (net/telegram_client.c): the task tg_poll     *)
(* asks the Telegram server for updates, finds them in the text of the     *)
(* response and executes those of its own thread.  The response buffer is  *)
(* shared, without a mutex, with every telegram_send, whose reply of the   *)
(* server goes into it too; tg_poll itself sends while it reads the        *)
(* buffer, to answer a command.                                            *)
(*                                                                         *)
(* http_event_handler checks, copies and counts in three steps, and        *)
(* nothing keeps a second task out of it meanwhile.  If response_len is    *)
(* used by another task between the check and the sum, pieces can go       *)
(* behind the end of the buffer, where response_len and the callbacks      *)
(* are: what becomes of the program then is not followed until it          *)
(* restarts, and the properties speak of the time before (~raced).         *)
(*                                                                         *)
(* The buffer is a string.  It is modelled in cells: the update_id of an   *)
(* update, the message that follows it, some other part of a reply, or the *)
(* terminating NUL.  Looking for a key is looking for the first cell, from *)
(* a position to the NUL, that has it: the code does not stop where the    *)
(* update ends.                                                            *)
(***************************************************************************)
EXTENDS Integers, Sequences, FiniteSetsExt

CONSTANTS
  Kinds,         \* the messages people post: records of a thread and a text
  Cap,           \* MAX_RESPONSE_BUF, in cells
  MaxChunk,      \* the longest piece the HTTP client hands over, in cells
  \* Bounds of the instance: updates; sends of other tasks, failed requests and
  \* power losses together; how far the restarts by /reboot are counted
  MaxPosted, MaxEvents, MaxReboots

Threads == {"ours", "other", "none"}
Texts   == {"mute", "unmute", "query", "reboot", "chat", "none"}

\* The buffer has room for an update, its text and the NUL behind them: what
\* does not fit is dropped.
ASSUME TelegramAssumption ==
  /\ Kinds \subseteq [thread : Threads, text : Texts]
  /\ Cap \in Nat /\ 2 < Cap
  /\ MaxChunk \in Nat /\ 0 < MaxChunk /\ 2 * MaxChunk <= Cap
  /\ {MaxPosted, MaxEvents, MaxReboots} \subseteq Nat

VARIABLES
  posted,        \* the updates, in the order of their update_id
  confirmed,     \* the server has forgotten the updates up to this one
  pc,            \* where tg_poll is
  doing,         \* what it sends a message for
  last_update_id,
  muted,
  response_buf, response_len,
  p,             \* where poll_updates looks next
  incoming,      \* what getUpdates has still to hand over, in cells
  sender,        \* who holds send_mutex
  reply,         \* what sendMessage has still to hand over
  busy, copied, piece,  \* who is in http_event_handler, past the check; how far
  raced,         \* response_len has changed under it since the start
  events,        \* counted against MaxEvents
  \* history, read by the properties only
  runs,          \* how often each update has been executed since the start
  everRun,       \* the updates that have ever been executed
  reboots,       \* how often /reboot has restarted the chip
  calm           \* no response held two updates, no other task sent meanwhile

server   == <<posted, confirmed>>
buffer   == <<response_buf, response_len>>
handler  == <<busy, copied, piece>>
history  == <<runs, everRun, reboots>>
vars == <<server, pc, doing, last_update_id, muted, buffer, p, incoming,
          sender, reply, handler, raced, events, history, calm>>

Updates == 1 .. MaxPosted
Id(u)   == <<"id", u>>
Msg(u)  == <<"msg", u>>
Junk    == <<"junk", 0>>
Nul     == <<"nul", 0>>

\* The server's reply to sendMessage repeats the message that was sent.  Of the
\* answers to commands two have a keyword in them: the one to /help, in which
\* /mute is looked for first, and the test alarm, which says "test alarm".
Plain == 0
Help  == MaxPosted + 1
Test  == MaxPosted + 2
Message(u) ==
  CASE u = Plain -> [thread |-> "ours", text |-> "chat"]
    [] u = Help  -> [thread |-> "ours", text |-> "mute"]
    [] u = Test  -> [thread |-> "ours", text |-> "query"]
    [] OTHER     -> posted[u]

Cells == {Id(u) : u \in Updates} \cup {Msg(u) : u \in 0 .. Test} \cup {Junk, Nul}

Init ==
  /\ posted = <<>> /\ confirmed = 0
  /\ pc = "rest" /\ doing = "none"
  /\ last_update_id = 0 /\ muted = FALSE
  /\ response_buf = [i \in 1 .. Cap |-> Nul] /\ response_len = 0 /\ p = 1
  /\ incoming = <<>> /\ sender = "nobody" /\ reply = <<>>
  /\ busy = "nobody" /\ copied = FALSE /\ piece = <<>> /\ raced = FALSE
  /\ events = 0
  /\ runs = [u \in Updates |-> 0]
  /\ everRun = {} /\ reboots = 0 /\ calm = TRUE

-----------------------------------------------------------------------------
(* http_event_handler *)

\* Mutant: a piece that leaves no room for the NUL is stored.
FitsExactly(n) == response_len + n <= Cap

Fits(n) == response_len + n < Cap

\* The HTTP client hands over the next n cells of what is to come, and there is
\* room for them or they are dropped.
HandOver(task, cells, rest) ==
  \E n \in 1 .. Min({MaxChunk, Len(cells)}) :
    /\ rest = SubSeq(cells, n + 1, Len(cells))
    /\ IF Fits(n) /\ busy = "nobody"
       THEN busy' = task /\ piece' = SubSeq(cells, 1, n) /\ UNCHANGED copied
       ELSE UNCHANGED handler
    /\ raced' = (Fits(n) /\ busy # "nobody")

\* memcpy
CopyPiece ==
  /\ busy # "nobody" /\ ~copied
  /\ copied' = TRUE
  /\ response_buf' =
       [i \in 1 .. Cap |->
          IF i \in response_len + 1 .. response_len + Len(piece)
          THEN piece[i - response_len] ELSE response_buf[i]]
  /\ UNCHANGED <<server, pc, doing, last_update_id, muted, response_len, p,
                 incoming, sender, reply, busy, piece, raced, events, history,
                 calm>>

AddLength ==
  /\ copied
  /\ response_len' = response_len + Len(piece)
  /\ busy' = "nobody" /\ copied' = FALSE /\ piece' = <<>>
  /\ UNCHANGED <<server, pc, doing, last_update_id, muted, response_buf, p,
                 incoming, sender, reply, raced, events, history, calm>>

\* response_len = 0, at the start of a request.
ClearLength ==
  /\ response_len' = 0
  /\ raced' = (busy # "nobody")

-----------------------------------------------------------------------------
(* telegram_send, by tg_poll or by any other task *)

\* As long as the longest; SendEnds may cut it.
Reply(said) == <<Junk, Msg(said), Junk>>

\* Mutant: the reply is appended to what the buffer holds.
BeginKeeping(t, said) ==
  /\ sender = "nobody"
  /\ sender' = t
  /\ reply' = Reply(said)
  /\ UNCHANGED <<server, buffer, doing, last_update_id, muted, p, incoming,
                 handler, raced, history>>

Begin(t, said) ==
  /\ sender = "nobody"
  /\ sender' = t
  /\ ClearLength
  /\ reply' = Reply(said)
  /\ UNCHANGED <<server, response_buf, doing, last_update_id, muted, p, incoming,
                 handler, history>>

SendOwn ==
  /\ pc = "ask"
  /\ \E said \in IF doing = "query" THEN {Plain, Help, Test} ELSE {Plain} :
       Begin("tg_poll", said)
  /\ pc' = "sending"
  /\ UNCHANGED <<events, calm>>

SendOther ==
  /\ events < MaxEvents
  /\ Begin("other", Plain)
  /\ events' = events + 1
  /\ calm' = (calm /\ pc = "rest")
  /\ UNCHANGED pc

SendData ==
  /\ sender # "nobody" /\ reply # <<>> /\ busy # "send"
  /\ HandOver("send", reply, reply')
  /\ UNCHANGED <<server, pc, doing, last_update_id, muted, buffer, p, incoming,
                 sender, events, history, calm>>

\* The request is over: the reply was short, or the request failed.
SendEnds ==
  /\ sender # "nobody" /\ busy # "send"
  /\ sender' = "nobody"
  /\ reply' = <<>>
  /\ IF sender = "tg_poll"
     THEN /\ pc' = CASE doing = "reboot"  -> "restart"
                     [] doing = "morning" -> "rest"
                     [] OTHER             -> "parse"
          /\ doing' = "none"
     ELSE UNCHANGED <<pc, doing>>
  /\ UNCHANGED <<server, last_update_id, muted, buffer, p, incoming, handler,
                 raced, events, history, calm>>

-----------------------------------------------------------------------------
(* telegram_poll_task and poll_updates *)

\* poll_updates has returned: the task looks whether the mute ends this morning.
PollReturns ==
  \/ /\ pc' = "rest"
     /\ UNCHANGED <<doing, muted>>
  \/ /\ muted
     /\ muted' = FALSE
     /\ pc' = "ask"
     /\ doing' = "morning"

\* Not on 5G.
Skip ==
  /\ pc = "rest"
  /\ PollReturns
  /\ UNCHANGED <<server, last_update_id, buffer, p, incoming, sender, reply,
                 handler, raced, events, history, calm>>

\* Mutant: the offset asks for the last update again.
OffsetOfLast == last_update_id

\* Mutant: the offset leaves one update out.
OffsetTooFar == last_update_id + 2

Offset == last_update_id + 1

\* The server's answer to getUpdates after it has forgotten those up to c.
Answer(c) ==
  IF c = Len(posted) THEN <<Junk>>
  ELSE [i \in 1 .. 2 * (Len(posted) - c) |->
          LET u == c + (i + 1) \div 2 IN IF i % 2 = 1 THEN Id(u) ELSE Msg(u)]

StartPoll ==
  /\ pc = "rest"
  /\ pc' = "polling"
  /\ ClearLength
  /\ confirmed' = Min({Len(posted), Max({confirmed, Offset - 1})})
  /\ incoming' = Answer(confirmed')
  /\ calm' = (calm /\ sender = "nobody" /\ Len(posted) - confirmed' <= 1)
  /\ UNCHANGED <<posted, doing, last_update_id, muted, response_buf, p, sender,
                 reply, handler, events, history>>

\* The server has not heard of the request.
RequestLost ==
  /\ pc = "rest" /\ events < MaxEvents
  /\ events' = events + 1
  /\ ClearLength
  /\ calm' = (calm /\ ~raced')
  /\ PollReturns
  /\ UNCHANGED <<server, last_update_id, response_buf, p, incoming, sender,
                 reply, handler, history>>

PollData ==
  /\ pc = "polling" /\ incoming # <<>> /\ busy # "poll"
  /\ HandOver("poll", incoming, incoming')
  /\ UNCHANGED <<server, pc, doing, last_update_id, muted, buffer, p, sender,
                 reply, events, history, calm>>

\* The connection fails while the response comes in.
PollFails ==
  /\ pc = "polling" /\ busy # "poll" /\ events < MaxEvents
  /\ events' = events + 1
  /\ incoming' = <<>>
  /\ PollReturns
  /\ UNCHANGED <<server, last_update_id, buffer, p, sender, reply, handler,
                 raced, history, calm>>

\* Something has come, or nothing.  The success is counted under the mutex of
\* scout_health before the NUL is written.
PollEnds ==
  /\ pc = "polling" /\ incoming = <<>> /\ busy # "poll"
  /\ IF response_len = 0 THEN PollReturns
                         ELSE pc' = "received" /\ UNCHANGED <<doing, muted>>
  /\ UNCHANGED <<server, last_update_id, buffer, p, incoming, sender, reply,
                 handler, raced, events, history, calm>>

Terminate ==
  /\ pc = "received"
  /\ response_buf' = [response_buf EXCEPT ![response_len + 1] = Nul]
  /\ p' = 1
  /\ pc' = "parse"
  /\ UNCHANGED <<server, doing, last_update_id, muted, response_len, incoming,
                 sender, reply, handler, raced, events, history, calm>>

\* The part of the string from position i that strstr sees.
Visible(i) == {j \in i .. Cap : \A k \in i .. j : response_buf[k] # Nul}
Ids(i)     == {j \in Visible(i) : response_buf[j][1] = "id"}
Msgs(i)    == {j \in Visible(i) : response_buf[j][1] = "msg"}
At(j)      == Message(response_buf[j][2])

\* json_get_string for message_thread_id and for text: where they are found.
ThreadsFrom(i) == {j \in Msgs(i) : At(j).thread # "none"}
TextsFrom(i)   == {j \in Msgs(i) : At(j).text # "none"}

Count(u) ==
  IF u \in Updates
  THEN /\ runs' = [runs EXCEPT ![u] = Min({2, @ + 1})]
       /\ everRun' = everRun \cup {u}
  ELSE UNCHANGED <<runs, everRun>>

\* process_command.  What has no keyword in it is not answered.
Execute(u) ==
  LET text == Message(u).text IN
  /\ muted' = CASE text = "mute" -> TRUE [] text = "unmute" -> FALSE [] OTHER -> muted
  /\ IF text = "chat" THEN pc' = "parse" /\ UNCHANGED doing
                      ELSE pc' = "ask" /\ doing' = text
  /\ Count(u)

\* strstr for the next update, then a search of its own for each key, from
\* there; other tasks may write in between.
FindUpdate ==
  /\ pc = "parse" /\ Ids(p) # {}
  /\ p' = Min(Ids(p))
  /\ pc' = "update"
  /\ UNCHANGED <<server, doing, last_update_id, muted, buffer, incoming, sender,
                 reply, handler, raced, events, history, calm>>

ReadId ==
  /\ pc = "update"
  /\ last_update_id' =
       IF Ids(p) = {} THEN last_update_id
       ELSE Max({last_update_id, response_buf[Min(Ids(p))][2]})
  /\ pc' = "thread"
  /\ UNCHANGED <<server, doing, muted, buffer, p, incoming, sender, reply,
                 handler, raced, events, history, calm>>

OurThread == ThreadsFrom(p) # {} /\ At(Min(ThreadsFrom(p))).thread = "ours"

ReadThread ==
  /\ pc = "thread"
  /\ IF OurThread THEN pc' = "text" /\ UNCHANGED p
                  ELSE pc' = "parse" /\ p' = p + 1
  /\ UNCHANGED <<server, doing, last_update_id, muted, buffer, incoming, sender,
                 reply, handler, raced, events, history, calm>>

ReadText ==
  /\ pc = "text"
  /\ IF TextsFrom(p) # {} THEN Execute(response_buf[Min(TextsFrom(p))][2])
                          ELSE pc' = "parse" /\ UNCHANGED <<doing, muted, runs, everRun>>
  /\ p' = p + 1
  /\ UNCHANGED <<server, last_update_id, buffer, incoming, sender, reply, handler,
                 raced, events, reboots, calm>>

ParseEnds ==
  /\ pc = "parse" /\ Ids(p) = {}
  /\ PollReturns
  /\ UNCHANGED <<server, last_update_id, buffer, p, incoming, sender, reply,
                 handler, raced, events, history, calm>>

-----------------------------------------------------------------------------
(* Restarts, and the people who post *)

\* esp_restart, or the power comes back: telegram_client_init.
Restart ==
  /\ pc' = "rest" /\ doing' = "none"
  /\ last_update_id' = 0 /\ muted' = FALSE
  /\ response_buf' = [i \in 1 .. Cap |-> Nul] /\ response_len' = 0 /\ p' = 1
  /\ incoming' = <<>> /\ sender' = "nobody" /\ reply' = <<>>
  /\ busy' = "nobody" /\ copied' = FALSE /\ piece' = <<>> /\ raced' = FALSE
  /\ runs' = [u \in Updates |-> 0]
  /\ UNCHANGED <<posted, everRun, calm>>

Reboot ==
  /\ pc = "restart"
  /\ Restart
  /\ reboots' = Min({MaxReboots, reboots + 1})
  /\ UNCHANGED <<confirmed, events>>

PowerLoss ==
  /\ events < MaxEvents
  /\ events' = events + 1
  /\ Restart
  /\ UNCHANGED <<confirmed, reboots>>

\* A panic, the watchdog or the power ends it; until then updates may have been
\* confirmed.
RaceEnds ==
  /\ raced
  /\ Restart
  /\ confirmed' \in confirmed .. Len(posted)
  /\ UNCHANGED <<events, reboots>>

Post ==
  /\ Len(posted) < MaxPosted
  /\ \E m \in Kinds : posted' = Append(posted, m)
  /\ UNCHANGED <<confirmed, pc, doing, last_update_id, muted, buffer, p,
                 incoming, sender, reply, handler, raced, events, history, calm>>

Handler == ~raced /\ (CopyPiece \/ AddLength)
Parser  == FindUpdate \/ ReadId \/ ReadThread \/ ReadText \/ ParseEnds
Poller  == ~raced /\ (StartPoll \/ PollData \/ PollEnds \/ Terminate \/ Parser \/ Reboot)
Sending == ~raced /\ (SendOwn \/ SendData \/ SendEnds)
Others  == ~raced /\ (Skip \/ RequestLost \/ PollFails \/ SendOther \/ PowerLoss)

Next == Handler \/ Poller \/ Sending \/ Others \/ RaceEnds \/ Post

Spec == Init /\ [][Next]_vars

\* The 5G window comes again and again (DualBand), and a request ends.
FairSpec == Spec /\ WF_vars(Handler) /\ WF_vars(Poller) /\ WF_vars(Sending)
-----------------------------------------------------------------------------
(* Properties *)

Asked(text) == \E u \in 1 .. Len(posted) : posted[u].text = text
Command(u) == posted[u].thread = "ours" /\ posted[u].text \notin {"chat", "none"}

Places    == {"rest", "polling", "received", "parse", "update", "thread", "text",
              "ask", "sending", "restart"}
Occasions == Texts \cup {"morning"}

\* Every variable has a value the code can give it; in particular, until another
\* task changes response_len under http_event_handler, there is always room for
\* the NUL poll_updates writes behind what was received.
TypeOK ==
  /\ posted \in Seq(Kinds) /\ Len(posted) <= MaxPosted
  /\ confirmed \in 0 .. MaxPosted
  /\ pc \in Places /\ doing \in Occasions
  /\ last_update_id \in 0 .. MaxPosted
  /\ muted \in BOOLEAN
  /\ response_buf \in [1 .. Cap -> Cells] /\ response_len \in 0 .. Cap - 1
  /\ p \in 1 .. Cap
  /\ incoming \in Seq(Cells) /\ reply \in Seq(Cells)
  /\ sender \in {"nobody", "tg_poll", "other"}
  /\ busy \in {"nobody", "poll", "send"} /\ copied \in BOOLEAN
  /\ piece \in Seq(Cells) /\ raced \in BOOLEAN
  /\ events \in 0 .. MaxEvents
  /\ runs \in [Updates -> 0 .. 2] /\ everRun \subseteq Updates
  /\ reboots \in 0 .. MaxReboots /\ calm \in BOOLEAN

\* The buffer is a string also while two requests of two tasks fill it in turns
\* and poll_updates reads it, and no strstr runs past its end, unless two of
\* them were in http_event_handler at once.
Terminated == ~raced => Visible(p) # p .. Cap

\* While one update comes at a time and no other task sends meanwhile, the
\* server forgets no command that has not been executed, whatever requests
\* fail and whenever the power does.
NoCommandLost ==
  calm => \A u \in 1 .. confirmed : Command(u) => u \in everRun

\* Under the same condition the poller executes a command at most once until
\* it restarts, whatever stale text the answers it sends leave in the buffer.
ExecutedOnce == calm => \A u \in Updates : runs[u] <= 1

\* Alarms are muted, commands answered and the chip restarted only if somebody
\* asked for it: the poller never takes its own answers for commands, although
\* they go into the buffer it reads and two of them would be commands, and
\* although other tasks write into it between two of its searches.  Not so if
\* two tasks were in http_event_handler at once.
ActsOnRequest ==
  ~raced =>
  /\ muted => Asked("mute")
  /\ pc \in {"ask", "sending"} /\ doing # "morning" => Asked(doing)
  /\ pc = "restart" => Asked("reboot")

\* The poller catches up: unless somebody asks for a restart, there is always
\* a later time when the server has forgotten every update, so that later ones
\* are delivered.  A race in http_event_handler may be the end of it.
UpdatesAreConfirmed ==
  []<>(\/ confirmed = Len(posted)
       \/ raced
       \/ Asked("reboot"))

\* Violated.  A restart for each /reboot, which is to restart the scout
\* (net/telegram_client.c, the help text): the update has not been confirmed
\* when the chip restarts, and is delivered again after it.
RebootsOnce ==
  reboots <= Cardinality({u \in 1 .. Len(posted) : posted[u].text = "reboot"})
=============================================================================
