--------------------------- MODULE TelegramProofs ---------------------------
(***************************************************************************)
(* Proofs about TelegramPoll, for any buffer, any pieces the HTTP client   *)
(* hands over, and any number of updates.                                  *)
(*                                                                         *)
(* That the poller ignores its own answers rests on where an answer can    *)
(* be: its text is always in the second cell, so the only update that      *)
(* could take it for its own text is one in the first.  Such a buffer      *)
(* exists (a poll that has received one cell over an old answer), but it   *)
(* is never the buffer that is parsed.                                     *)
(*                                                                         *)
(* That no command is lost or run twice is shown of the runs in which      *)
(* updates come one at a time and no other task sends meanwhile: then      *)
(* poll_updates parses at most one update, the one it has not seen, and    *)
(* what earlier responses and answers have left behind holds none.         *)
(*                                                                         *)
(* Like the properties, all of this is about the time until response_len   *)
(* changes under http_event_handler: no step but a restart follows then.   *)
(***************************************************************************)
EXTENDS TelegramPoll, TLAPS, SequenceTheorems, FiniteSetTheorems

-----------------------------------------------------------------------------
(* The inductive invariant *)

\* What can come from the server; in the reply to another task, or to an answer
\* without a keyword; in the reply to an answer with one; and be in the buffer.
FromServer == {Id(u) : u \in 1 .. Len(posted)}
                \cup {Msg(u) : u \in 1 .. Len(posted)} \cup {Junk}
FromSend   == {Msg(Plain), Junk}
Keyed      == {Msg(Help), Msg(Test)}
Held       == FromServer \cup FromSend \cup Keyed \cup {Nul}

\* The last cell is the NUL the buffer was cleared with: nothing reaches it.
BufferInv == /\ response_buf \in [1 .. Cap -> Held]
             /\ response_buf[Cap] = Nul
             /\ incoming \in Seq(FromServer)

\* What is in http_event_handler fits, and is for a request that goes on.
HandlerInv ==
  /\ busy = "nobody" => ~copied /\ piece = <<>>
  /\ busy # "nobody" => Len(piece) >= 1 /\ response_len + Len(piece) < Cap
  /\ busy = "poll" => pc = "polling" /\ piece \in Seq(FromServer)
  /\ busy = "send" => sender # "nobody"
  /\ busy = "send" /\ sender = "other" => piece \in Seq(FromSend)

\* The poller alone is in telegram_send, and its answer starts the buffer.
Awaited == Len(piece) + Len(reply)
OwnReplyInv ==
  /\ piece \in Seq(FromSend \cup Keyed) /\ reply \in Seq(FromSend \cup Keyed)
  /\ Awaited <= 3
  /\ \A i \in 1 .. Len(piece) : piece[i] \in Keyed => Awaited - i = 1
  /\ \A i \in 1 .. Len(reply) : reply[i] \in Keyed => Len(reply) - i = 1
  /\ Awaited = 3 => response_len = 0
  /\ Awaited = 3 /\ piece # <<>> => piece[1] = Junk
  /\ Awaited = 3 /\ piece = <<>> => reply[1] = Junk
  /\ Awaited = 2 => response_len = 1
  /\ Awaited < 3 => response_len >= 1
  /\ Awaited < 3 \/ copied => response_buf[1] = Junk

SendInv == /\ pc = "sending" <=> sender = "tg_poll"
           /\ sender = "tg_poll" => OwnReplyInv
           /\ sender = "other"  => reply \in Seq(FromSend)

\* An update in the first cell would take the answer in the second for its text.
Deceptive == response_buf[1][1] = "id" /\ response_buf[2] \in Keyed

\* How far the response goes, with the piece that has been copied.
Reach == IF copied THEN response_len + Len(piece) ELSE response_len

\* An update has been found, and is being read.
Found == pc \in {"update", "thread", "text"}

\* A deceptive buffer is not parsed, and will not be.  Behind an update that has
\* been found there is no answer with a keyword.
KeyedInv ==
  /\ \A j \in 1 .. Cap : response_buf[j] \in Keyed => j = 2
  /\ Deceptive /\ ~raced => \/ pc = "rest"
                            \/ pc \in {"ask", "sending"} /\ doing = "morning"
                            \/ pc \in {"polling", "received"} /\ Reach <= 1
  /\ Found => p < Cap /\ (p <= 2 => response_buf[2] \notin Keyed)

\* ActsOnRequest, which holds up to the race as well.
AskedInv ==
  /\ muted => Asked("mute")
  /\ pc \in {"ask", "sending"} /\ doing # "morning" => Asked(doing)
  /\ pc = "restart" => Asked("reboot")

IInv == TypeOK /\ BufferInv /\ HandlerInv /\ SendInv /\ KeyedInv /\ AskedInv

\* While calm holds. The server forgets what has been seen; what has been seen
\* and is a command has been executed, and what has not been seen has not.  The
\* update that is being parsed is not seen before its text is.
Seen == IF pc \in {"thread", "text"} THEN last_update_id - 1 ELSE last_update_id
RecordInv ==
  /\ confirmed <= Len(posted) /\ last_update_id <= Len(posted)
  /\ \A u \in 1 .. Len(posted) :
       (u <= confirmed \/ u <= Seen) /\ Command(u) => u \in everRun
  /\ \A u \in Updates : runs[u] <= 1 /\ (u > Seen => runs[u] = 0)

\* Nobody else writes into the buffer that is filled or parsed, and an answer
\* does not go beyond the third cell.
Reading == {"polling", "received", "parse", "update", "thread", "text"}
AloneInv ==
  /\ ~raced
  /\ pc \in Reading => sender = "nobody"
  /\ pc \in {"ask", "sending"} /\ doing # "morning" => sender # "other" /\ p >= 2
  /\ sender # "nobody" => response_len + Awaited <= 3
  /\ copied => \A i \in 1 .. Len(piece) : response_buf[response_len + i] = piece[i]

\* So no stale update is left behind what poll_updates has just read.
StaleInv ==
  \A j \in 1 .. Cap : /\ j >= 2 => response_buf[j][1] # "id"
                      /\ j >= 4 => response_buf[j] = Nul

\* The only update that can come, and the response as it is received.
Fresh == confirmed + 1
Total == response_len + Len(piece) + Len(incoming)
Content(j) ==
  IF j <= response_len THEN response_buf[j]
  ELSE IF j <= response_len + Len(piece) THEN piece[j - response_len]
  ELSE incoming[j - response_len - Len(piece)]

ArrivalInv ==
  /\ pc \in {"polling", "received"} =>
       /\ last_update_id <= confirmed
       /\ \/ Total = 1 /\ Content(1) = Junk
          \/ /\ Total = 2 /\ confirmed < Len(posted)
             /\ Content(1) = Id(Fresh) /\ Content(2) = Msg(Fresh)
  /\ pc = "received" => incoming = <<>>

\* It is parsed whole, once, and with nothing behind it.
FreshHeld ==
  /\ confirmed < Len(posted)
  /\ response_buf[1] = Id(Fresh) /\ response_buf[2] = Msg(Fresh)
  /\ response_buf[3] = Nul
ParsedInv ==
  /\ pc = "parse" /\ p = 1 =>
       last_update_id <= confirmed /\ (response_buf[1][1] # "id" \/ FreshHeld)
  /\ Found => p = 1 /\ FreshHeld
  /\ pc = "update" => last_update_id <= confirmed
  /\ pc \in {"thread", "text"} => last_update_id = Fresh

CalmInv == calm => RecordInv /\ AloneInv /\ StaleInv /\ ArrivalInv /\ ParsedInv

-----------------------------------------------------------------------------
(* Facts about the constants, Min and Max, and the pieces handed over *)

\* A piece fits the empty buffer, and there are two cells at least.
LEMMA Bounds == /\ Cap \in Nat /\ Cap > 2
                /\ MaxChunk \in Nat /\ 0 < MaxChunk /\ MaxChunk < Cap
                /\ MaxPosted \in Nat /\ MaxEvents \in Nat /\ MaxReboots \in Nat
  BY TelegramAssumption DEF TelegramAssumption

\* A set of natural numbers that is not empty has a smallest member.
LEMMA MinIn == ASSUME NEW S, S \subseteq Nat, S # {}
               PROVE  Min(S) \in S /\ \A y \in S : Min(S) <= y
<1> DEFINE Below == {0 .. y : y \in S}
           R     == StrictSubsetOrdering(Nat)
<1>1. Below \subseteq FiniteSubsetsOf(Nat) /\ Below # {}
  <2>1. ASSUME NEW y \in S PROVE 0 .. y \subseteq Nat /\ IsFiniteSet(0 .. y)
    BY FS_Interval
  <2> QED
    BY <2>1 DEF FiniteSubsetsOf
<1>2. PICK B \in Below : \A C \in Below : ~ (<<C, B>> \in R)
  <2>1. IsWellFoundedOn(R, FiniteSubsetsOf(Nat))
    BY FS_StrictSubsetOrderingWellFounded
  <2> HIDE DEF R, Below
  <2> QED
    BY <1>1, <2>1, WFMin
<1>3. PICK x \in S : B = 0 .. x
  OBVIOUS
<1>4. ASSUME NEW y \in S PROVE x <= y
  <2>1. CASE y < x
    <3>1. 0 .. y \subseteq 0 .. x /\ 0 .. y # 0 .. x
      BY <2>1
    <3>2. <<0 .. y, 0 .. x>> \in R
      BY <3>1 DEF StrictSubsetOrdering
    <3> QED
      BY <1>2, <1>3, <3>2
  <2> QED
    BY <2>1
<1> QED
  BY <1>4 DEF Min

\* Max of a pair is the larger number, and so one of them.
LEMMA MaxIs == ASSUME NEW a \in Int, NEW b \in Int
               PROVE  Max({a, b}) = IF a >= b THEN a ELSE b
<1>1. \E x \in {a, b} : \A y \in {a, b} : x >= y
  <2>1. CASE a >= b BY <2>1
  <2>2. CASE b >= a BY <2>2
  <2> QED BY <2>1, <2>2
<1>2. Max({a, b}) \in {a, b} /\ \A y \in {a, b} : Max({a, b}) >= y
  BY <1>1 DEF Max
<1> QED
  BY <1>2

LEMMA MaxPair == ASSUME NEW a \in Int, NEW b \in Int
                 PROVE  Max({a, b}) \in {a, b}
  BY MaxIs

\* What the HTTP client hands over is the beginning of what is to come.
LEMMA Pieces == ASSUME NEW S, NEW cells \in Seq(S),
                       NEW n \in 1 .. Min({MaxChunk, Len(cells)})
                PROVE  /\ n <= MaxChunk /\ n <= Len(cells)
                       /\ SubSeq(cells, 1, n) \in Seq(S)
                       /\ Len(SubSeq(cells, 1, n)) = n
                       /\ \A i \in 1 .. n : SubSeq(cells, 1, n)[i] = cells[i]
                       /\ SubSeq(cells, n + 1, Len(cells)) \in Seq(S)
                       /\ Len(SubSeq(cells, n + 1, Len(cells))) = Len(cells) - n
                       /\ \A i \in 1 .. Len(cells) - n :
                            SubSeq(cells, n + 1, Len(cells))[i] = cells[i + n]
<1>1. Len(cells) \in Nat
  OBVIOUS
<1>2. /\ Min({MaxChunk, Len(cells)}) <= MaxChunk
      /\ Min({MaxChunk, Len(cells)}) <= Len(cells)
      /\ Min({MaxChunk, Len(cells)}) \in Nat
  <2>1. {MaxChunk, Len(cells)} \subseteq Nat /\ {MaxChunk, Len(cells)} # {}
    BY <1>1, Bounds
  <2> QED
    BY <2>1, MinIn, Zenon
<1>3. n \in Nat /\ n >= 1 /\ n <= MaxChunk /\ n <= Len(cells)
  BY <1>1, <1>2, Bounds
<1>4. \A i \in 1 .. Len(cells) : cells[i] \in S
  OBVIOUS
<1>5. /\ SubSeq(cells, 1, n) \in Seq(S)
      /\ Len(SubSeq(cells, 1, n)) = n
      /\ \A i \in 1 .. n : SubSeq(cells, 1, n)[i] = cells[i]
  <2>1. \A i \in 1 .. n : cells[i] \in S
    BY <1>3, <1>4
  <2> QED
    BY <1>3, <2>1, SubSeqProperties
<1>6. /\ SubSeq(cells, n + 1, Len(cells)) \in Seq(S)
      /\ Len(SubSeq(cells, n + 1, Len(cells))) = Len(cells) - n
      /\ \A i \in 1 .. Len(cells) - n :
           SubSeq(cells, n + 1, Len(cells))[i] = cells[i + n]
  <2>1. \A i \in n + 1 .. Len(cells) : cells[i] \in S
    BY <1>3, <1>4
  <2> DEFINE rest == SubSeq(cells, n + 1, Len(cells))
  <2>2. /\ rest \in Seq(S)
        /\ Len(rest) = IF n + 1 <= Len(cells) THEN Len(cells) - (n + 1) + 1 ELSE 0
        /\ \A i \in 1 .. Len(cells) - (n + 1) + 1 : rest[i] = cells[(n + 1) + i - 1]
    BY <1>1, <1>3, <2>1, SubSeqProperties
  <2> QED
    BY <1>1, <1>3, <2>2
<1> QED
  BY <1>3, <1>5, <1>6

\* memcpy stores the piece behind what has come, and does not reach the last cell.
LEMMA CopyFacts ==
  ASSUME NEW T, response_buf \in [1 .. Cap -> T], piece \in Seq(T), CopyPiece,
         response_len \in 0 .. Cap - 1, response_len + Len(piece) < Cap
  PROVE  /\ response_buf' \in [1 .. Cap -> T]
         /\ response_buf'[Cap] = response_buf[Cap]
         /\ \A j \in 1 .. Cap :
              \/ /\ j - response_len \in 1 .. Len(piece)
                 /\ response_buf'[j] = piece[j - response_len]
              \/ /\ j - response_len \notin 1 .. Len(piece)
                 /\ response_buf'[j] = response_buf[j]
<1> DEFINE new == [i \in 1 .. Cap |->
                     IF i \in response_len + 1 .. response_len + Len(piece)
                     THEN piece[i - response_len] ELSE response_buf[i]]
<1>1. Len(piece) \in Nat /\ \A i \in 1 .. Len(piece) : piece[i] \in T
  OBVIOUS
<1>2. response_buf' = new /\ response_len \in Nat /\ Cap \in Nat /\ Cap > 2
  BY Bounds DEF CopyPiece
<1>3. ASSUME NEW j \in 1 .. Cap
      PROVE  \/ /\ j - response_len \in 1 .. Len(piece)
                /\ new[j] = piece[j - response_len]
             \/ /\ j - response_len \notin 1 .. Len(piece)
                /\ new[j] = response_buf[j]
  <2>1. j \in response_len + 1 .. response_len + Len(piece)
          <=> j - response_len \in 1 .. Len(piece)
    BY <1>1, <1>2
  <2> QED
    BY <2>1
<1>4. ASSUME NEW j \in 1 .. Cap PROVE new[j] \in T
  BY <1>1, <1>3
<1>5. new \in [1 .. Cap -> T]
  BY <1>4
<1>6. new[Cap] = response_buf[Cap]
  <2>1. Cap \in 1 .. Cap /\ Cap - response_len \notin 1 .. Len(piece)
    BY <1>1, <1>2
  <2> QED
    BY <1>3, <2>1
<1> HIDE DEF new
<1> QED
  BY <1>2, <1>3, <1>5, <1>6

-----------------------------------------------------------------------------
(* Facts about cells *)

\* Everything the buffer may hold is a cell.
LEMMA CellFacts == ASSUME posted \in Seq(Kinds), Len(posted) <= MaxPosted
                   PROVE  /\ FromServer \subseteq Held /\ FromSend \subseteq Held
                          /\ Held \subseteq Cells /\ Nul \in Held /\ Junk \in FromSend
                          /\ Keyed \cap FromServer = {} /\ Keyed \cap FromSend = {}
                          /\ Junk \in FromServer
<1>1. Len(posted) \in Nat /\ MaxPosted \in Nat /\ Help = MaxPosted + 1
      /\ Test = MaxPosted + 2 /\ Plain = 0
  BY Bounds DEF Help, Test, Plain
<1>2. 1 .. Len(posted) \subseteq Updates /\ Updates \subseteq 0 .. Test
  BY <1>1 DEF Updates
<1>3. /\ FromServer \subseteq Held /\ FromSend \subseteq Held
      /\ Nul \in Held /\ Junk \in FromSend /\ Junk \in FromServer
  BY DEF Held, FromServer, FromSend
<1>4. Held \subseteq Cells
  BY <1>1, <1>2 DEF Held, FromServer, FromSend, Keyed, Cells
<1>5. Keyed \cap FromServer = {} /\ Keyed \cap FromSend = {}
  BY <1>1 DEF FromServer, FromSend, Keyed, Msg, Id, Junk
<1> QED
  BY <1>3, <1>4, <1>5

\* What may be held depends on what has been posted only.
LEMMA SetsKept == ASSUME posted' = posted
                  PROVE  FromServer' = FromServer /\ Held' = Held
  BY DEF FromServer, Held

\* A sequence over a set is one over any larger set.
LEMMA SeqMonotone == ASSUME NEW S, NEW T, S \subseteq T, NEW s \in Seq(S)
                     PROVE  s \in Seq(T)
<1>1. Len(s) \in Nat /\ s \in [1 .. Len(s) -> S]
  OBVIOUS
<1>2. s \in [1 .. Len(s) -> T]
  BY <1>1
<1> QED
  BY <1>1, <1>2

-----------------------------------------------------------------------------
(* The initial state *)

\* The program starts within the invariant.
LEMMA InitInv == ASSUME Init PROVE IInv
<1>1. posted \in Seq(Kinds) /\ Len(posted) = 0
  BY DEF Init
<1>2. Nul \in Held /\ Held \subseteq Cells
  BY <1>1, Bounds, CellFacts
<1>3. response_buf \in [1 .. Cap -> Held] /\ response_buf \in [1 .. Cap -> Cells]
  BY <1>2 DEF Init
<1>4. TypeOK
  <2>1. runs \in [Updates -> 0 .. 2] /\ everRun \subseteq Updates /\ reboots \in 0 .. MaxReboots
        /\ calm \in BOOLEAN
    BY Bounds DEF Init
  <2>2. pc \in Places /\ doing \in Occasions
    BY Zenon DEF Init, Places, Occasions, Texts
  <2>3. confirmed \in 0 .. MaxPosted /\ last_update_id \in 0 .. MaxPosted
    BY Bounds DEF Init
  <2>4. response_len \in 0 .. Cap - 1 /\ p \in 1 .. Cap /\ events \in 0 .. MaxEvents
    BY Bounds DEF Init
  <2>5. /\ incoming \in Seq(Cells) /\ reply \in Seq(Cells)
        /\ sender \in {"nobody", "tg_poll", "other"}
    BY DEF Init
  <2>6. /\ muted \in BOOLEAN /\ copied \in BOOLEAN /\ raced \in BOOLEAN
        /\ busy \in {"nobody", "poll", "send"}
    BY Zenon DEF Init
  <2>7. piece \in Seq(Cells)
    BY DEF Init
  <2> QED
    BY <1>1, <1>3, <2>1, <2>2, <2>3, <2>4, <2>5, <2>6, <2>7, Bounds DEF TypeOK
<1>5. BufferInv
  BY <1>3, Bounds DEF Init, BufferInv
<1>6. SendInv /\ HandlerInv
  BY DEF Init, SendInv, HandlerInv
<1>7. KeyedInv
  BY Bounds DEF Init, KeyedInv, Deceptive, Keyed, Nul, Msg, Found
<1>8. AskedInv
  BY DEF Init, AskedInv, Asked
<1> QED
  BY <1>4, <1>5, <1>6, <1>7, <1>8 DEF IInv

-----------------------------------------------------------------------------
(* poll_updates returns *)

\* The names of places and occasions a step of the poller leads to.
LEMMA Names == /\ \A x \in {"rest", "polling", "received", "parse", "update", "thread",
                             "text", "ask", "sending", "restart"} : x \in Places
               /\ "morning" \in Occasions /\ "none" \in Occasions
               /\ Texts \subseteq Occasions
  BY Zenon DEF Places, Occasions, Texts

\* poll_updates returns from wherever it is, with the buffer as it is.
LEMMA ReturnInv ==
  ASSUME IInv, PollReturns, pc \in {"rest", "polling", "parse"},
         pc = "polling" => busy # "poll",
         posted' = posted, confirmed' = confirmed, last_update_id' = last_update_id,
         response_buf' = response_buf, response_len' \in {response_len, 0}, p' = p,
         incoming' \in Seq(FromServer), sender' = sender, reply' = reply,
         busy' = busy, copied' = copied, piece' = piece, raced' \in BOOLEAN,
         events' \in 0 .. MaxEvents,
         runs' = runs, everRun' = everRun, reboots' = reboots, calm' \in BOOLEAN
  PROVE  IInv'
<1>1. TypeOK /\ BufferInv /\ HandlerInv /\ SendInv /\ KeyedInv /\ AskedInv
  BY DEF IInv
<1>2. /\ pc' \in {"rest", "ask"} /\ (pc' = "ask" => doing' = "morning")
      /\ doing' \in {doing, "morning"}
      /\ (muted' => muted)
  BY DEF PollReturns
<1>3. muted' \in BOOLEAN
  BY <1>1 DEF PollReturns, TypeOK
<1>4. incoming' \in Seq(Cells)
  BY <1>1, CellFacts, SeqMonotone DEF TypeOK
<1>5. pc' \in Places /\ doing' \in Occasions
  <2>1. doing \in Occasions
    BY <1>1 DEF TypeOK
  <2> QED
    BY <1>2, <2>1, Names, Zenon
<1>6. response_len \in Nat /\ response_len' \in 0 .. Cap - 1 /\ response_len' <= response_len
      /\ Len(piece) \in Nat
  BY <1>1, Bounds DEF TypeOK
<1>7. TypeOK'
  BY <1>1, <1>3, <1>4, <1>5, <1>6 DEF TypeOK
<1>8. BufferInv'
  BY <1>1, SetsKept DEF BufferInv
<1>9. HandlerInv'
  BY <1>1, <1>6, SetsKept, Bounds DEF HandlerInv, FromSend
<1>10. SendInv'
  BY <1>1, <1>2 DEF SendInv, FromSend
<1>11. KeyedInv'
  BY <1>1, <1>2 DEF KeyedInv, Deceptive, Keyed, Found
<1>12. AskedInv'
  BY <1>1, <1>2 DEF AskedInv, Asked
<1> QED
  BY <1>7, <1>8, <1>9, <1>10, <1>11, <1>12 DEF IInv

\* What is still to come is from the server.
LEMMA EmptyComes == <<>> \in Seq(FromServer)
  OBVIOUS

\* Not on 5G.
LEMMA SkipInv == ASSUME IInv, Skip PROVE IInv'
<1>1. events \in 0 .. MaxEvents /\ raced \in BOOLEAN /\ calm \in BOOLEAN
      /\ incoming \in Seq(FromServer)
  BY DEF IInv, TypeOK, BufferInv
<1> QED
  BY <1>1, ReturnInv DEF Skip, server, buffer, handler, history

\* The server has not heard of the request.
LEMMA RequestLostInv == ASSUME IInv, RequestLost PROVE IInv'
<1>1. events' \in 0 .. MaxEvents /\ raced' \in BOOLEAN /\ calm' \in BOOLEAN
      /\ incoming \in Seq(FromServer)
  BY Bounds DEF IInv, TypeOK, BufferInv, RequestLost, ClearLength
<1> QED
  BY <1>1, ReturnInv DEF RequestLost, ClearLength, server, handler, history

\* The connection fails while the response comes in.
LEMMA PollFailsInv == ASSUME IInv, PollFails PROVE IInv'
<1>1. events' \in 0 .. MaxEvents /\ raced \in BOOLEAN /\ calm \in BOOLEAN
      /\ incoming' \in Seq(FromServer)
  BY Bounds, EmptyComes DEF IInv, TypeOK, BufferInv, PollFails
<1> QED
  BY <1>1, ReturnInv DEF PollFails, server, buffer, handler, history

\* There is no further update in the buffer.
LEMMA ParseEndsInv == ASSUME IInv, ParseEnds PROVE IInv'
<1>1. events \in 0 .. MaxEvents /\ raced \in BOOLEAN /\ calm \in BOOLEAN
      /\ incoming \in Seq(FromServer)
  BY DEF IInv, TypeOK, BufferInv
<1> QED
  BY <1>1, ReturnInv DEF ParseEnds, server, buffer, handler, history

\* The response is complete, or nothing has come.
LEMMA PollEndsInv == ASSUME IInv, PollEnds PROVE IInv'
<1>1. TypeOK /\ BufferInv /\ HandlerInv /\ SendInv /\ KeyedInv /\ AskedInv
  BY DEF IInv
<1>2. CASE PollReturns
  <2>1. events \in 0 .. MaxEvents /\ raced \in BOOLEAN /\ calm \in BOOLEAN
        /\ incoming \in Seq(FromServer)
    BY <1>1 DEF TypeOK, BufferInv
  <2> QED
    BY <1>2, <2>1, ReturnInv DEF PollEnds, server, buffer, handler, history
<1>3. CASE pc' = "received" /\ UNCHANGED <<doing, muted>>
  <2>1. /\ pc = "polling" /\ busy # "poll"
        /\ UNCHANGED <<posted, confirmed, doing, muted, last_update_id, response_buf,
                       response_len, p, incoming, sender, reply, busy, copied, piece,
                       raced, events, runs, everRun, reboots, calm>>
    BY <1>3 DEF PollEnds, server, buffer, handler, history
  <2>2. TypeOK'
    <3>1. pc' \in Places
      BY <1>3, Names, Zenon
    <3> QED
      BY <1>1, <2>1, <3>1 DEF TypeOK
  <2>3. BufferInv' /\ HandlerInv'
    BY <1>1, <2>1, SetsKept DEF BufferInv, HandlerInv, FromSend
  <2>4. SendInv'
    BY <1>1, <1>3, <2>1 DEF SendInv, FromSend
  <2>5. KeyedInv'
    BY <1>1, <1>3, <2>1 DEF KeyedInv, Deceptive, Keyed, Reach, Found
  <2>6. AskedInv'
    BY <1>1, <1>3, <2>1 DEF AskedInv, Asked
  <2> QED
    BY <2>2, <2>3, <2>4, <2>5, <2>6 DEF IInv
<1> QED
  BY <1>2, <1>3 DEF PollEnds

\* poll_updates writes the NUL: what is parsed is not deceptive.
LEMMA TerminateInv == ASSUME IInv, Terminate PROVE IInv'
<1>1. TypeOK /\ BufferInv /\ HandlerInv /\ SendInv /\ KeyedInv /\ AskedInv
  BY DEF IInv
<1>2. /\ response_len \in Nat /\ response_len + 1 \in 1 .. Cap
      /\ response_buf' = [response_buf EXCEPT ![response_len + 1] = Nul]
      /\ p' = 1 /\ pc = "received" /\ pc' = "parse"
      /\ UNCHANGED <<posted, confirmed, doing, muted, last_update_id, response_len, incoming,
                     sender, reply, busy, copied, piece, raced, events, runs, everRun,
                     reboots, calm>>
  BY <1>1, Bounds DEF Terminate, TypeOK, server, handler, history
<1>3. Nul \in Held /\ Nul \in Cells /\ Nul \notin Keyed /\ Nul[1] # "id"
  BY <1>1, CellFacts DEF TypeOK, Nul, Keyed, Msg
<1>4. \A j \in 1 .. Cap : response_buf'[j] = IF j = response_len + 1 THEN Nul
                                             ELSE response_buf[j]
  BY <1>1, <1>2 DEF BufferInv
<1>5. /\ response_buf' \in [1 .. Cap -> Held] /\ response_buf' \in [1 .. Cap -> Cells]
      /\ response_buf'[Cap] = Nul
  BY <1>1, <1>2, <1>3, Bounds DEF TypeOK, BufferInv
<1>6. TypeOK'
  <2>1. pc' \in Places /\ p' \in 1 .. Cap
    BY <1>2, Names, Bounds
  <2> QED
    BY <1>1, <1>2, <1>5, <2>1 DEF TypeOK
<1>7. BufferInv' /\ HandlerInv'
  BY <1>1, <1>2, <1>5, SetsKept DEF BufferInv, HandlerInv, FromSend
<1>8. SendInv'
  BY <1>1, <1>2 DEF SendInv, FromSend
<1>9. ~raced => ~ Deceptive'
  <2> SUFFICES ASSUME ~raced PROVE ~ Deceptive'
    OBVIOUS
  <2>1. 1 \in 1 .. Cap /\ 2 \in 1 .. Cap
    BY Bounds
  <2>2. CASE response_len + 1 \in {1, 2}
    <3>1. response_buf'[1] = Nul \/ response_buf'[2] = Nul
      BY <1>4, <2>1, <2>2
    <3> QED
      BY <1>3, <3>1 DEF Deceptive, Keyed
  <2>3. CASE response_len + 1 \notin {1, 2}
    <3>1. Reach > 1
      BY <1>1, <1>2, <2>3 DEF Reach, TypeOK
    <3>2. ~ Deceptive
      BY <1>1, <1>2, <3>1 DEF KeyedInv, Reach, TypeOK
    <3>3. response_buf'[1] = response_buf[1] /\ response_buf'[2] = response_buf[2]
      BY <1>4, <2>1, <2>3
    <3> QED
      BY <3>2, <3>3 DEF Deceptive, Keyed
  <2> QED
    BY <2>2, <2>3
<1>10. \A j \in 1 .. Cap : response_buf'[j] \in Keyed => j = 2
  BY <1>1, <1>3, <1>4 DEF KeyedInv
<1>11. AskedInv'
  BY <1>1, <1>2 DEF AskedInv, Asked
<1> QED
  BY <1>2, <1>6, <1>7, <1>8, <1>9, <1>10, <1>11 DEF IInv, KeyedInv, Keyed, Found

-----------------------------------------------------------------------------
(* http_event_handler *)

\* A piece that holds no answer with a keyword keeps the buffer in order; the
\* buffer becomes deceptive only by an update in the first cell.
LEMMA CopyOfOthers ==
  ASSUME IInv, CopyPiece, NEW S, Keyed \cap S = {}, piece \in Seq(S),
         response_buf' \in [1 .. Cap -> Held],
         \A j \in 1 .. Cap :
           \/ /\ j - response_len \in 1 .. Len(piece)
              /\ response_buf'[j] = piece[j - response_len]
           \/ /\ j - response_len \notin 1 .. Len(piece)
              /\ response_buf'[j] = response_buf[j]
  PROVE  /\ \A j \in 1 .. Cap : response_buf'[j] \in Keyed =>
                                 j = 2 /\ response_buf'[j] = response_buf[j]
         /\ Deceptive' => \/ Deceptive /\ response_len >= 2
                          \/ /\ response_len = 0 /\ Len(piece) = 1
                             /\ response_buf'[1] = piece[1]
<1>1. /\ response_len \in Nat /\ Len(piece) \in Nat /\ Len(piece) >= 1
      /\ \A j \in 1 .. Cap : response_buf[j] \in Keyed => j = 2
      /\ \A i \in 1 .. Len(piece) : piece[i] \notin Keyed
  <2>1. \A i \in 1 .. Len(piece) : piece[i] \in S
    OBVIOUS
  <2> QED
    BY <2>1 DEF IInv, TypeOK, HandlerInv, KeyedInv, CopyPiece
<1>2. \A j \in 1 .. Cap : response_buf'[j] \in Keyed =>
        j = 2 /\ response_buf'[j] = response_buf[j] /\ j - response_len \notin 1 .. Len(piece)
  BY <1>1
<1>3. ASSUME Deceptive'
      PROVE  \/ Deceptive /\ response_len >= 2
             \/ /\ response_len = 0 /\ Len(piece) = 1
                /\ response_buf'[1] = piece[1]
  <2>1. response_buf'[2] \in Keyed /\ response_buf'[1][1] = "id"
    BY <1>3 DEF Deceptive, Keyed
  <2>2. 1 \in 1 .. Cap /\ 2 \in 1 .. Cap
    BY Bounds
  <2>3. 2 - response_len \notin 1 .. Len(piece) /\ response_buf[2] \in Keyed
    BY <1>2, <2>1, <2>2
  <2>4. CASE response_len >= 2
    <3>1. 1 - response_len \notin 1 .. Len(piece)
      BY <1>1, <2>4
    <3>2. response_buf'[1] = response_buf[1]
      BY <2>2, <3>1
    <3> QED
      BY <2>1, <2>3, <2>4, <3>2 DEF Deceptive
  <2>5. CASE response_len < 2
    <3> DEFINE n == Len(piece)
    <3>1. n \in Nat /\ n >= 1 /\ ~ (1 <= 2 - response_len /\ 2 - response_len <= n)
      BY <1>1, <2>3
    <3>2. response_len = 0 /\ n = 1
      <4> HIDE DEF n
      <4> QED
        BY <1>1, <2>5, <3>1
    <3>3. 1 - response_len \in 1 .. Len(piece) /\ 1 - response_len = 1
      BY <1>1, <3>2
    <3>4. response_buf'[1] = piece[1]
      BY <2>2, <3>3
    <3> QED
      BY <3>2, <3>4
  <2> QED
    BY <1>1, <2>4, <2>5
<1> QED
  BY <1>2, <1>3

\* A piece of the poller's own answer: its keyword goes to the second cell.
LEMMA CopyOfOwn ==
  ASSUME IInv, CopyPiece, sender = "tg_poll",
         \A j \in 1 .. Cap :
           \/ /\ j - response_len \in 1 .. Len(piece)
              /\ response_buf'[j] = piece[j - response_len]
           \/ /\ j - response_len \notin 1 .. Len(piece)
              /\ response_buf'[j] = response_buf[j]
  PROVE  /\ \A j \in 1 .. Cap : response_buf'[j] \in Keyed => j = 2
         /\ response_buf'[1] = Junk /\ OwnReplyInv'
<1>1. /\ TypeOK /\ KeyedInv /\ OwnReplyInv
      /\ Len(piece) >= 1
  BY DEF IInv, SendInv, HandlerInv, CopyPiece
<1>2. /\ response_len \in Nat /\ Len(piece) \in Nat /\ Len(reply) \in Nat
      /\ 1 \in 1 .. Cap
  BY <1>1, Bounds DEF TypeOK
<1> DEFINE a == Awaited
<1>3. /\ a \in Nat /\ a <= 3 /\ a >= Len(piece)
      /\ \A i \in 1 .. Len(piece) : piece[i] \in Keyed => a - i = 1
      /\ a = 3 => response_len = 0 /\ piece[1] = Junk
      /\ a = 2 => response_len = 1
      /\ a < 3 => response_len >= 1 /\ response_buf[1] = Junk
  <2>1. a = Len(piece) + Len(reply) /\ piece # <<>>
    BY <1>1 DEF Awaited
  <2>2. a \in Nat /\ a >= Len(piece)
    BY <1>2, <2>1
  <2> QED
    BY <1>1, <2>1, <2>2 DEF OwnReplyInv
<1> HIDE DEF a
<1>4. response_buf'[1] = Junk
  <2>1. CASE a = 3
    <3>1. 1 - response_len \in 1 .. Len(piece) /\ 1 - response_len = 1
      BY <1>1, <1>2, <1>3, <2>1
    <3> QED
      BY <1>2, <1>3, <2>1, <3>1
  <2>2. CASE a < 3
    <3>1. 1 - response_len \notin 1 .. Len(piece)
      BY <1>2, <1>3, <2>2
    <3> QED
      BY <1>2, <1>3, <2>2, <3>1
  <2> QED
    BY <1>3, <2>1, <2>2
<1>5. ASSUME NEW j \in 1 .. Cap, response_buf'[j] \in Keyed PROVE j = 2
  <2>1. CASE response_buf'[j] = response_buf[j]
    BY <1>1, <1>5, <2>1 DEF KeyedInv
  <2>2. CASE j - response_len \in 1 .. Len(piece) /\ response_buf'[j] = piece[j - response_len]
    <3>1. a - (j - response_len) = 1
      BY <1>3, <1>5, <2>2
    <3>2. j = response_len + a - 1 /\ j > response_len
      BY <1>2, <1>3, <2>2, <3>1
    <3>3. a > 1
      BY <1>2, <1>3, <3>2
    <3> QED
      BY <1>2, <1>3, <3>2, <3>3
  <2> QED
    BY <2>1, <2>2
<1>6. OwnReplyInv'
  <2>1. UNCHANGED <<piece, reply, response_len>>
    BY DEF CopyPiece
  <2>2. Awaited' = Awaited
    BY <2>1 DEF Awaited
  <2> QED
    BY <1>1, <1>4, <2>1, <2>2 DEF OwnReplyInv, FromSend, Keyed
<1> QED
  BY <1>4, <1>5, <1>6

\* memcpy, by whoever is in the handler.
LEMMA CopyInv == ASSUME IInv, CopyPiece PROVE IInv'
<1>1. TypeOK /\ BufferInv /\ HandlerInv /\ SendInv /\ KeyedInv /\ AskedInv
  BY DEF IInv
<1>2. /\ busy # "nobody" /\ ~copied /\ copied' = TRUE
      /\ UNCHANGED <<posted, confirmed, pc, doing, last_update_id, muted, response_len, p,
                     incoming, sender, reply, busy, piece, raced, events, runs,
                     everRun, reboots, calm>>
  BY DEF CopyPiece, server, history
<1>3. /\ FromServer \subseteq Held /\ FromSend \subseteq Held /\ Keyed \subseteq Held
      /\ FromSend \cup Keyed \subseteq Held
      /\ Held \subseteq Cells /\ Held' = Held
      /\ Keyed \cap FromServer = {} /\ Keyed \cap FromSend = {}
  BY <1>1, <1>2, CellFacts, SetsKept DEF TypeOK, Held
<1>4. \/ busy = "poll" /\ pc = "polling" /\ piece \in Seq(FromServer)
      \/ busy = "send" /\ sender = "other" /\ piece \in Seq(FromSend)
      \/ busy = "send" /\ sender = "tg_poll" /\ piece \in Seq(FromSend \cup Keyed)
  BY <1>1, <1>2 DEF TypeOK, HandlerInv, SendInv, OwnReplyInv
<1>5. piece \in Seq(Held)
  BY <1>3, <1>4, SeqMonotone
<1>6. /\ response_len \in Nat /\ Len(piece) \in Nat /\ Len(piece) >= 1
      /\ response_len \in 0 .. Cap - 1 /\ response_len + Len(piece) < Cap
  BY <1>1, <1>2 DEF TypeOK, HandlerInv
<1>7. /\ response_buf' \in [1 .. Cap -> Held] /\ response_buf'[Cap] = Nul
      /\ \A j \in 1 .. Cap :
           \/ /\ j - response_len \in 1 .. Len(piece)
              /\ response_buf'[j] = piece[j - response_len]
           \/ /\ j - response_len \notin 1 .. Len(piece)
              /\ response_buf'[j] = response_buf[j]
  BY <1>1, <1>5, <1>6, CopyFacts DEF BufferInv
<1>8. TypeOK'
  <2>1. response_buf' \in [1 .. Cap -> Cells]
    BY <1>3, <1>7
  <2> QED
    BY <1>1, <1>2, <2>1 DEF TypeOK
<1>9. BufferInv' /\ HandlerInv'
  BY <1>1, <1>2, <1>3, <1>7, SetsKept DEF BufferInv, HandlerInv, FromSend
<1>10. AskedInv'
  BY <1>1, <1>2 DEF AskedInv, Asked
<1>11. SendInv' /\ KeyedInv'
  <2>1. CASE sender = "tg_poll"
    <3>1. /\ \A j \in 1 .. Cap : response_buf'[j] \in Keyed => j = 2
          /\ response_buf'[1] = Junk /\ OwnReplyInv'
      BY <1>7, <2>1, CopyOfOwn
    <3>2. ~ Deceptive'
      BY <3>1 DEF Deceptive, Junk
    <3> QED
      BY <1>1, <1>2, <2>1, <3>1, <3>2 DEF SendInv, KeyedInv, Keyed, Found
  <2>2. CASE sender # "tg_poll"
    <3>1. SendInv'
      BY <1>1, <1>2, <2>2 DEF SendInv, FromSend
    <3>2. /\ \A j \in 1 .. Cap : response_buf'[j] \in Keyed =>
                                 j = 2 /\ response_buf'[j] = response_buf[j]
          /\ Deceptive' => \/ Deceptive /\ response_len >= 2
                           \/ response_len = 0 /\ Len(piece) = 1 /\ busy = "poll"
      <4>1. CASE piece \in Seq(FromServer) /\ busy = "poll"
        BY <1>3, <1>7, <4>1, CopyOfOthers
      <4>2. CASE piece \in Seq(FromSend)
        <5>1. /\ \A j \in 1 .. Cap : response_buf'[j] \in Keyed =>
                                     j = 2 /\ response_buf'[j] = response_buf[j]
              /\ Deceptive' => \/ Deceptive /\ response_len >= 2
                               \/ response_buf'[1] = piece[1]
          BY <1>3, <1>7, <4>2, CopyOfOthers
        <5>2. piece[1] \in FromSend
          BY <1>6, <4>2
        <5>3. piece[1][1] # "id"
          BY <5>2 DEF FromSend, Msg, Junk
        <5> QED
          BY <5>1, <5>3 DEF Deceptive
      <4> QED
        BY <1>4, <2>2, <4>1, <4>2
    <3>3. ASSUME Deceptive', ~raced', pc # "rest", ~ (pc \in {"ask", "sending"} /\ doing = "morning")
          PROVE  pc \in {"polling", "received"} /\ Reach' <= 1
      <4>1. CASE Deceptive /\ response_len >= 2
        BY <1>1, <1>2, <1>6, <3>3, <4>1 DEF KeyedInv, Reach
      <4>2. CASE response_len = 0 /\ Len(piece) = 1 /\ busy = "poll"
        BY <1>1, <1>2, <4>2 DEF HandlerInv, Reach
      <4> QED
        BY <3>2, <3>3, <4>1, <4>2
    <3>4. KeyedInv'
      <4>1. 2 \in 1 .. Cap
        BY Bounds
      <4>2. Found' => p' < Cap /\ (p' <= 2 => response_buf'[2] \notin Keyed)
        BY <1>1, <1>2, <3>2, <4>1 DEF KeyedInv, Found
      <4> QED
        BY <1>2, <3>2, <3>3, <4>2 DEF KeyedInv, Keyed
    <3> QED
      BY <3>1, <3>4
  <2> QED
    BY <2>1, <2>2
<1> QED
  BY <1>8, <1>9, <1>10, <1>11 DEF IInv

\* response_len is increased by what has been copied.
LEMMA AddInv == ASSUME IInv, AddLength PROVE IInv'
<1>1. TypeOK /\ BufferInv /\ HandlerInv /\ SendInv /\ KeyedInv /\ AskedInv
  BY DEF IInv
<1>2. /\ copied /\ response_len' = response_len + Len(piece)
      /\ busy' = "nobody" /\ copied' = FALSE /\ piece' = <<>>
      /\ UNCHANGED <<posted, confirmed, pc, doing, last_update_id, muted, response_buf, p,
                     incoming, sender, reply, raced, events, runs, everRun, reboots, calm>>
  BY DEF AddLength, server, history
<1>3. /\ busy # "nobody" /\ Len(piece) >= 1 /\ response_len + Len(piece) < Cap
      /\ response_len \in Nat /\ Len(piece) \in Nat /\ Len(reply) \in Nat
      /\ response_len' \in 0 .. Cap - 1
  BY <1>1, <1>2, Bounds DEF HandlerInv, TypeOK
<1>4. TypeOK'
  <2>1. piece' \in Seq(Cells)
    BY <1>2
  <2>2. busy' \in {"nobody", "poll", "send"} /\ copied' \in BOOLEAN
    BY <1>2, Zenon
  <2> QED
    BY <1>1, <1>2, <1>3, <2>1, <2>2 DEF TypeOK
<1>5. BufferInv' /\ HandlerInv'
  BY <1>1, <1>2, SetsKept DEF BufferInv, HandlerInv
<1>6. SendInv'
  <2>1. ASSUME sender = "tg_poll" PROVE OwnReplyInv'
    <3>1. OwnReplyInv
      BY <1>1, <2>1 DEF SendInv
    <3>2. Awaited = Len(piece) + Len(reply) /\ Awaited' = Len(reply)
      BY <1>2, <1>3 DEF Awaited
    <3>3. /\ piece' \in Seq(FromSend \cup Keyed) /\ Len(piece') = 0
          /\ response_buf' = response_buf /\ reply' = reply
      BY <1>2
    <3>4. /\ Awaited <= 3 /\ response_buf[1] = Junk
          /\ Awaited = 3 => response_len = 0
          /\ Awaited = 2 => response_len = 1
          /\ Awaited < 3 => response_len >= 1
          /\ reply \in Seq(FromSend \cup Keyed)
          /\ \A i \in 1 .. Len(reply) : reply[i] \in Keyed => Len(reply) - i = 1
      BY <1>2, <3>1 DEF OwnReplyInv
    <3>5. /\ Awaited' \in Nat /\ Awaited' < 3 /\ response_len' >= 1
          /\ Awaited' = 2 => response_len' = 1
      BY <1>2, <1>3, <3>2, <3>4
    <3> QED
      BY <3>3, <3>4, <3>5 DEF OwnReplyInv, FromSend, Keyed
  <2> QED
    BY <1>1, <1>2, <2>1 DEF SendInv, FromSend
<1>7. KeyedInv'
  <2>1. Reach' = Reach
    BY <1>2 DEF Reach
  <2> QED
    BY <1>1, <1>2, <2>1 DEF KeyedInv, Deceptive, Keyed, Found
<1>8. AskedInv'
  BY <1>1, <1>2 DEF AskedInv, Asked
<1> QED
  BY <1>4, <1>5, <1>6, <1>7, <1>8 DEF IInv

\* The HTTP client hands over the next piece of what is to come: it waits to be
\* copied, or is dropped.
LEMMA HandOverFacts ==
  ASSUME IInv, NEW S, NEW cells \in Seq(S), NEW task, NEW rest, HandOver(task, cells, rest)
  PROVE  \E n \in 1 .. Len(cells) :
           /\ n <= MaxChunk
           /\ rest \in Seq(S) /\ Len(rest) = Len(cells) - n
           /\ \A i \in 1 .. Len(cells) - n : rest[i] = cells[i + n]
           /\ raced' \in BOOLEAN
           /\ \/ UNCHANGED handler /\ (busy = "nobody" => response_len + n >= Cap)
                 /\ (raced' => busy # "nobody")
              \/ /\ busy = "nobody" /\ busy' = task /\ copied' = copied /\ ~raced'
                 /\ response_len + n < Cap
                 /\ piece' \in Seq(S) /\ Len(piece') = n
                 /\ \A i \in 1 .. n : piece'[i] = cells[i]
<1>1. PICK n \in 1 .. Min({MaxChunk, Len(cells)}) :
        /\ rest = SubSeq(cells, n + 1, Len(cells))
        /\ IF Fits(n) /\ busy = "nobody"
           THEN busy' = task /\ piece' = SubSeq(cells, 1, n) /\ UNCHANGED copied
           ELSE UNCHANGED handler
        /\ raced' = (Fits(n) /\ busy # "nobody")
  BY DEF HandOver
<1>2. /\ n <= MaxChunk /\ n <= Len(cells)
      /\ SubSeq(cells, 1, n) \in Seq(S) /\ Len(SubSeq(cells, 1, n)) = n
      /\ \A i \in 1 .. n : SubSeq(cells, 1, n)[i] = cells[i]
      /\ rest \in Seq(S) /\ Len(rest) = Len(cells) - n
      /\ \A i \in 1 .. Len(cells) - n : rest[i] = cells[i + n]
  BY <1>1, Pieces
<1>3. n \in 1 .. Len(cells) /\ n \in Nat /\ response_len \in Nat /\ Cap \in Nat
  <2>1. response_len \in Nat /\ Cap \in Nat
    BY Bounds DEF IInv, TypeOK
  <2>2. n \in 1 .. Len(cells) /\ n \in Nat
    BY <1>1, <1>2
  <2> QED
    BY <2>1, <2>2
<1>4. raced' \in BOOLEAN
  BY <1>1, Zenon
<1>5. CASE Fits(n) /\ busy = "nobody"
  <2>1. busy' = task /\ piece' = SubSeq(cells, 1, n) /\ copied' = copied /\ ~raced'
    BY <1>1, <1>5
  <2>2. response_len + n < Cap
    BY <1>5 DEF Fits
  <2> QED
    BY <1>2, <1>3, <1>4, <1>5, <2>1, <2>2
<1>6. CASE ~ (Fits(n) /\ busy = "nobody")
  <2>1. UNCHANGED handler /\ (raced' => busy # "nobody")
    BY <1>1, <1>6
  <2>2. busy = "nobody" => response_len + n >= Cap
    BY <1>3, <1>6 DEF Fits
  <2> QED
    BY <1>2, <1>3, <1>4, <2>1, <2>2
<1> QED
  BY <1>5, <1>6

-----------------------------------------------------------------------------
(* The requests *)

\* A piece of the response to getUpdates comes.
LEMMA PollDataInv == ASSUME IInv, ~raced, PollData PROVE IInv'
<1>1. TypeOK /\ BufferInv /\ HandlerInv /\ SendInv /\ KeyedInv /\ AskedInv
  BY DEF IInv
<1>2. /\ pc = "polling" /\ busy # "poll"
      /\ UNCHANGED <<posted, confirmed, pc, doing, last_update_id, muted, response_buf,
                     response_len, p, sender, reply, events, runs, everRun, reboots,
                     calm>>
  BY DEF PollData, server, buffer, history
<1>3. incoming \in Seq(FromServer) /\ HandOver("poll", incoming, incoming')
  BY <1>1 DEF BufferInv, PollData
<1>4. PICK n \in 1 .. Len(incoming) :
        /\ incoming' \in Seq(FromServer) /\ raced' \in BOOLEAN
        /\ \/ UNCHANGED handler
           \/ /\ busy = "nobody" /\ busy' = "poll" /\ copied' = copied
              /\ response_len + n < Cap
              /\ piece' \in Seq(FromServer) /\ Len(piece') = n
  BY <1>3, HandOverFacts
<1>5. FromServer \subseteq Cells /\ FromServer' = FromServer
  BY <1>1, <1>2, CellFacts, SetsKept DEF TypeOK
<1>6. incoming' \in Seq(Cells) /\ (piece' \in Seq(FromServer) => piece' \in Seq(Cells))
  BY <1>4, <1>5, SeqMonotone
<1>7. TypeOK'
  <2>1. busy' \in {"nobody", "poll", "send"} /\ copied' \in BOOLEAN
    BY <1>1, <1>4 DEF TypeOK, handler
  <2>2. piece' \in Seq(Cells)
    BY <1>1, <1>4, <1>6 DEF TypeOK, handler
  <2> QED
    BY <1>1, <1>2, <1>4, <1>6, <2>1, <2>2 DEF TypeOK
<1>8. BufferInv'
  BY <1>1, <1>2, <1>4, SetsKept DEF BufferInv
<1>9. HandlerInv'
  <2>1. CASE UNCHANGED handler
    BY <1>1, <1>2, <1>5, <2>1 DEF HandlerInv, handler, FromSend
  <2>2. CASE /\ busy = "nobody" /\ busy' = "poll" /\ copied' = copied
             /\ response_len + n < Cap
             /\ piece' \in Seq(FromServer) /\ Len(piece') = n
    <3>1. n >= 1
      OBVIOUS
    <3> QED
      BY <1>2, <1>5, <2>2, <3>1 DEF HandlerInv
  <2> QED
    BY <1>4, <2>1, <2>2
<1>10. SendInv'
  BY <1>1, <1>2 DEF SendInv, FromSend
<1>11. KeyedInv'
  <2>1. Reach' = Reach
    <3>1. CASE UNCHANGED handler
      BY <1>2, <3>1 DEF Reach, handler
    <3>2. CASE busy = "nobody" /\ copied' = copied
      BY <1>1, <1>2, <3>2 DEF Reach, HandlerInv
    <3> QED
      BY <1>4, <3>1, <3>2
  <2> QED
    BY <1>1, <1>2, <2>1 DEF KeyedInv, Deceptive, Keyed, Found
<1>12. AskedInv'
  BY <1>1, <1>2 DEF AskedInv, Asked
<1> QED
  BY <1>7, <1>8, <1>9, <1>10, <1>11, <1>12 DEF IInv

\* The server's answer is made of what has been posted.
LEMMA AnswerType == ASSUME posted \in Seq(Kinds), NEW c \in 0 .. Len(posted)
                    PROVE  Answer(c) \in Seq(FromServer)
<1>1. Len(posted) \in Nat /\ c \in Nat /\ c <= Len(posted)
  OBVIOUS
<1>2. CASE c = Len(posted)
  <2>1. Junk \in FromServer
    BY DEF FromServer
  <2> QED
    BY <1>2, <2>1 DEF Answer
<1>3. CASE c # Len(posted)
  <2> DEFINE n == 2 * (Len(posted) - c)
             cell(i) == LET u == c + (i + 1) \div 2 IN IF i % 2 = 1 THEN Id(u) ELSE Msg(u)
  <2>1. n \in Nat /\ Answer(c) = [i \in 1 .. n |-> cell(i)]
    BY <1>1, <1>3 DEF Answer
  <2>2. ASSUME NEW i \in 1 .. n PROVE cell(i) \in FromServer
    <3>1. c + (i + 1) \div 2 \in 1 .. Len(posted)
      BY <1>1
    <3> QED
      BY <3>1 DEF FromServer
  <2> HIDE DEF n, cell
  <2>3. [i \in 1 .. n |-> cell(i)] \in Seq(FromServer)
    BY <2>1, <2>2
  <2> QED
    BY <2>1, <2>3
<1> QED
  BY <1>2, <1>3

\* tg_poll asks for updates.
LEMMA StartPollInv == ASSUME IInv, StartPoll PROVE IInv'
<1>1. TypeOK /\ BufferInv /\ HandlerInv /\ SendInv /\ KeyedInv /\ AskedInv
  BY DEF IInv
<1>2. /\ pc = "rest" /\ pc' = "polling" /\ response_len' = 0
      /\ confirmed' = Min({Len(posted), Max({confirmed, Offset - 1})})
      /\ incoming' = Answer(confirmed') /\ calm' \in BOOLEAN /\ raced' \in BOOLEAN
      /\ UNCHANGED <<posted, doing, last_update_id, muted, response_buf, p, sender,
                     reply, busy, copied, piece, events, runs, everRun, reboots>>
  BY DEF StartPoll, ClearLength, handler, history
<1>3. confirmed' \in 0 .. Len(posted) /\ Len(posted) \in Nat /\ Len(posted) <= MaxPosted
  <2>1. /\ Len(posted) \in Nat /\ Len(posted) <= MaxPosted
        /\ confirmed \in Nat /\ last_update_id \in Nat
    BY <1>1, Bounds DEF TypeOK
  <2> DEFINE m == Max({confirmed, Offset - 1})
  <2>2. Offset - 1 = last_update_id
    BY <2>1 DEF Offset
  <2>3. m \in {confirmed, last_update_id}
    BY <2>1, <2>2, MaxPair
  <2> HIDE DEF m
  <2>4. {Len(posted), m} \subseteq Nat /\ {Len(posted), m} # {}
    BY <2>1, <2>3
  <2>5. /\ Min({Len(posted), m}) \in {Len(posted), m}
        /\ Min({Len(posted), m}) <= Len(posted)
    BY <2>4, MinIn
  <2>6. confirmed' = Min({Len(posted), m})
    BY <1>2 DEF m
  <2>7. confirmed' \in Nat /\ confirmed' <= Len(posted)
    BY <2>1, <2>3, <2>5, <2>6
  <2> QED
    BY <2>1, <2>7
<1>4. incoming' \in Seq(FromServer) /\ incoming' \in Seq(Cells)
  <2>1. incoming' \in Seq(FromServer)
    BY <1>1, <1>2, <1>3, AnswerType DEF TypeOK
  <2>2. FromServer \subseteq Cells
    BY <1>1, CellFacts DEF TypeOK
  <2> QED
    BY <2>1, <2>2, SeqMonotone
<1>5. TypeOK'
  <2>1. pc' \in Places
    BY <1>2, Names, Zenon
  <2>2. confirmed' \in 0 .. MaxPosted /\ response_len' \in 0 .. Cap - 1
    BY <1>2, <1>3, Bounds
  <2> QED
    BY <1>1, <1>2, <1>4, <2>1, <2>2 DEF TypeOK
<1>6. BufferInv'
  BY <1>1, <1>2, <1>4, SetsKept DEF BufferInv
<1>7. HandlerInv'
  <2>1. /\ response_len \in Nat /\ response_len' <= response_len
        /\ Len(piece) \in Nat /\ Len(piece') = Len(piece)
    BY <1>1, <1>2 DEF TypeOK
  <2>2. busy # "nobody" => response_len' + Len(piece') < Cap
    BY <1>1, <1>2, <2>1, Bounds DEF HandlerInv
  <2> QED
    BY <1>1, <1>2, <2>2 DEF HandlerInv, FromSend
<1>8. SendInv'
  BY <1>1, <1>2 DEF SendInv, FromSend
<1>9. KeyedInv'
  <2>1. ~raced' => ~copied
    BY <1>1 DEF StartPoll, ClearLength, HandlerInv
  <2>2. ~raced' => Reach' <= 1
    BY <1>2, <2>1 DEF Reach
  <2> QED
    BY <1>1, <1>2, <2>2 DEF KeyedInv, Deceptive, Keyed, Found
<1>10. AskedInv'
  BY <1>1, <1>2 DEF AskedInv, Asked
<1> QED
  BY <1>5, <1>6, <1>7, <1>8, <1>9, <1>10 DEF IInv

\* Whoever begins to send empties the buffer and gets a reply.
LEMMA BeginFacts ==
  ASSUME IInv, NEW t \in {"tg_poll", "other"}, NEW said \in {Plain, Help, Test},
         Begin(t, said), pc' = pc \/ (pc = "ask" /\ pc' = "sending"),
         events' \in 0 .. MaxEvents, calm' \in BOOLEAN
  PROVE  TypeOK' /\ BufferInv' /\ HandlerInv' /\ AskedInv' /\ busy # "send"
<1>1. TypeOK /\ BufferInv /\ HandlerInv /\ AskedInv
  BY DEF IInv
<1>2. /\ sender = "nobody" /\ sender' = t /\ response_len' = 0 /\ reply' = Reply(said)
      /\ raced' \in BOOLEAN
      /\ UNCHANGED <<posted, confirmed, response_buf, doing, last_update_id, muted, p,
                     incoming, busy, copied, piece, runs, everRun, reboots>>
  BY DEF Begin, ClearLength, server, handler, history
<1>3. reply' \in Seq(Cells)
  <2>1. Junk \in Cells /\ Msg(said) \in Cells
    BY Bounds DEF Cells, Plain, Help, Test
  <2> QED
    BY <1>2, <2>1 DEF Reply
<1>4. response_len' \in 0 .. Cap - 1
  BY <1>2, Bounds
<1>5. TypeOK'
  <2>1. pc' \in Places
    <3>1. pc \in Places
      BY <1>1 DEF TypeOK
    <3> QED
      BY <3>1, Names, Zenon
  <2> QED
    BY <1>1, <1>2, <1>3, <1>4, <2>1 DEF TypeOK
<1>6. BufferInv'
  BY <1>1, <1>2, SetsKept DEF BufferInv
<1>7. busy # "send"
  BY <1>1, <1>2 DEF HandlerInv
<1>8. HandlerInv'
  <2>1. /\ response_len \in Nat /\ response_len' <= response_len
        /\ Len(piece) \in Nat /\ Len(piece') = Len(piece)
    BY <1>1, <1>2 DEF TypeOK
  <2>2. busy # "nobody" => response_len' + Len(piece') < Cap
    BY <1>1, <1>2, <2>1, Bounds DEF HandlerInv
  <2>3. pc = "polling" => pc' = "polling"
    OBVIOUS
  <2>4. FromServer' = FromServer
    BY <1>2, SetsKept
  <2> QED
    BY <1>1, <1>2, <1>7, <2>2, <2>3, <2>4 DEF HandlerInv
<1>9. AskedInv'
  BY <1>1, <1>2 DEF AskedInv, Asked
<1> QED
  BY <1>5, <1>6, <1>7, <1>8, <1>9

\* tg_poll sends.
LEMMA SendOwnInv == ASSUME IInv, ~raced, SendOwn PROVE IInv'
<1>1. TypeOK /\ HandlerInv /\ SendInv /\ KeyedInv
  BY DEF IInv
<1>2. PICK said \in {Plain, Help, Test} : Begin("tg_poll", said)
  BY DEF SendOwn
<1>3. pc = "ask" /\ pc' = "sending" /\ events' = events /\ calm' = calm
  BY DEF SendOwn
<1>4. events' \in 0 .. MaxEvents /\ calm' \in BOOLEAN
  BY <1>1, <1>3 DEF TypeOK
<1>5. TypeOK' /\ BufferInv' /\ HandlerInv' /\ AskedInv' /\ busy # "send"
  BY <1>2, <1>3, <1>4, BeginFacts
<1>6. piece = <<>> /\ ~copied
  BY <1>1, <1>3, <1>5 DEF TypeOK, HandlerInv
<1>7. SendInv'
  <2>1. /\ Junk \in FromSend \cup Keyed /\ Msg(said) \in FromSend \cup Keyed
        /\ Junk \notin Keyed
    BY <1>2 DEF FromSend, Keyed, Junk, Msg
  <2>2. /\ reply' = <<Junk, Msg(said), Junk>> /\ response_len' = 0
        /\ piece' = <<>> /\ ~copied'
    BY <1>2, <1>6 DEF Begin, ClearLength, Reply, handler
  <2>3. Len(piece') = 0 /\ Len(reply') = 3 /\ Awaited' = 3
    BY <2>2 DEF Awaited
  <2>4. OwnReplyInv'
    BY <2>1, <2>2, <2>3 DEF OwnReplyInv, FromSend, Keyed
  <2> QED
    BY <1>2, <1>3, <2>4 DEF Begin, SendInv
<1>8. KeyedInv'
  BY <1>1, <1>2, <1>3 DEF Begin, KeyedInv, Deceptive, Keyed, Found
<1> QED
  BY <1>5, <1>7, <1>8 DEF IInv

\* Another task sends.
LEMMA SendOtherInv == ASSUME IInv, ~raced, SendOther PROVE IInv'
<1>1. TypeOK /\ HandlerInv /\ SendInv /\ KeyedInv
  BY DEF IInv
<1>2. Begin("other", Plain) /\ pc' = pc /\ events < MaxEvents /\ events' = events + 1
  BY DEF SendOther
<1>3. events' \in 0 .. MaxEvents /\ calm' \in BOOLEAN
  <2>1. calm' \in BOOLEAN
    BY DEF SendOther
  <2> QED
    BY <1>1, <1>2, <2>1, Bounds DEF TypeOK
<1>4. TypeOK' /\ BufferInv' /\ HandlerInv' /\ AskedInv'
  BY <1>2, <1>3, BeginFacts
<1>5. SendInv'
  <2>1. reply' \in Seq(FromSend')
    <3>1. Junk \in FromSend /\ Msg(Plain) \in FromSend
      BY DEF FromSend
    <3> QED
      BY <1>2, <3>1 DEF Begin, Reply, FromSend
  <2> QED
    BY <1>1, <1>2, <2>1 DEF SendInv, Begin
<1>6. KeyedInv'
  <2>1. ~raced' => ~copied
    BY <1>1, <1>2 DEF Begin, ClearLength, HandlerInv
  <2>2. response_len' = 0 /\ UNCHANGED <<response_buf, doing, p, copied>>
    BY <1>2 DEF Begin, ClearLength, handler
  <2>3. ~raced' => Reach' <= 1
    BY <2>1, <2>2 DEF Reach
  <2> QED
    BY <1>1, <1>2, <2>2, <2>3 DEF KeyedInv, Deceptive, Keyed, Found
<1> QED
  BY <1>4, <1>5, <1>6 DEF IInv

\* A piece of the poller's own answer comes: what is awaited keeps its order.
LEMMA OwnDataInv == ASSUME IInv, SendData, sender = "tg_poll" PROVE OwnReplyInv'
<1> DEFINE S == FromSend \cup Keyed
<1>1. TypeOK /\ HandlerInv /\ SendInv /\ OwnReplyInv
  BY DEF IInv, SendInv
<1>2. /\ busy = "nobody" /\ piece = <<>> /\ ~copied
      /\ UNCHANGED <<response_buf, response_len>>
  BY <1>1 DEF SendData, HandlerInv, SendInv, TypeOK, buffer
<1>3. reply \in Seq(S) /\ HandOver("send", reply, reply')
  BY <1>1 DEF OwnReplyInv, SendData
<1>4. PICK n \in 1 .. Len(reply) :
        /\ n <= MaxChunk
        /\ reply' \in Seq(S) /\ Len(reply') = Len(reply) - n
        /\ \A i \in 1 .. Len(reply) - n : reply'[i] = reply[i + n]
        /\ \/ UNCHANGED handler /\ response_len + n >= Cap
           \/ /\ copied' = copied
              /\ piece' \in Seq(S) /\ Len(piece') = n
              /\ \A i \in 1 .. n : piece'[i] = reply[i]
  BY <1>2, <1>3, HandOverFacts
<1> DEFINE l == Len(reply)
<1>5. /\ l \in Nat /\ n \in Nat /\ 1 <= n /\ n <= l /\ response_len \in Nat
      /\ Awaited = l /\ l <= 3 /\ Len(reply') = l - n
  BY <1>1, <1>2, <1>4 DEF Awaited, TypeOK, OwnReplyInv
<1>6. /\ \A i \in 1 .. l : reply[i] \in Keyed => l - i = 1
      /\ l = 3 => response_len = 0 /\ reply[1] = Junk
      /\ l = 2 => response_len = 1
      /\ l < 3 => response_len >= 1 /\ response_buf[1] = Junk
  BY <1>1, <1>2, <1>5 DEF OwnReplyInv
<1>7. \A i \in 1 .. Len(reply') : reply'[i] \in Keyed => Len(reply') - i = 1
  BY <1>4, <1>5, <1>6
<1> HIDE DEF l
<1>8. CASE UNCHANGED handler /\ response_len + n >= Cap
  <2>1. piece' = <<>> /\ copied' = copied /\ Len(piece') = 0
    BY <1>2, <1>8 DEF handler
  <2>2. Awaited' = l - n
    BY <1>5, <2>1 DEF Awaited
  <2>3. l < 3
    BY <1>4, <1>5, <1>6, <1>8, Bounds
  <2>4. Awaited' \in Nat /\ Awaited' < 2
    BY <1>5, <2>2, <2>3
  <2>5. piece' \in Seq(S)
    BY <2>1
  <2> QED
    BY <1>2, <1>4, <1>6, <1>7, <2>1, <2>3, <2>4, <2>5 DEF OwnReplyInv, FromSend, Keyed
<1>9. CASE /\ copied' = copied
           /\ piece' \in Seq(S) /\ Len(piece') = n
           /\ \A i \in 1 .. n : piece'[i] = reply[i]
  <2>1. Awaited' = l /\ piece' # <<>>
    BY <1>5, <1>9 DEF Awaited
  <2>2. \A i \in 1 .. Len(piece') : piece'[i] \in Keyed => Awaited' - i = 1
    BY <1>5, <1>6, <1>9, <2>1
  <2>3. l = 3 => piece'[1] = Junk
    BY <1>5, <1>6, <1>9
  <2> QED
    BY <1>2, <1>4, <1>5, <1>6, <1>7, <1>9, <2>1, <2>2, <2>3
    DEF OwnReplyInv, FromSend, Keyed
<1> QED
  BY <1>4, <1>8, <1>9

\* A piece of the reply to a send comes, to whoever sends.
LEMMA SendDataInv == ASSUME IInv, ~raced, SendData PROVE IInv'
<1>1. TypeOK /\ BufferInv /\ HandlerInv /\ SendInv /\ KeyedInv /\ AskedInv
  BY DEF IInv
<1>2. /\ sender # "nobody" /\ busy # "send"
      /\ UNCHANGED <<posted, confirmed, pc, doing, last_update_id, muted, response_buf,
                     response_len, p, incoming, sender, events, runs, everRun, reboots,
                     calm>>
  BY DEF SendData, server, buffer, history
<1> DEFINE S == IF sender = "other" THEN FromSend ELSE FromSend \cup Keyed
<1>3. reply \in Seq(S) /\ HandOver("send", reply, reply')
  <2>1. sender = "other" \/ sender = "tg_poll"
    BY <1>1, <1>2 DEF TypeOK
  <2> QED
    BY <1>1, <2>1 DEF SendInv, OwnReplyInv, SendData
<1>4. S \subseteq Cells /\ FromServer' = FromServer
  BY <1>1, <1>2, CellFacts, SetsKept DEF TypeOK, Held
<1>5. PICK n \in 1 .. Len(reply) :
        /\ reply' \in Seq(S) /\ raced' \in BOOLEAN
        /\ \/ UNCHANGED handler
           \/ /\ busy = "nobody" /\ busy' = "send" /\ copied' = copied
              /\ response_len + n < Cap
              /\ piece' \in Seq(S) /\ Len(piece') = n
  BY <1>3, HandOverFacts
<1>6. sender = "other" => S = FromSend
  OBVIOUS
<1> HIDE DEF S
<1>7. reply' \in Seq(Cells) /\ (piece' \in Seq(S) => piece' \in Seq(Cells))
  BY <1>4, <1>5, SeqMonotone
<1>8. TypeOK'
  <2>1. busy' \in {"nobody", "poll", "send"} /\ copied' \in BOOLEAN
    BY <1>1, <1>5 DEF TypeOK, handler
  <2>2. piece' \in Seq(Cells)
    BY <1>1, <1>5, <1>7 DEF TypeOK, handler
  <2> QED
    BY <1>1, <1>2, <1>5, <1>7, <2>1, <2>2 DEF TypeOK
<1>9. BufferInv'
  BY <1>1, <1>2, SetsKept DEF BufferInv
<1>10. HandlerInv'
  <2>1. CASE UNCHANGED handler
    BY <1>1, <1>2, <1>4, <2>1 DEF HandlerInv, handler, FromSend
  <2>2. CASE /\ busy = "nobody" /\ busy' = "send" /\ copied' = copied
             /\ response_len + n < Cap
             /\ piece' \in Seq(S) /\ Len(piece') = n
    <3>1. n >= 1
      OBVIOUS
    <3> QED
      BY <1>2, <1>6, <2>2, <3>1 DEF HandlerInv, FromSend
  <2> QED
    BY <1>5, <2>1, <2>2
<1>11. SendInv'
  <2>1. sender = "tg_poll" => OwnReplyInv'
    BY OwnDataInv
  <2> QED
    BY <1>1, <1>2, <1>5, <1>6, <2>1 DEF SendInv, FromSend
<1>12. KeyedInv'
  <2>1. Reach' = Reach
    <3>1. CASE UNCHANGED handler
      BY <1>2, <3>1 DEF Reach, handler
    <3>2. CASE busy = "nobody" /\ copied' = copied
      BY <1>1, <1>2, <3>2 DEF Reach, HandlerInv
    <3> QED
      BY <1>5, <3>1, <3>2
  <2> QED
    BY <1>1, <1>2, <2>1 DEF KeyedInv, Deceptive, Keyed, Found
<1>13. AskedInv'
  BY <1>1, <1>2 DEF AskedInv, Asked
<1> QED
  BY <1>8, <1>9, <1>10, <1>11, <1>12, <1>13 DEF IInv

\* A request to send ends.
LEMMA SendEndsInv == ASSUME IInv, SendEnds PROVE IInv'
<1>1. TypeOK /\ BufferInv /\ HandlerInv /\ SendInv /\ KeyedInv /\ AskedInv
  BY DEF IInv
<1>2. /\ sender # "nobody" /\ busy # "send" /\ sender' = "nobody" /\ reply' = <<>>
      /\ UNCHANGED <<posted, confirmed, last_update_id, muted, response_buf, response_len,
                     p, incoming, busy, copied, piece, raced, events, runs, everRun,
                     reboots, calm>>
  BY DEF SendEnds, server, buffer, handler, history
<1>3. \/ /\ sender = "tg_poll" /\ pc = "sending"
         /\ pc' \in {"restart", "rest", "parse"}
         /\ doing = "morning" => pc' = "rest"
         /\ pc' = "restart" => doing = "reboot"
         /\ doing' = "none"
      \/ sender = "other" /\ pc' = pc /\ doing' = doing
  BY <1>1 DEF SendEnds, SendInv, TypeOK
<1>4. pc' \in Places /\ doing' \in Occasions
  <2>1. pc \in Places /\ doing \in Occasions
    BY <1>1 DEF TypeOK
  <2> QED
    BY <1>3, <2>1, Names, Zenon
<1>5. TypeOK'
  <2>1. reply' \in Seq(Cells)
    BY <1>2
  <2> QED
    BY <1>1, <1>2, <1>4, <2>1 DEF TypeOK
<1>6. BufferInv'
  BY <1>1, <1>2, SetsKept DEF BufferInv
<1>7. HandlerInv'
  BY <1>1, <1>2, <1>3, SetsKept DEF HandlerInv
<1>8. SendInv'
  BY <1>1, <1>2, <1>3 DEF SendInv
<1>9. KeyedInv'
  BY <1>1, <1>2, <1>3 DEF KeyedInv, Deceptive, Keyed, SendInv, Found, Reach
<1>10. AskedInv'
  BY <1>1, <1>2, <1>3 DEF AskedInv, Asked
<1> QED
  BY <1>5, <1>6, <1>7, <1>8, <1>9, <1>10 DEF IInv

-----------------------------------------------------------------------------
(* Restarts, and the people who post *)

\* A restart clears everything but the server.
LEMMA RestartInv == ASSUME IInv, Restart, confirmed' \in 0 .. MaxPosted,
                           events' \in 0 .. MaxEvents, reboots' \in 0 .. MaxReboots
                    PROVE  IInv'
<1>1. TypeOK
  BY DEF IInv
<1>2. /\ pc' = "rest" /\ doing' = "none" /\ last_update_id' = 0 /\ muted' = FALSE
      /\ response_buf' = [i \in 1 .. Cap |-> Nul] /\ response_len' = 0 /\ p' = 1
      /\ incoming' = <<>> /\ sender' = "nobody" /\ reply' = <<>>
      /\ busy' = "nobody" /\ copied' = FALSE /\ piece' = <<>> /\ raced' = FALSE
      /\ runs' = [u \in Updates |-> 0]
      /\ UNCHANGED <<posted, everRun, calm>>
  BY DEF Restart
<1>3. Nul \in Held /\ Held \subseteq Cells /\ Held' = Held
  BY <1>1, <1>2, CellFacts, SetsKept DEF TypeOK
<1>4. response_buf' \in [1 .. Cap -> Cells] /\ response_buf' \in [1 .. Cap -> Held']
  BY <1>2, <1>3
<1>5. TypeOK'
  <2>1. pc' \in Places /\ doing' \in Occasions
    BY <1>2, Names, Zenon
  <2>2. /\ last_update_id' \in 0 .. MaxPosted /\ response_len' \in 0 .. Cap - 1
        /\ p' \in 1 .. Cap
    BY <1>2, Bounds
  <2>3. muted' \in BOOLEAN /\ copied' \in BOOLEAN /\ raced' \in BOOLEAN
    BY <1>2
  <2>4. runs' \in [Updates -> 0 .. 2]
    BY <1>2
  <2>5. incoming' \in Seq(Cells) /\ reply' \in Seq(Cells) /\ piece' \in Seq(Cells)
    BY <1>2
  <2>6. sender' \in {"nobody", "tg_poll", "other"} /\ busy' \in {"nobody", "poll", "send"}
    BY <1>2, Zenon
  <2> QED
    BY <1>1, <1>2, <1>4, <2>1, <2>2, <2>3, <2>4, <2>5, <2>6 DEF TypeOK
<1>6. BufferInv' /\ HandlerInv'
  BY <1>2, <1>4, Bounds DEF BufferInv, HandlerInv
<1>7. SendInv'
  BY <1>2 DEF SendInv
<1>8. KeyedInv'
  BY <1>2, Bounds DEF KeyedInv, Deceptive, Keyed, Nul, Msg, Found
<1>9. AskedInv'
  BY <1>2 DEF AskedInv, Asked
<1> QED
  BY <1>5, <1>6, <1>7, <1>8, <1>9 DEF IInv

\* The chip restarts because of /reboot.
LEMMA RebootInv == ASSUME IInv, Reboot PROVE IInv'
<1>1. /\ events \in 0 .. MaxEvents /\ reboots \in 0 .. MaxReboots
      /\ confirmed \in 0 .. MaxPosted
  BY DEF IInv, TypeOK
<1>2. reboots' \in 0 .. MaxReboots
  <2>1. {MaxReboots, reboots + 1} \subseteq Nat /\ {MaxReboots, reboots + 1} # {}
    BY <1>1, Bounds
  <2>2. /\ Min({MaxReboots, reboots + 1}) \in Nat
        /\ Min({MaxReboots, reboots + 1}) <= MaxReboots
    BY <2>1, MinIn
  <2> QED
    BY <2>2, Bounds DEF Reboot
<1> QED
  BY <1>1, <1>2, RestartInv DEF Reboot

\* The power comes back.
LEMMA PowerLossInv == ASSUME IInv, PowerLoss PROVE IInv'
<1>1. /\ events' \in 0 .. MaxEvents /\ reboots' \in 0 .. MaxReboots
      /\ confirmed' \in 0 .. MaxPosted
  BY Bounds DEF IInv, TypeOK, PowerLoss
<1> QED
  BY <1>1, RestartInv DEF PowerLoss

\* The program restarts after two tasks were in the handler.
LEMMA RaceEndsInv == ASSUME IInv, RaceEnds PROVE IInv'
<1>1. /\ events' \in 0 .. MaxEvents /\ reboots' \in 0 .. MaxReboots
  BY DEF IInv, TypeOK, RaceEnds
<1>2. confirmed' \in 0 .. MaxPosted
  <2>1. /\ confirmed \in 0 .. MaxPosted /\ Len(posted) \in Nat /\ Len(posted) <= MaxPosted
        /\ confirmed' \in confirmed .. Len(posted)
    BY DEF IInv, TypeOK, RaceEnds
  <2> QED
    BY <2>1, Bounds
<1> QED
  BY <1>1, <1>2, RestartInv DEF RaceEnds

\* Somebody posts.
LEMMA PostInv == ASSUME IInv, Post PROVE IInv'
<1>1. TypeOK /\ BufferInv /\ HandlerInv /\ SendInv /\ KeyedInv /\ AskedInv
  BY DEF IInv
<1>2. PICK m \in Kinds : posted' = Append(posted, m)
  BY DEF Post
<1>3. /\ Len(posted) < MaxPosted
      /\ UNCHANGED <<confirmed, pc, doing, last_update_id, muted, response_buf,
                     response_len, p, incoming, sender, reply, busy, copied, piece,
                     raced, events, runs, everRun, reboots, calm>>
  BY DEF Post, buffer, handler, history
<1>4. /\ posted \in Seq(Kinds) /\ Len(posted) \in Nat
      /\ posted' \in Seq(Kinds) /\ Len(posted') = Len(posted) + 1
      /\ \A u \in 1 .. Len(posted) : posted'[u] = posted[u]
  BY <1>1, <1>2 DEF TypeOK
<1>5. FromServer \subseteq FromServer' /\ Held \subseteq Held'
  <2>1. 1 .. Len(posted) \subseteq 1 .. Len(posted')
    BY <1>4
  <2> QED
    BY <2>1 DEF FromServer, Held
<1>6. TypeOK'
  <2>1. Len(posted') <= MaxPosted
    BY <1>3, <1>4, Bounds
  <2> QED
    BY <1>1, <1>3, <1>4, <2>1 DEF TypeOK
<1>7. BufferInv'
  <2>1. incoming \in Seq(FromServer')
    BY <1>1, <1>5, SeqMonotone DEF BufferInv
  <2>2. response_buf \in [1 .. Cap -> Held']
    BY <1>1, <1>5 DEF BufferInv
  <2> QED
    BY <1>1, <1>3, <2>1, <2>2 DEF BufferInv
<1>8. HandlerInv'
  <2>1. piece \in Seq(FromServer) => piece \in Seq(FromServer')
    BY <1>5, SeqMonotone
  <2> QED
    BY <1>1, <1>3, <2>1 DEF HandlerInv, FromSend
<1>9. SendInv'
  BY <1>1, <1>3 DEF SendInv, OwnReplyInv, Awaited, FromSend, Keyed
<1>10. KeyedInv'
  BY <1>1, <1>3 DEF KeyedInv, Deceptive, Keyed, Found, Reach
<1>11. AskedInv'
  <2>1. ASSUME NEW text, Asked(text) PROVE Asked(text)'
    <3>1. PICK u \in 1 .. Len(posted) : posted[u].text = text
      BY <2>1 DEF Asked
    <3>2. u \in 1 .. Len(posted') /\ posted'[u].text = text
      BY <1>4, <3>1
    <3> QED
      BY <3>2 DEF Asked
  <2> QED
    BY <1>1, <1>3, <2>1 DEF AskedInv
<1> QED
  BY <1>6, <1>7, <1>8, <1>9, <1>10, <1>11 DEF IInv

-----------------------------------------------------------------------------
(* An update is read *)

\* The next update in the buffer is a posted one, before the last cell.
LEMMA NextUpdate ==
  ASSUME TypeOK, BufferInv, Ids(p) # {}
  PROVE  /\ Min(Ids(p)) \in Nat /\ 1 <= Min(Ids(p)) /\ Min(Ids(p)) < Cap
         /\ response_buf[Min(Ids(p))][1] = "id"
         /\ response_buf[Min(Ids(p))][2] \in 1 .. Len(posted)
<1> DEFINE i == Min(Ids(p))
<1>1. p \in 1 .. Cap /\ Cap \in Nat /\ Ids(p) \subseteq Nat
  BY Bounds DEF TypeOK, Ids, Visible
<1>2. i \in Ids(p)
  BY <1>1, MinIn
<1> HIDE DEF i
<1>3. /\ i \in p .. Cap /\ i \in p .. i /\ response_buf[i][1] = "id"
      /\ \A k \in p .. i : response_buf[k] # Nul
  BY <1>1, <1>2 DEF Ids, Visible
<1>4. i # Cap /\ i \in Nat /\ 1 <= i /\ i <= Cap
  BY <1>1, <1>3 DEF BufferInv
<1>5. response_buf[i] \in Held
  BY <1>1, <1>4 DEF BufferInv
<1>6. response_buf[i][2] \in 1 .. Len(posted)
  BY <1>3, <1>5 DEF Held, FromServer, FromSend, Keyed, Id, Msg, Junk, Nul
<1> QED
  BY <1>1, <1>3, <1>4, <1>6 DEF i

\* What is taken for the text of the update has been posted, or is an answer
\* without a keyword.
LEMMA NextText ==
  ASSUME TypeOK, BufferInv, KeyedInv, pc = "text", TextsFrom(p) # {}
  PROVE  LET u == response_buf[Min(TextsFrom(p))][2] IN
         \/ u \in 1 .. Len(posted) /\ Message(u) = posted[u]
         \/ u \notin Updates /\ Message(u).text = "chat"
<1> DEFINE j == Min(TextsFrom(p))
<1>1. Cap \in Nat /\ p \in 1 .. Cap /\ TextsFrom(p) \subseteq Nat
  BY Bounds DEF TypeOK, TextsFrom, Msgs, Visible
<1>2. j \in TextsFrom(p)
  BY <1>1, MinIn
<1> HIDE DEF j
<1>3. j \in p .. Cap /\ response_buf[j][1] = "msg"
  BY <1>2 DEF TextsFrom, Msgs, Visible
<1>4. j \in 1 .. Cap /\ response_buf[j] \in Held
  BY <1>1, <1>3 DEF BufferInv
<1>5. response_buf[j] \notin Keyed
  <2>1. ASSUME response_buf[j] \in Keyed PROVE FALSE
    <3>1. j = 2
      BY <1>4, <2>1 DEF KeyedInv, Keyed
    <3>2. p <= 2
      BY <1>1, <1>3, <3>1
    <3> QED
      BY <2>1, <3>1, <3>2 DEF KeyedInv, Found
  <2> QED
    BY <2>1
<1> DEFINE u == response_buf[j][2]
<1>6. \/ u \in 1 .. Len(posted)
      \/ u = Plain
  BY <1>3, <1>4, <1>5 DEF Held, FromServer, FromSend, Keyed, Id, Msg, Junk, Nul
<1> HIDE DEF u
<1>7. CASE u \in 1 .. Len(posted)
  <2>1. u # Plain /\ u # Help /\ u # Test
    BY <1>7, Bounds DEF TypeOK, Plain, Help, Test
  <2>2. Message(u) = posted[u]
    BY <2>1 DEF Message
  <2> QED
    BY <1>7, <2>2 DEF u, j
<1>8. CASE u = Plain
  <2>1. u \notin Updates
    BY <1>8, Bounds DEF Plain, Updates
  <2>2. Message(u).text = "chat"
    <3>1. u # Help /\ u # Test
      BY <1>8, Bounds DEF Plain, Help, Test
    <3> QED
      BY <1>8, <3>1 DEF Message
  <2> QED
    BY <2>1, <2>2 DEF u, j
<1> QED
  BY <1>6, <1>7, <1>8

\* While poll_updates reads, the buffer and the requests stay as they are.
LEMMA ReadingInv ==
  ASSUME IInv, pc = "parse" \/ Found,
         pc' \in {"parse", "update", "thread", "text", "ask"},
         doing' \in Occasions, last_update_id' \in 0 .. MaxPosted, muted' \in BOOLEAN,
         p' \in 1 .. Cap, runs' \in [Updates -> 0 .. 2], everRun' \subseteq Updates,
         Found' => p' < Cap /\ (p' <= 2 => response_buf[2] \notin Keyed),
         muted' => muted \/ Asked("mute"), pc' = "ask" => Asked(doing'),
         UNCHANGED <<posted, confirmed, response_buf, response_len, incoming, sender,
                     reply, busy, copied, piece, raced, events, reboots, calm>>
  PROVE  IInv'
<1>1. TypeOK /\ BufferInv /\ HandlerInv /\ SendInv /\ KeyedInv /\ AskedInv
  BY DEF IInv
<1>2. pc \in {"parse", "update", "thread", "text"}
  BY DEF Found
<1>3. TypeOK'
  <2>1. pc' \in Places
    BY Names, Zenon
  <2> QED
    BY <1>1, <2>1 DEF TypeOK
<1>4. BufferInv' /\ HandlerInv'
  BY <1>1, <1>2, SetsKept DEF BufferInv, HandlerInv, FromSend
<1>5. SendInv'
  BY <1>1, <1>2 DEF SendInv, FromSend
<1>6. KeyedInv'
  BY <1>1, <1>2 DEF KeyedInv, Deceptive, Keyed
<1>7. AskedInv'
  BY <1>1, <1>2 DEF AskedInv, Asked
<1> QED
  BY <1>3, <1>4, <1>5, <1>6, <1>7 DEF IInv

\* strstr finds the next update.
LEMMA FindUpdateInv == ASSUME IInv, ~raced, FindUpdate PROVE IInv'
<1>1. TypeOK /\ BufferInv /\ KeyedInv
  BY DEF IInv
<1> DEFINE i == Min(Ids(p))
<1>2. /\ pc = "parse" /\ Ids(p) # {} /\ p' = i /\ pc' = "update"
      /\ UNCHANGED <<posted, confirmed, doing, last_update_id, muted, response_buf,
                     response_len, incoming, sender, reply, busy, copied, piece, raced,
                     events, runs, everRun, reboots, calm>>
  BY DEF FindUpdate, server, buffer, handler, history
<1>3. i \in Nat /\ 1 <= i /\ i < Cap /\ response_buf[i][1] = "id"
  BY <1>1, <1>2, NextUpdate
<1> HIDE DEF i
<1>4. i <= 2 => response_buf[2] \notin Keyed
  <2>1. CASE i = 1
    BY <1>1, <1>2, <1>3, <2>1 DEF KeyedInv, Deceptive, Keyed
  <2>2. CASE i = 2
    BY <1>3, <2>2 DEF Keyed, Msg
  <2> QED
    BY <1>3, <2>1, <2>2
<1>5. /\ doing' \in Occasions /\ last_update_id' \in 0 .. MaxPosted /\ muted' \in BOOLEAN
      /\ p' \in 1 .. Cap /\ runs' \in [Updates -> 0 .. 2] /\ everRun' \subseteq Updates
      /\ muted' => muted
  BY <1>1, <1>2, <1>3, Bounds DEF TypeOK
<1> QED
  BY <1>2, <1>3, <1>4, <1>5, ReadingInv

\* Its update_id is read.
LEMMA ReadIdInv == ASSUME IInv, ReadId PROVE IInv'
<1>1. TypeOK /\ BufferInv /\ KeyedInv
  BY DEF IInv
<1>2. /\ pc = "update" /\ pc' = "thread"
      /\ last_update_id' =
           IF Ids(p) = {} THEN last_update_id
           ELSE Max({last_update_id, response_buf[Min(Ids(p))][2]})
      /\ UNCHANGED <<posted, confirmed, doing, muted, response_buf, response_len, p,
                     incoming, sender, reply, busy, copied, piece, raced, events, runs,
                     everRun, reboots, calm>>
  BY DEF ReadId, server, buffer, handler, history
<1>3. last_update_id' \in 0 .. MaxPosted
  <2>1. CASE Ids(p) = {}
    BY <1>1, <1>2, <2>1 DEF TypeOK
  <2>2. CASE Ids(p) # {}
    <3> DEFINE x == response_buf[Min(Ids(p))][2]
    <3>1. x \in 1 .. Len(posted)
      BY <1>1, <2>2, NextUpdate
    <3> HIDE DEF x
    <3>2. last_update_id \in 0 .. MaxPosted /\ x \in 0 .. MaxPosted
      BY <1>1, <3>1, Bounds DEF TypeOK
    <3>3. Max({last_update_id, x}) \in {last_update_id, x}
      BY <3>2, Bounds, MaxPair
    <3>4. last_update_id' = Max({last_update_id, x})
      BY <1>2, <2>2 DEF x
    <3> QED
      BY <3>2, <3>3, <3>4
  <2> QED
    BY <2>1, <2>2
<1>4. Found /\ Found' /\ p < Cap /\ (p <= 2 => response_buf[2] \notin Keyed)
  BY <1>1, <1>2 DEF KeyedInv, Found
<1>5. /\ doing' \in Occasions /\ muted' \in BOOLEAN
      /\ p' \in 1 .. Cap /\ runs' \in [Updates -> 0 .. 2] /\ everRun' \subseteq Updates
      /\ muted' => muted
  BY <1>1, <1>2 DEF TypeOK
<1> QED
  BY <1>2, <1>3, <1>4, <1>5, ReadingInv

\* Its thread is read.
LEMMA ReadThreadInv == ASSUME IInv, ReadThread PROVE IInv'
<1>1. TypeOK /\ KeyedInv
  BY DEF IInv
<1>2. /\ pc = "thread"
      /\ \/ pc' = "text" /\ p' = p
         \/ pc' = "parse" /\ p' = p + 1
      /\ UNCHANGED <<posted, confirmed, doing, last_update_id, muted, response_buf,
                     response_len, incoming, sender, reply, busy, copied, piece, raced,
                     events, runs, everRun, reboots, calm>>
  BY DEF ReadThread, server, buffer, handler, history
<1>3. Found /\ p < Cap /\ (p <= 2 => response_buf[2] \notin Keyed)
  BY <1>1, <1>2 DEF KeyedInv, Found
<1>4. p' \in 1 .. Cap /\ (Found' => p' = p)
  BY <1>1, <1>2, <1>3, Bounds DEF TypeOK, Found
<1>5. /\ doing' \in Occasions /\ last_update_id' \in 0 .. MaxPosted /\ muted' \in BOOLEAN
      /\ runs' \in [Updates -> 0 .. 2] /\ everRun' \subseteq Updates
      /\ muted' => muted
  BY <1>1, <1>2 DEF TypeOK
<1> QED
  BY <1>2, <1>3, <1>4, <1>5, ReadingInv

\* What is executed: muting and answering need a message that asks for it.
LEMMA ExecuteFacts ==
  ASSUME TypeOK, NEW u, Execute(u),
         \/ u \in 1 .. Len(posted) /\ Message(u) = posted[u]
         \/ u \notin Updates /\ Message(u).text = "chat"
  PROVE  /\ pc' \in {"parse", "ask"} /\ doing' \in Occasions /\ muted' \in BOOLEAN
         /\ muted' => muted \/ Asked("mute")
         /\ pc' = "ask" => Asked(doing')
         /\ runs' \in [Updates -> 0 .. 2] /\ everRun' \subseteq Updates
<1>1. doing \in Occasions /\ muted \in BOOLEAN
  BY DEF TypeOK
<1>2. CASE u \in 1 .. Len(posted) /\ Message(u) = posted[u]
  <2>1. posted[u].text \in Texts
    <3>1. posted[u] \in Kinds
      BY <1>2 DEF TypeOK
    <3> QED
      BY <3>1, TelegramAssumption DEF TelegramAssumption
  <2>2. \/ pc' = "parse" /\ doing' = doing
        \/ pc' = "ask" /\ doing' = posted[u].text
    BY <1>2 DEF Execute
  <2>3. pc' \in {"parse", "ask"} /\ doing' \in Occasions
    BY <1>1, <2>1, <2>2, Names, Zenon
  <2>4. muted' \in BOOLEAN /\ (muted' => muted \/ posted[u].text = "mute")
    BY <1>1, <1>2 DEF Execute
  <2>5. Asked(posted[u].text)
    BY <1>2 DEF Asked
  <2>6. runs' \in [Updates -> 0 .. 2] /\ everRun' \subseteq Updates
    <3>1. u \in Updates
      BY <1>2, Bounds DEF TypeOK, Updates
    <3>2. /\ runs' = [runs EXCEPT ![u] = Min({2, @ + 1})]
          /\ everRun' = everRun \cup {u}
      BY <3>1 DEF Execute, Count
    <3>3. Min({2, runs[u] + 1}) \in 0 .. 2
      <4>1. {2, runs[u] + 1} \subseteq Nat /\ {2, runs[u] + 1} # {}
        BY <3>1 DEF TypeOK
      <4>2. /\ Min({2, runs[u] + 1}) \in Nat /\ Min({2, runs[u] + 1}) <= 2
        BY <4>1, MinIn
      <4> QED
        BY <4>2
    <3> QED
      BY <3>1, <3>2, <3>3 DEF TypeOK
  <2> QED
    BY <2>2, <2>3, <2>4, <2>5, <2>6
<1>3. CASE u \notin Updates /\ Message(u).text = "chat"
  <2>1. pc' = "parse" /\ UNCHANGED <<doing, muted, runs, everRun>>
    BY <1>3 DEF Execute, Count
  <2> QED
    BY <1>1, <2>1 DEF TypeOK
<1> QED
  BY <1>2, <1>3

\* Its text is read, and executed.
LEMMA ReadTextInv == ASSUME IInv, ReadText PROVE IInv'
<1>1. TypeOK /\ BufferInv /\ KeyedInv
  BY DEF IInv
<1>2. /\ pc = "text" /\ p' = p + 1
      /\ UNCHANGED <<posted, confirmed, last_update_id, response_buf, response_len,
                     incoming, sender, reply, busy, copied, piece, raced, events,
                     reboots, calm>>
  BY DEF ReadText, server, buffer, handler
<1>3. Found /\ p < Cap
  BY <1>1, <1>2 DEF KeyedInv, Found
<1>4. p' \in 1 .. Cap /\ last_update_id' \in 0 .. MaxPosted
  BY <1>1, <1>2, <1>3, Bounds DEF TypeOK
<1>5. /\ pc' \in {"parse", "ask"} /\ doing' \in Occasions /\ muted' \in BOOLEAN
      /\ muted' => muted \/ Asked("mute")
      /\ pc' = "ask" => Asked(doing')
      /\ runs' \in [Updates -> 0 .. 2] /\ everRun' \subseteq Updates
  <2>1. CASE TextsFrom(p) = {}
    BY <1>1, <2>1 DEF ReadText, TypeOK
  <2>2. CASE TextsFrom(p) # {}
    <3> DEFINE u == response_buf[Min(TextsFrom(p))][2]
    <3>1. Execute(u)
      BY <2>2 DEF ReadText
    <3>2. \/ u \in 1 .. Len(posted) /\ Message(u) = posted[u]
          \/ u \notin Updates /\ Message(u).text = "chat"
      BY <1>1, <1>2, <2>2, NextText
    <3> HIDE DEF u
    <3> QED
      BY <1>1, <3>1, <3>2, ExecuteFacts
  <2> QED
    BY <2>1, <2>2
<1>6. ~ Found'
  BY <1>5 DEF Found
<1> QED
  BY <1>2, <1>3, <1>4, <1>5, <1>6, ReadingInv

-----------------------------------------------------------------------------
(* One update at a time *)

\* The program starts calm, with nothing seen.
LEMMA InitCalm == ASSUME Init PROVE CalmInv
<1>1. IInv /\ Len(posted) = 0
  BY InitInv DEF Init
<1>2. /\ confirmed = 0 /\ last_update_id = 0 /\ pc = "rest" /\ sender = "nobody"
      /\ ~raced /\ ~copied
      /\ response_buf = [i \in 1 .. Cap |-> Nul]
      /\ runs = [u \in Updates |-> 0]
  BY DEF Init
<1>3. RecordInv
  BY <1>1, <1>2 DEF RecordInv, Seen
<1>4. AloneInv
  BY <1>2 DEF AloneInv, Reading
<1>5. StaleInv
  BY <1>2, Bounds DEF StaleInv, Nul
<1>6. ArrivalInv /\ ParsedInv
  BY <1>2 DEF ArrivalInv, ParsedInv, Found
<1> QED
  BY <1>3, <1>4, <1>5, <1>6 DEF CalmInv

\* While poll_updates is at work nobody else is in the handler.
LEMMA AloneFacts == ASSUME IInv, AloneInv
                    PROVE  /\ pc \in Reading => busy # "send"
                           /\ pc # "polling" => busy # "poll"
                           /\ pc \in Reading \ {"polling"} => busy = "nobody"
                           /\ busy = "nobody" => ~copied /\ piece = <<>> /\ Len(piece) = 0
<1>1. HandlerInv /\ TypeOK
  BY DEF IInv
<1>2. /\ pc \in Reading => busy # "send"
      /\ pc # "polling" => busy # "poll"
  BY <1>1 DEF HandlerInv, AloneInv
<1>3. busy \in {"nobody", "poll", "send"}
  BY <1>1 DEF TypeOK
<1> QED
  BY <1>1, <1>2, <1>3 DEF HandlerInv

\* poll_updates returns from wherever it is.
LEMMA ReturnCalm ==
  ASSUME IInv, CalmInv, PollReturns, pc \notin {"thread", "text"}, calm' => calm /\ ~raced',
         \/ response_len' = response_len
         \/ response_len' = 0 /\ (~raced' => busy = "nobody"),
         UNCHANGED <<posted, confirmed, last_update_id, response_buf, p, sender, reply,
                     busy, copied, piece, runs, everRun>>
  PROVE  CalmInv'
<1> SUFFICES ASSUME calm'
             PROVE  RecordInv' /\ AloneInv' /\ StaleInv' /\ ArrivalInv' /\ ParsedInv'
  BY DEF CalmInv
<1>1. RecordInv /\ AloneInv /\ StaleInv
  BY DEF CalmInv
<1>2. pc' = "rest" \/ (pc' = "ask" /\ doing' = "morning")
  BY DEF PollReturns
<1>3. RecordInv' /\ StaleInv'
  BY <1>1, <1>2 DEF RecordInv, Seen, StaleInv, Command
<1>4. AloneInv'
  <2>1. sender' # "nobody" => response_len' + Awaited' <= 3
    <3>1. response_len \in Nat /\ Len(reply) \in Nat /\ Len(piece) \in Nat
      BY DEF IInv, TypeOK
    <3> QED
      BY <1>1, <3>1 DEF AloneInv, Awaited
  <2>2. copied' => response_len' = response_len
    BY DEF IInv, HandlerInv
  <2> QED
    BY <1>1, <1>2, <2>1, <2>2 DEF AloneInv, Reading
<1>5. ArrivalInv' /\ ParsedInv'
  BY <1>2 DEF ArrivalInv, ParsedInv, Found
<1> QED
  BY <1>3, <1>4, <1>5

\* The ways poll_updates returns.
LEMMA ReturnsCalm ==
  ASSUME IInv, CalmInv,
         Skip \/ RequestLost \/ PollFails \/ ParseEnds \/ (PollEnds /\ PollReturns)
  PROVE  CalmInv'
<1>1. calm => ~raced
  BY DEF CalmInv, AloneInv
<1>2. CASE Skip
  BY <1>1, <1>2, ReturnCalm DEF Skip, server, buffer, handler, history
<1>3. CASE RequestLost
  BY <1>1, <1>3, ReturnCalm DEF RequestLost, ClearLength, server, handler, history
<1>4. CASE PollFails
  BY <1>1, <1>4, ReturnCalm DEF PollFails, server, buffer, handler, history
<1>5. CASE ParseEnds
  BY <1>1, <1>5, ReturnCalm DEF ParseEnds, server, buffer, handler, history
<1>6. CASE PollEnds /\ PollReturns
  BY <1>1, <1>6, ReturnCalm DEF PollEnds, server, buffer, handler, history
<1> QED
  BY <1>2, <1>3, <1>4, <1>5, <1>6

\* The response is complete.
LEMMA PollEndsCalm ==
  ASSUME IInv, CalmInv, PollEnds, pc' = "received" /\ UNCHANGED <<doing, muted>>
  PROVE  CalmInv'
<1> SUFFICES ASSUME calm'
             PROVE  RecordInv' /\ AloneInv' /\ StaleInv' /\ ArrivalInv' /\ ParsedInv'
  BY DEF CalmInv
<1>1. /\ pc = "polling" /\ pc' = "received" /\ incoming = <<>>
      /\ UNCHANGED <<posted, confirmed, last_update_id, response_buf, response_len, p,
                     incoming, sender, reply, busy, copied, piece, raced, runs, everRun,
                     calm>>
  BY DEF PollEnds, server, buffer, handler, history
<1>2. RecordInv /\ AloneInv /\ StaleInv /\ ArrivalInv
  BY <1>1 DEF CalmInv
<1>3. RecordInv' /\ StaleInv'
  BY <1>1, <1>2 DEF RecordInv, Seen, Command, StaleInv
<1>4. AloneInv'
  BY <1>1, <1>2 DEF AloneInv, Reading, Awaited
<1>5. ArrivalInv' /\ ParsedInv'
  BY <1>1, <1>2 DEF ArrivalInv, Total, Content, Fresh, ParsedInv, Found
<1> QED
  BY <1>3, <1>4, <1>5

\* It is all there is in front of the NUL.
LEMMA TerminateCalm == ASSUME IInv, CalmInv, Terminate PROVE CalmInv'
<1> SUFFICES ASSUME calm'
             PROVE  RecordInv' /\ AloneInv' /\ StaleInv' /\ ArrivalInv' /\ ParsedInv'
  BY DEF CalmInv
<1>1. /\ pc = "received" /\ pc' = "parse" /\ p' = 1
      /\ response_buf' = [response_buf EXCEPT ![response_len + 1] = Nul]
      /\ UNCHANGED <<posted, confirmed, last_update_id, response_len, incoming, sender,
                     reply, busy, copied, piece, raced, runs, everRun, calm>>
  BY DEF Terminate, server, handler, history
<1>2. RecordInv /\ AloneInv /\ StaleInv /\ ArrivalInv
  BY <1>1 DEF CalmInv
<1>3. incoming = <<>> /\ ~copied /\ Len(piece) = 0 /\ Len(incoming) = 0
  <2>1. pc \in Reading \ {"polling"}
    BY <1>1 DEF Reading
  <2>2. busy = "nobody"
    BY <1>2, <2>1, AloneFacts
  <2> QED
    BY <1>1, <1>2, <2>2, AloneFacts DEF ArrivalInv
<1>4. response_len \in 0 .. Cap - 1 /\ response_buf \in [1 .. Cap -> Cells] /\ Cap > 2
  BY Bounds DEF IInv, TypeOK
<1>5. \A j \in 1 .. Cap : /\ j # response_len + 1 => response_buf'[j] = response_buf[j]
                          /\ j = response_len + 1 => response_buf'[j] = Nul
  BY <1>1, <1>4
<1>6. RecordInv' /\ ArrivalInv'
  BY <1>1, <1>2 DEF RecordInv, Seen, Command, ArrivalInv
<1>7. AloneInv'
  BY <1>1, <1>2, <1>3 DEF AloneInv, Reading, Awaited
<1>8. StaleInv'
  BY <1>2, <1>5 DEF StaleInv, Nul
<1>9. ParsedInv'
  <2>1. Total = response_len
    BY <1>3, <1>4 DEF Total
  <2>2. /\ last_update_id <= confirmed
        /\ \/ response_len = 1 /\ response_buf[1] = Junk
           \/ /\ response_len = 2 /\ confirmed < Len(posted)
              /\ response_buf[1] = Id(Fresh) /\ response_buf[2] = Msg(Fresh)
    BY <1>1, <1>2, <1>4, <2>1 DEF ArrivalInv, Content
  <2>3. CASE response_len = 1 /\ response_buf[1] = Junk
    <3>1. response_buf'[1] = Junk
      <4>1. 1 \in 1 .. Cap /\ 1 # response_len + 1
        BY <2>3, Bounds
      <4> QED
        BY <1>5, <2>3, <4>1
    <3> QED
      BY <1>1, <2>2, <3>1 DEF ParsedInv, Junk, Found
  <2>4. CASE /\ response_len = 2 /\ confirmed < Len(posted)
             /\ response_buf[1] = Id(Fresh) /\ response_buf[2] = Msg(Fresh)
    <3>1. /\ response_buf'[1] = Id(Fresh) /\ response_buf'[2] = Msg(Fresh)
          /\ response_buf'[3] = Nul
      <4>1. /\ 1 \in 1 .. Cap /\ 2 \in 1 .. Cap /\ 3 \in 1 .. Cap
            /\ response_len + 1 = 3
        BY <2>4, Bounds
      <4> QED
        BY <1>5, <2>4, <4>1
    <3> QED
      BY <1>1, <2>2, <2>4, <3>1 DEF ParsedInv, FreshHeld, Fresh, Found
  <2> QED
    BY <2>2, <2>3, <2>4
<1> QED
  BY <1>6, <1>7, <1>8, <1>9

\* A piece of the response comes: the response stays the same.
LEMMA PollDataCalm == ASSUME IInv, CalmInv, PollData PROVE CalmInv'
<1> SUFFICES ASSUME calm'
             PROVE  RecordInv' /\ AloneInv' /\ StaleInv' /\ ArrivalInv' /\ ParsedInv'
  BY DEF CalmInv
<1>1. /\ pc = "polling" /\ pc' = "polling" /\ calm /\ busy # "poll"
      /\ UNCHANGED <<posted, confirmed, last_update_id, response_buf, response_len, p,
                     sender, reply, runs, everRun, calm>>
  BY DEF PollData, server, buffer, history
<1>2. RecordInv /\ AloneInv /\ StaleInv /\ ArrivalInv
  BY <1>1 DEF CalmInv
<1>3. /\ busy = "nobody" /\ ~copied /\ Len(piece) = 0 /\ sender = "nobody"
  <2>1. pc \in Reading
    BY <1>1 DEF Reading
  <2>2. busy # "send" /\ busy \in {"nobody", "poll", "send"}
    BY <1>2, <2>1, AloneFacts DEF IInv, TypeOK
  <2>3. busy = "nobody"
    BY <1>1, <2>2
  <2> QED
    BY <1>2, <2>1, <2>3, AloneFacts DEF AloneInv
<1>4. /\ response_len \in Nat /\ incoming \in Seq(Cells) /\ Len(incoming) \in Nat
      /\ HandOver("poll", incoming, incoming')
  BY Bounds DEF IInv, TypeOK, PollData
<1>5. Total = response_len + Len(incoming) /\ Total <= 2
  BY <1>1, <1>2, <1>3, <1>4 DEF ArrivalInv, Total
<1>6. PICK n \in 1 .. Len(incoming) :
        /\ Len(incoming') = Len(incoming) - n
        /\ \A i \in 1 .. Len(incoming) - n : incoming'[i] = incoming[i + n]
        /\ ~raced' /\ copied' = copied /\ Len(piece') = n
        /\ \A i \in 1 .. n : piece'[i] = incoming[i]
  <2>1. PICK n \in 1 .. Len(incoming) :
          /\ incoming' \in Seq(Cells) /\ Len(incoming') = Len(incoming) - n
          /\ \A i \in 1 .. Len(incoming) - n : incoming'[i] = incoming[i + n]
          /\ \/ UNCHANGED handler /\ response_len + n >= Cap
             \/ /\ copied' = copied /\ ~raced' /\ Len(piece') = n
                /\ \A i \in 1 .. n : piece'[i] = incoming[i]
    BY <1>3, <1>4, HandOverFacts
  <2>2. ~ (response_len + n >= Cap)
    BY <1>4, <1>5, Bounds
  <2> QED
    BY <2>1, <2>2
<1>7. Total' = Total
  BY <1>1, <1>4, <1>5, <1>6 DEF Total
<1>8. \A j \in 1 .. Total : Content(j)' = Content(j)
  <2> SUFFICES ASSUME NEW j \in 1 .. Total PROVE Content(j)' = Content(j)
    OBVIOUS
  <2>1. j \in Nat /\ j <= response_len + Len(incoming) /\ n \in Nat
    BY <1>4, <1>5
  <2>2. CASE j <= response_len
    BY <1>1, <2>2 DEF Content
  <2>3. CASE j > response_len /\ j <= response_len + n
    <3>1. Content(j) = incoming[j - response_len]
      BY <1>3, <1>4, <2>1, <2>3 DEF Content
    <3>2. Content(j)' = piece'[j - response_len]
      BY <1>1, <1>4, <1>6, <2>1, <2>3 DEF Content
    <3>3. j - response_len \in 1 .. n
      BY <1>4, <2>1, <2>3
    <3> QED
      BY <1>6, <3>1, <3>2, <3>3
  <2>4. CASE j > response_len + n
    <3>1. Content(j) = incoming[j - response_len]
      BY <1>3, <1>4, <2>1, <2>4 DEF Content
    <3>2. Content(j)' = incoming'[j - response_len - n]
      BY <1>1, <1>4, <1>6, <2>1, <2>4 DEF Content
    <3>3. /\ j - response_len - n \in 1 .. Len(incoming) - n
          /\ j - response_len - n + n = j - response_len
      BY <1>4, <2>1, <2>4
    <3> QED
      BY <1>6, <3>1, <3>2, <3>3
  <2> QED
    BY <1>4, <2>1, <2>2, <2>3, <2>4
<1>9. RecordInv' /\ StaleInv' /\ ParsedInv'
  BY <1>1, <1>2 DEF RecordInv, Seen, Command, StaleInv, ParsedInv, Found
<1>10. AloneInv'
  BY <1>1, <1>2, <1>3, <1>6 DEF AloneInv, Reading
<1>11. ArrivalInv'
  <2>1. Total = 1 => Content(1)' = Content(1)
    BY <1>8
  <2>2. Total = 2 => Content(1)' = Content(1) /\ Content(2)' = Content(2)
    BY <1>8
  <2> QED
    BY <1>1, <1>2, <1>7, <2>1, <2>2 DEF ArrivalInv, Fresh
<1> QED
  BY <1>9, <1>10, <1>11

\* What is in the handler while calm holds: a piece of the response to a poll, or
\* of a reply, in which no update is.
LEMMA PieceFacts ==
  ASSUME IInv, AloneInv, busy # "nobody"
  PROVE  /\ Len(piece) \in Nat /\ Len(piece) >= 1 /\ response_len \in Nat
         /\ response_len + Len(piece) < Cap
         /\ \/ pc = "polling" /\ busy = "poll"
            \/ /\ pc \notin Reading /\ sender # "nobody"
               /\ \A i \in 1 .. Len(piece) : piece[i][1] # "id"
<1>1. TypeOK /\ HandlerInv /\ SendInv
  BY DEF IInv
<1>2. /\ Len(piece) \in Nat /\ Len(piece) >= 1 /\ response_len \in Nat
      /\ response_len + Len(piece) < Cap
  BY <1>1 DEF TypeOK, HandlerInv
<1>3. CASE busy = "poll"
  BY <1>1, <1>2, <1>3 DEF HandlerInv
<1>4. CASE busy = "send"
  <2>1. sender \in {"tg_poll", "other"} /\ pc \notin Reading
    BY <1>1, <1>4 DEF TypeOK, HandlerInv, AloneInv
  <2>2. piece \in Seq(FromSend) \/ piece \in Seq(FromSend \cup Keyed)
    BY <1>1, <1>4, <2>1 DEF HandlerInv, SendInv, OwnReplyInv
  <2>3. \A x \in FromSend \cup Keyed : x[1] # "id"
    BY DEF FromSend, Keyed, Msg, Junk
  <2>4. \A i \in 1 .. Len(piece) : piece[i] \in FromSend \cup Keyed
    BY <2>2
  <2> QED
    BY <1>2, <2>1, <2>3, <2>4
<1> QED
  BY <1>1, <1>3, <1>4 DEF TypeOK

\* memcpy: behind what has come nothing is counted yet.
LEMMA CopyCalm == ASSUME IInv, CalmInv, CopyPiece PROVE CalmInv'
<1> SUFFICES ASSUME calm'
             PROVE  RecordInv' /\ AloneInv' /\ StaleInv' /\ ArrivalInv' /\ ParsedInv'
  BY DEF CalmInv
<1>1. /\ busy # "nobody" /\ calm
      /\ UNCHANGED <<posted, confirmed, pc, doing, last_update_id, response_len, p, incoming,
                     sender, reply, busy, piece, raced, runs, everRun>>
  BY DEF CopyPiece, server, history
<1>2. RecordInv /\ AloneInv /\ StaleInv /\ ArrivalInv /\ ParsedInv
  BY <1>1 DEF CalmInv
<1>3. /\ Len(piece) \in Nat /\ Len(piece) >= 1 /\ response_len \in Nat
      /\ response_len + Len(piece) < Cap
      /\ \/ pc = "polling" /\ busy = "poll"
         \/ /\ pc \notin Reading /\ sender # "nobody"
            /\ \A i \in 1 .. Len(piece) : piece[i][1] # "id"
  BY <1>1, <1>2, PieceFacts
<1>4. /\ response_buf \in [1 .. Cap -> Cells] /\ piece \in Seq(Cells) /\ Cap \in Nat
      /\ response_len \in 0 .. Cap - 1 /\ Len(incoming) \in Nat /\ Len(reply) \in Nat
  BY Bounds DEF IInv, TypeOK
<1>5. \A j \in 1 .. Cap :
        \/ j - response_len \in 1 .. Len(piece) /\ response_buf'[j] = piece[j - response_len]
        \/ j - response_len \notin 1 .. Len(piece) /\ response_buf'[j] = response_buf[j]
  BY <1>3, <1>4, CopyFacts
<1>6. AloneInv'
  <2>1. ASSUME NEW i \in 1 .. Len(piece)
        PROVE  response_buf'[response_len + i] = piece[i]
    <3>1. response_len + i \in 1 .. Cap /\ (response_len + i) - response_len = i
      BY <1>3, <1>4
    <3> QED
      BY <1>5, <3>1
  <2> QED
    BY <1>1, <1>2, <2>1 DEF AloneInv, Awaited
<1>7. RecordInv'
  BY <1>1, <1>2 DEF RecordInv, Seen, Command
<1>8. ArrivalInv'
  <2>1. Total' = Total
    BY <1>1 DEF Total
  <2>2. \A j \in 1 .. 2 : Content(j)' = Content(j)
    <3> SUFFICES ASSUME NEW j \in 1 .. 2 PROVE Content(j)' = Content(j)
      OBVIOUS
    <3>1. CASE j <= response_len
      <4>1. j \in 1 .. Cap /\ j - response_len \notin 1 .. Len(piece)
        BY <1>3, <3>1, Bounds
      <4>2. response_buf'[j] = response_buf[j]
        BY <1>5, <4>1
      <4> QED
        BY <1>1, <3>1, <4>2 DEF Content
    <3>2. CASE ~ (j <= response_len)
      BY <1>1, <3>2 DEF Content
    <3> QED
      BY <3>1, <3>2
  <2>3. Content(1)' = Content(1) /\ Content(2)' = Content(2)
    BY <2>2
  <2> QED
    BY <1>1, <1>2, <2>1, <2>3 DEF ArrivalInv, Fresh
<1>9. StaleInv'
  <2> SUFFICES ASSUME NEW j \in 1 .. Cap
               PROVE  /\ j >= 2 => response_buf'[j][1] # "id"
                      /\ j >= 4 => response_buf'[j] = Nul
    BY DEF StaleInv
  <2>1. CASE response_buf'[j] = response_buf[j]
    BY <1>2, <2>1 DEF StaleInv
  <2>2. CASE j - response_len \in 1 .. Len(piece) /\ response_buf'[j] = piece[j - response_len]
    <3>1. CASE pc = "polling"
      <4>1. Total <= 2 /\ j <= Total
        BY <1>2, <1>3, <1>4, <2>2, <3>1 DEF ArrivalInv, Total
      <4>2. response_buf'[j] = Content(j)
        BY <1>3, <1>4, <2>2 DEF Content
      <4>3. Total \in Nat
        BY <1>3, <1>4 DEF Total
      <4>4. CASE j >= 2
        <5>1. j = 2 /\ Total = 2
          BY <4>1, <4>3, <4>4
        <5>2. Content(2) = Msg(Fresh)
          BY <1>2, <3>1, <5>1 DEF ArrivalInv
        <5> QED
          BY <4>2, <5>1, <5>2 DEF Msg
      <4> QED
        BY <4>4
    <3>2. CASE pc # "polling"
      <4>1. response_len + Awaited <= 3 /\ Awaited >= Len(piece) /\ Awaited \in Nat
        BY <1>2, <1>3, <1>4, <3>2 DEF AloneInv, Awaited
      <4>2. ~ (j >= 4)
        BY <1>3, <2>2, <4>1
      <4> QED
        BY <1>3, <2>2, <3>2, <4>2
    <3> QED
      BY <3>1, <3>2
  <2> QED
    BY <1>5, <2>1, <2>2
<1>10. ParsedInv'
  <2>1. pc # "parse" /\ ~ Found
    BY <1>3 DEF Reading, Found
  <2> QED
    BY <1>1, <2>1 DEF ParsedInv, Found
<1> QED
  BY <1>6, <1>7, <1>8, <1>9, <1>10

\* What is counted is the piece that has been copied.
LEMMA AddCalm == ASSUME IInv, CalmInv, AddLength PROVE CalmInv'
<1> SUFFICES ASSUME calm'
             PROVE  RecordInv' /\ AloneInv' /\ StaleInv' /\ ArrivalInv' /\ ParsedInv'
  BY DEF CalmInv
<1>1. /\ copied /\ response_len' = response_len + Len(piece) /\ calm
      /\ piece' = <<>> /\ ~copied'
      /\ UNCHANGED <<posted, confirmed, pc, doing, last_update_id, response_buf, p, incoming,
                     sender, reply, raced, runs, everRun>>
  BY DEF AddLength, server, history
<1>2. RecordInv /\ AloneInv /\ StaleInv /\ ArrivalInv /\ ParsedInv
  BY <1>1 DEF CalmInv
<1>3. /\ response_len \in Nat /\ Len(piece) \in Nat /\ Len(incoming) \in Nat
      /\ Len(reply) \in Nat /\ Len(piece') = 0
  BY <1>1 DEF IInv, TypeOK
<1>4. RecordInv' /\ StaleInv'
  BY <1>1, <1>2 DEF RecordInv, Seen, Command, StaleInv
<1>5. AloneInv'
  <2>1. response_len' + Awaited' = response_len + Awaited
    BY <1>1, <1>3 DEF Awaited
  <2> QED
    BY <1>1, <1>2, <2>1 DEF AloneInv
<1>6. ArrivalInv'
  <2>1. Total' = Total
    BY <1>1, <1>3 DEF Total
  <2>2. \A j \in 1 .. 2 : Content(j)' = Content(j)
    <3> SUFFICES ASSUME NEW j \in 1 .. 2 PROVE Content(j)' = Content(j)
      OBVIOUS
    <3>1. CASE j <= response_len
      BY <1>1, <1>3, <3>1 DEF Content
    <3>2. CASE ~ (j <= response_len) /\ j <= response_len + Len(piece)
      <4>1. j - response_len \in 1 .. Len(piece) /\ response_len + (j - response_len) = j
        BY <1>3, <3>2
      <4>2. response_buf[j] = piece[j - response_len]
        BY <1>1, <1>2, <4>1 DEF AloneInv
      <4> QED
        BY <1>1, <3>2, <4>2 DEF Content
    <3>3. CASE ~ (j <= response_len + Len(piece))
      <4>1. ~ (j <= response_len) /\ ~ (j <= response_len' + Len(piece'))
            /\ ~ (j <= response_len')
            /\ j - response_len' - Len(piece') = j - response_len - Len(piece)
        BY <1>1, <1>3, <3>3
      <4> QED
        BY <1>1, <3>3, <4>1 DEF Content
    <3> QED
      BY <1>3, <3>1, <3>2, <3>3
  <2>3. Content(1)' = Content(1) /\ Content(2)' = Content(2)
    BY <2>2
  <2> QED
    BY <1>1, <1>2, <2>1, <2>3 DEF ArrivalInv, Fresh
<1>7. ParsedInv'
  BY <1>1, <1>2 DEF ParsedInv, FreshHeld, Fresh, Found
<1> QED
  BY <1>4, <1>5, <1>6, <1>7

\* What poll_updates finds of the update that has come.
LEMMA FreshFacts ==
  ASSUME IInv, FreshHeld
  PROVE  /\ confirmed \in Nat /\ Fresh = confirmed + 1 /\ Fresh \in 1 .. Len(posted)
         /\ Fresh \in Updates /\ Message(Fresh) = posted[Fresh]
         /\ Ids(1) # {} /\ response_buf[Min(Ids(1))][2] = Fresh
         /\ ~ OurThread /\ p = 1 => posted[Fresh].thread # "ours"
         /\ TextsFrom(1) = {} => posted[Fresh].text = "none"
         /\ TextsFrom(1) # {} => response_buf[Min(TextsFrom(1))][2] = Fresh
<1> DEFINE w == Fresh
<1>1. /\ response_buf[1] = Id(w) /\ response_buf[2] = Msg(w) /\ response_buf[3] = Nul
      /\ confirmed \in Nat /\ w = confirmed + 1 /\ w \in 1 .. Len(posted) /\ w \in Updates
  BY Bounds DEF IInv, TypeOK, FreshHeld, Fresh, Updates
<1> HIDE DEF w
<1>2. Message(w) = posted[w]
  <2>1. w # Plain /\ w # Help /\ w # Test
    BY <1>1, Bounds DEF Updates, Plain, Help, Test
  <2> QED
    BY <2>1 DEF Message
<1>3. \A x \in {1, 2} : Min({x}) = x
  <2>1. ASSUME NEW x \in {1, 2} PROVE Min({x}) = x
    <3>1. {x} \subseteq Nat /\ {x} # {}
      OBVIOUS
    <3> QED
      BY <3>1, MinIn
  <2> QED
    BY <2>1
<1>4. Visible(1) = {1, 2}
  <2>1. ASSUME NEW j \in Visible(1) PROVE j \in {1, 2}
    <3>1. j \in 1 .. Cap /\ \A k \in 1 .. j : response_buf[k] # Nul
      BY <2>1 DEF Visible
    <3>2. ~ (j >= 3)
      BY <1>1, <3>1, Bounds
    <3> QED
      BY <3>1, <3>2, Bounds
  <2>2. response_buf[1] # Nul /\ response_buf[2] # Nul
    BY <1>1 DEF Id, Msg, Nul
  <2>3. 1 \in Visible(1)
    <3>1. 1 \in 1 .. Cap /\ \A k \in 1 .. 1 : k = 1
      BY Bounds
    <3> QED
      BY <2>2, <3>1 DEF Visible
  <2>4. 2 \in Visible(1)
    <3>1. 2 \in 1 .. Cap /\ \A k \in 1 .. 2 : k = 1 \/ k = 2
      BY Bounds
    <3> QED
      BY <2>2, <3>1 DEF Visible
  <2> QED
    BY <2>1, <2>3, <2>4
<1>5. Ids(1) = {1} /\ Msgs(1) = {2}
  BY <1>1, <1>4 DEF Ids, Msgs, Id, Msg
<1>6. At(2) = posted[w]
  BY <1>1, <1>2 DEF At, Msg
<1>7. /\ ThreadsFrom(1) = IF posted[w].thread # "none" THEN {2} ELSE {}
      /\ TextsFrom(1)   = IF posted[w].text # "none" THEN {2} ELSE {}
  BY <1>5, <1>6 DEF ThreadsFrom, TextsFrom
<1>8. Ids(1) # {} /\ response_buf[Min(Ids(1))][2] = w
  <2>1. Min(Ids(1)) = 1
    BY <1>3, <1>5
  <2> QED
    BY <1>1, <1>5, <2>1 DEF Id
<1>9. ~ OurThread /\ p = 1 => posted[w].thread # "ours"
  <2> SUFFICES ASSUME p = 1, posted[w].thread = "ours" PROVE OurThread
    OBVIOUS
  <2>1. ThreadsFrom(1) = {2}
    BY <1>7
  <2>2. Min(ThreadsFrom(1)) = 2
    BY <1>3, <2>1
  <2> QED
    BY <1>6, <2>1, <2>2 DEF OurThread
<1>10. TextsFrom(1) # {} => response_buf[Min(TextsFrom(1))][2] = w
  <2> SUFFICES ASSUME TextsFrom(1) # {} PROVE response_buf[Min(TextsFrom(1))][2] = w
    OBVIOUS
  <2>1. TextsFrom(1) = {2}
    BY <1>7
  <2>2. Min(TextsFrom(1)) = 2
    BY <1>3, <2>1
  <2> QED
    BY <1>1, <2>2 DEF Msg
<1> QED
  BY <1>1, <1>2, <1>7, <1>8, <1>9, <1>10 DEF w

\* The only update that is found is the one that has come.
LEMMA FindUpdateCalm == ASSUME IInv, CalmInv, FindUpdate PROVE CalmInv'
<1> SUFFICES ASSUME calm'
             PROVE  RecordInv' /\ AloneInv' /\ StaleInv' /\ ArrivalInv' /\ ParsedInv'
  BY DEF CalmInv
<1> DEFINE i == Min(Ids(p))
<1>1. /\ pc = "parse" /\ Ids(p) # {} /\ pc' = "update" /\ p' = i /\ calm
      /\ UNCHANGED <<posted, confirmed, doing, last_update_id, response_buf, response_len,
                     incoming, sender, reply, busy, copied, piece, raced, runs, everRun>>
  BY DEF FindUpdate, server, buffer, handler, history
<1>2. RecordInv /\ AloneInv /\ StaleInv /\ ParsedInv /\ TypeOK /\ BufferInv
  BY <1>1 DEF CalmInv, IInv
<1>3. i = 1 /\ p = 1
  <2>1. /\ i \in Nat /\ 1 <= i /\ i < Cap /\ response_buf[i][1] = "id"
    BY <1>1, <1>2, NextUpdate
  <2>2. i \in Ids(p)
    <3>1. Ids(p) \subseteq Nat
      BY <1>2, Bounds DEF TypeOK, Ids, Visible
    <3> QED
      BY <1>1, <3>1, MinIn
  <2>3. i \in p .. Cap /\ p \in 1 .. Cap
    BY <1>2, <2>2 DEF Ids, Visible, TypeOK
  <2> HIDE DEF i
  <2>4. i = 1
    BY <1>2, <2>1, Bounds DEF StaleInv
  <2> QED
    BY <2>3, <2>4, Bounds
<1>4. response_buf[1][1] = "id"
  BY <1>1, <1>2, <1>3, NextUpdate
<1> HIDE DEF i
<1>5. RecordInv' /\ StaleInv' /\ ArrivalInv'
  BY <1>1, <1>2 DEF RecordInv, Seen, Command, StaleInv, ArrivalInv
<1>6. AloneInv'
  BY <1>1, <1>2 DEF AloneInv, Reading, Awaited
<1>7. ParsedInv'
  BY <1>1, <1>2, <1>3, <1>4 DEF ParsedInv, FreshHeld, Fresh
<1> QED
  BY <1>5, <1>6, <1>7

\* Its update_id becomes the last one.
LEMMA ReadIdCalm == ASSUME IInv, CalmInv, ReadId PROVE CalmInv'
<1> SUFFICES ASSUME calm'
             PROVE  RecordInv' /\ AloneInv' /\ StaleInv' /\ ArrivalInv' /\ ParsedInv'
  BY DEF CalmInv
<1>1. /\ pc = "update" /\ pc' = "thread" /\ calm
      /\ last_update_id' =
           IF Ids(p) = {} THEN last_update_id
           ELSE Max({last_update_id, response_buf[Min(Ids(p))][2]})
      /\ UNCHANGED <<posted, confirmed, doing, response_buf, response_len, p, incoming,
                     sender, reply, busy, copied, piece, raced, runs, everRun>>
  BY DEF ReadId, server, buffer, handler, history
<1>2. RecordInv /\ AloneInv /\ StaleInv /\ ParsedInv
  BY <1>1 DEF CalmInv
<1>3. p = 1 /\ FreshHeld /\ last_update_id <= confirmed
  BY <1>1, <1>2 DEF ParsedInv, Found
<1>4. /\ confirmed \in Nat /\ last_update_id \in Nat /\ Fresh = confirmed + 1
      /\ Fresh \in 1 .. Len(posted) /\ Ids(1) # {} /\ response_buf[Min(Ids(1))][2] = Fresh
  BY <1>3, FreshFacts DEF IInv, TypeOK
<1> DEFINE w == Fresh
<1>5. last_update_id' = w
  <2>1. last_update_id' = Max({last_update_id, w})
    BY <1>1, <1>3, <1>4, Zenon
  <2>2. w \in Int
    BY <1>4
  <2> HIDE DEF w
  <2>3. last_update_id' = IF last_update_id >= w THEN last_update_id ELSE w
    BY <1>4, <2>1, <2>2, MaxIs
  <2>4. w = confirmed + 1
    BY <1>4 DEF w
  <2> QED
    BY <1>3, <1>4, <2>3, <2>4
<1>6. RecordInv'
  <2>1. Seen' = confirmed /\ Seen = last_update_id
    BY <1>1, <1>4, <1>5 DEF Seen
  <2>2. \A u \in 1 .. Len(posted) : u <= confirmed /\ Command(u) => u \in everRun
    BY <1>2 DEF RecordInv
  <2>3. ASSUME NEW u \in Updates PROVE runs[u] <= 1 /\ (u > confirmed => runs[u] = 0)
    <3>1. u > confirmed => u > last_update_id
      BY <1>3, <1>4 DEF Updates
    <3> QED
      BY <1>2, <2>1, <3>1 DEF RecordInv
  <2>4. confirmed' <= Len(posted') /\ last_update_id' <= Len(posted')
    BY <1>1, <1>2, <1>4, <1>5 DEF RecordInv
  <2> QED
    BY <1>1, <2>1, <2>2, <2>3, <2>4 DEF RecordInv, Command
<1>7. StaleInv' /\ ArrivalInv'
  BY <1>1, <1>2 DEF StaleInv, ArrivalInv
<1>8. AloneInv'
  BY <1>1, <1>2 DEF AloneInv, Reading, Awaited
<1>9. ParsedInv'
  BY <1>1, <1>2, <1>3, <1>5 DEF ParsedInv, FreshHeld, Fresh, Found
<1> QED
  BY <1>6, <1>7, <1>8, <1>9

\* An update is done with: it is the last one seen, and has run if it is a command.
LEMMA SeenNow ==
  ASSUME IInv, RecordInv, FreshHeld, pc \in {"thread", "text"}, last_update_id = Fresh,
         pc' \notin {"thread", "text"}, UNCHANGED <<posted, confirmed, last_update_id>>,
         Command(Fresh) => Fresh \in everRun', everRun \subseteq everRun',
         \A u \in Updates : u # Fresh => runs'[u] = runs[u],
         runs'[Fresh] <= 1
  PROVE  RecordInv'
<1> DEFINE w == Fresh
<1>1. /\ confirmed \in Nat /\ w = confirmed + 1 /\ w \in 1 .. Len(posted) /\ w \in Updates
  BY FreshFacts
<1>2. w = Fresh
  OBVIOUS
<1> HIDE DEF w
<1>3. Seen = confirmed /\ Seen' = w
  BY <1>1, <1>2 DEF Seen
<1>4. ASSUME NEW u \in 1 .. Len(posted'), u <= confirmed' \/ u <= Seen', Command(u)'
      PROVE  u \in everRun'
  <2>1. u \in 1 .. Len(posted) /\ Command(u) /\ (u <= confirmed \/ u = w)
    BY <1>1, <1>3, <1>4 DEF Command
  <2> QED
    BY <1>2, <2>1 DEF RecordInv
<1>5. ASSUME NEW u \in Updates
      PROVE  runs'[u] <= 1 /\ (u > Seen' => runs'[u] = 0)
  <2>1. CASE u = w
    BY <1>1, <1>2, <1>3, <2>1
  <2>2. CASE u # w
    <3>1. u > Seen' => u > Seen
      BY <1>1, <1>3 DEF Updates
    <3> QED
      BY <1>2, <2>2, <3>1 DEF RecordInv
  <2> QED
    BY <2>1, <2>2
<1>6. confirmed' <= Len(posted') /\ last_update_id' <= Len(posted')
  BY DEF RecordInv
<1> QED
  BY <1>4, <1>5, <1>6 DEF RecordInv

\* A message of another thread is no command.
LEMMA ReadThreadCalm == ASSUME IInv, CalmInv, ReadThread PROVE CalmInv'
<1> SUFFICES ASSUME calm'
             PROVE  RecordInv' /\ AloneInv' /\ StaleInv' /\ ArrivalInv' /\ ParsedInv'
  BY DEF CalmInv
<1>1. /\ pc = "thread" /\ calm
      /\ \/ OurThread /\ pc' = "text" /\ p' = p
         \/ ~ OurThread /\ pc' = "parse" /\ p' = p + 1
      /\ UNCHANGED <<posted, confirmed, doing, last_update_id, response_buf, response_len,
                     incoming, sender, reply, busy, copied, piece, raced, runs, everRun>>
  BY DEF ReadThread, server, buffer, handler, history
<1>2. RecordInv /\ AloneInv /\ StaleInv /\ ParsedInv
  BY <1>1 DEF CalmInv
<1>3. p = 1 /\ FreshHeld /\ last_update_id = Fresh
  BY <1>1, <1>2 DEF ParsedInv, Found
<1>4. StaleInv' /\ ArrivalInv'
  BY <1>1, <1>2 DEF StaleInv, ArrivalInv
<1>5. AloneInv'
  BY <1>1, <1>2 DEF AloneInv, Reading, Awaited
<1>6. CASE OurThread /\ pc' = "text" /\ p' = p
  <2>1. RecordInv'
    BY <1>1, <1>2, <1>6 DEF RecordInv, Seen, Command
  <2>2. ParsedInv'
    BY <1>1, <1>3, <1>6 DEF ParsedInv, FreshHeld, Fresh, Found
  <2> QED
    BY <1>4, <1>5, <2>1, <2>2
<1>7. CASE ~ OurThread /\ pc' = "parse" /\ p' = p + 1
  <2>1. ~ Command(Fresh)
    BY <1>3, <1>7, FreshFacts DEF Command
  <2>2. runs[Fresh] <= 1
    BY <1>2, <1>3, FreshFacts DEF RecordInv
  <2>3. RecordInv'
    BY <1>1, <1>2, <1>3, <1>7, <2>1, <2>2, SeenNow
  <2>4. ParsedInv'
    BY <1>3, <1>7 DEF ParsedInv, Found
  <2> QED
    BY <1>4, <1>5, <2>3, <2>4
<1> QED
  BY <1>1, <1>6, <1>7

\* The update that has come is executed if it is a command, once.
LEMMA ReadTextCalm == ASSUME IInv, CalmInv, ReadText PROVE CalmInv'
<1> SUFFICES ASSUME calm'
             PROVE  RecordInv' /\ AloneInv' /\ StaleInv' /\ ArrivalInv' /\ ParsedInv'
  BY DEF CalmInv
<1>1. /\ pc = "text" /\ p' = p + 1 /\ calm
      /\ UNCHANGED <<posted, confirmed, last_update_id, response_buf, response_len,
                     incoming, sender, reply, busy, copied, piece, raced>>
  BY DEF ReadText, server, buffer, handler
<1>2. RecordInv /\ AloneInv /\ StaleInv /\ ParsedInv /\ TypeOK
  BY <1>1 DEF CalmInv, IInv
<1>3. p = 1 /\ FreshHeld /\ last_update_id = Fresh
  BY <1>1, <1>2 DEF ParsedInv, Found
<1> DEFINE w == Fresh
<1>4. /\ confirmed \in Nat /\ w = confirmed + 1 /\ w \in Updates
      /\ TextsFrom(1) = {} => posted[w].text = "none"
      /\ TextsFrom(1) # {} => response_buf[Min(TextsFrom(1))][2] = w
  BY <1>3, FreshFacts
<1>5. w = Fresh
  OBVIOUS
<1> HIDE DEF w
<1>6. \/ Execute(w)
      \/ ~ Command(w) /\ pc' = "parse" /\ UNCHANGED <<doing, runs, everRun>>
  BY <1>3, <1>4 DEF ReadText, Command
<1>7. runs[w] = 0 /\ runs \in [Updates -> 0 .. 2]
  <2>1. w > Seen
    BY <1>1, <1>3, <1>4, <1>5 DEF Seen
  <2> QED
    BY <1>2, <1>4, <2>1 DEF RecordInv, TypeOK
<1>8. /\ \A u \in Updates : u # w => runs'[u] = runs[u]
      /\ runs'[w] <= 1
      /\ everRun \subseteq everRun' /\ (Command(w) => w \in everRun')
      /\ pc' \in {"parse", "ask"}
  <2>1. CASE Execute(w)
    <3>1. /\ runs' = [runs EXCEPT ![w] = Min({2, @ + 1})]
          /\ everRun' = everRun \cup {w}
      BY <1>4, <2>1 DEF Execute, Count
    <3>2. Min({2, 1}) <= 1
      <4>1. {2, 1} \subseteq Nat /\ {2, 1} # {}
        OBVIOUS
      <4> QED
        BY <4>1, MinIn
    <3>3. runs'[w] = Min({2, 1})
      BY <1>4, <1>7, <3>1
    <3>4. pc' \in {"parse", "ask"}
      BY <2>1, Zenon DEF Execute
    <3> QED
      BY <1>4, <1>7, <3>1, <3>2, <3>3, <3>4
  <2>2. CASE ~ Command(w) /\ pc' = "parse" /\ UNCHANGED <<doing, runs, everRun>>
    BY <1>7, <2>2
  <2> QED
    BY <1>6, <2>1, <2>2
<1>9. RecordInv'
  <2>1. pc' \notin {"thread", "text"}
    BY <1>8
  <2> QED
    BY <1>1, <1>2, <1>3, <1>5, <1>8, <2>1, SeenNow
<1>10. p' = 2
  BY <1>1, <1>3
<1>11. AloneInv'
  BY <1>1, <1>2, <1>8, <1>10 DEF AloneInv, Reading, Awaited
<1>12. StaleInv'
  BY <1>1, <1>2 DEF StaleInv
<1>13. ArrivalInv' /\ ParsedInv'
  BY <1>8, <1>10 DEF ArrivalInv, ParsedInv, Found
<1> QED
  BY <1>9, <1>11, <1>12, <1>13

\* The offset tells the server to forget what has been seen, and no more.
LEMMA StartPollCalm == ASSUME IInv, CalmInv, StartPoll PROVE CalmInv'
<1> SUFFICES ASSUME calm'
             PROVE  RecordInv' /\ AloneInv' /\ StaleInv' /\ ArrivalInv' /\ ParsedInv'
  BY DEF CalmInv
<1>1. /\ pc = "rest" /\ pc' = "polling" /\ response_len' = 0 /\ calm
      /\ sender = "nobody" /\ Len(posted) - confirmed' <= 1
      /\ raced' = (busy # "nobody")
      /\ confirmed' = Min({Len(posted), Max({confirmed, Offset - 1})})
      /\ incoming' = Answer(confirmed')
      /\ UNCHANGED <<posted, doing, last_update_id, response_buf, p, sender, reply,
                     busy, copied, piece, runs, everRun>>
  BY DEF StartPoll, ClearLength, handler, history
<1>2. RecordInv /\ AloneInv /\ StaleInv /\ TypeOK
  BY <1>1 DEF CalmInv, IInv
<1>3. /\ confirmed' \in {confirmed, last_update_id}
      /\ confirmed' >= confirmed /\ confirmed' >= last_update_id
      /\ confirmed' \in Nat /\ confirmed' <= Len(posted) /\ Len(posted) \in Nat
  <2>1. /\ Len(posted) \in Nat /\ confirmed \in Nat /\ last_update_id \in Nat
        /\ confirmed <= Len(posted) /\ last_update_id <= Len(posted)
    BY <1>2, Bounds DEF TypeOK, RecordInv
  <2> DEFINE m == Max({confirmed, Offset - 1})
  <2>2. Offset - 1 = last_update_id
    BY <2>1 DEF Offset
  <2>3. m \in {confirmed, last_update_id} /\ m >= confirmed /\ m >= last_update_id
    <3>1. /\ Max({confirmed, last_update_id}) \in {confirmed, last_update_id}
          /\ Max({confirmed, last_update_id}) >= confirmed
          /\ Max({confirmed, last_update_id}) >= last_update_id
      <4>1. Max({confirmed, last_update_id}) = IF confirmed >= last_update_id
                                               THEN confirmed ELSE last_update_id
        BY <2>1, MaxIs
      <4> QED
        BY <2>1, <4>1
    <3> QED
      BY <2>2, <3>1, Zenon
  <2> HIDE DEF m
  <2>4. {Len(posted), m} \subseteq Nat /\ {Len(posted), m} # {}
    BY <2>1, <2>3
  <2>5. /\ Min({Len(posted), m}) \in {Len(posted), m}
        /\ Min({Len(posted), m}) <= m
    BY <2>4, MinIn
  <2>6. confirmed' = m
    <3>1. confirmed' = Min({Len(posted), m})
      BY <1>1 DEF m
    <3> QED
      BY <2>1, <2>3, <2>5, <3>1
  <2> QED
    BY <2>1, <2>3, <2>6
<1>4. RecordInv'
  <2>1. ASSUME NEW u \in 1 .. Len(posted'), u <= confirmed' \/ u <= Seen',
               Command(u)'
        PROVE  u \in everRun'
    <3>1. u \in 1 .. Len(posted) /\ Command(u) /\ (u <= confirmed \/ u <= Seen)
      BY <1>1, <1>3, <2>1 DEF Command, Seen
    <3> QED
      BY <1>1, <1>2, <3>1 DEF RecordInv
  <2> QED
    BY <1>1, <1>2, <1>3, <2>1 DEF RecordInv, Seen
<1>5. busy = "nobody" /\ ~copied /\ Len(piece) = 0
  <2>1. busy # "send" /\ busy # "poll"
    BY <1>1, <1>2, AloneFacts DEF IInv, HandlerInv
  <2>2. busy = "nobody"
    BY <1>2, <2>1 DEF TypeOK
  <2> QED
    BY <1>2, <2>2, AloneFacts
<1>6. AloneInv'
  BY <1>1, <1>2, <1>5 DEF AloneInv
<1>7. StaleInv'
  BY <1>1, <1>2 DEF StaleInv
<1>8. ArrivalInv'
  <2>1. /\ Content(1)' = incoming'[1] /\ Content(2)' = incoming'[2]
        /\ Total' = Len(incoming')
    <3>1. Len(piece') = 0
      BY <1>1, <1>5
    <3>2. Content(1)' = incoming'[1 - 0 - 0] /\ Content(2)' = incoming'[2 - 0 - 0]
      BY <1>1, <3>1 DEF Content
    <3>3. Len(incoming') \in Nat
      <4>1. incoming' \in Seq(Cells)
        BY StartPollInv DEF IInv, TypeOK
      <4> QED
        BY <4>1
    <3> QED
      BY <1>1, <3>1, <3>2, <3>3 DEF Total
  <2>2. CASE confirmed' = Len(posted)
    <3>1. incoming' = <<Junk>>
      BY <1>1, <2>2 DEF Answer
    <3>2. Len(incoming') = 1 /\ incoming'[1] = Junk
      BY <3>1
    <3>3. Total' = 1 /\ Content(1)' = Junk
      BY <2>1, <3>2
    <3>4. last_update_id' <= confirmed'
      BY <1>1, <1>3
    <3> QED
      BY <1>1, <3>3, <3>4 DEF ArrivalInv
  <2>3. CASE confirmed' # Len(posted)
    <3>1. Len(posted) - confirmed' = 1
      BY <1>1, <1>3, <2>3
    <3>2. incoming' = [j \in 1 .. 2 |->
                         LET u == confirmed' + (j + 1) \div 2
                         IN  IF j % 2 = 1 THEN Id(u) ELSE Msg(u)]
      <4>1. 2 * (Len(posted) - confirmed') = 2
        BY <3>1
      <4> QED
        BY <1>1, <2>3, <4>1, Zenon DEF Answer
    <3>3. Len(incoming') = 2
      BY <3>2
    <3>4. incoming'[1] = Id(confirmed' + 1) /\ incoming'[2] = Msg(confirmed' + 1)
      BY <3>2
    <3>5. confirmed' < Len(posted')
      BY <1>1, <1>3, <2>3
    <3> QED
      BY <1>1, <1>3, <2>1, <3>3, <3>4, <3>5 DEF ArrivalInv, Fresh
  <2> QED
    BY <2>2, <2>3
<1>9. ParsedInv'
  BY <1>1 DEF ParsedInv, Found
<1> QED
  BY <1>4, <1>6, <1>7, <1>8, <1>9

\* Whoever begins to send empties the buffer.
LEMMA BeginCalm == ASSUME IInv, CalmInv, SendOwn \/ SendOther PROVE CalmInv'
<1> SUFFICES ASSUME calm'
             PROVE  RecordInv' /\ AloneInv' /\ StaleInv' /\ ArrivalInv' /\ ParsedInv'
  BY DEF CalmInv
<1>1. PICK said \in {Plain, Help, Test}, t \in {"tg_poll", "other"} :
        /\ Begin(t, said)
        /\ \/ pc = "ask" /\ pc' = "sending" /\ t = "tg_poll"
           \/ pc = "rest" /\ pc' = "rest"
        /\ calm
  BY DEF SendOwn, SendOther
<1>2. /\ sender = "nobody" /\ response_len' = 0 /\ reply' = Reply(said) /\ sender' = t
      /\ raced' = (busy # "nobody")
      /\ UNCHANGED <<posted, confirmed, response_buf, doing, last_update_id, p,
                     busy, copied, piece, runs, everRun>>
  BY <1>1 DEF Begin, ClearLength, server, handler, history
<1>3. RecordInv /\ AloneInv /\ StaleInv
  BY <1>1 DEF CalmInv
<1>4. busy = "nobody" /\ ~copied /\ Len(piece) = 0
  <2>1. busy # "send" /\ busy # "poll"
    BY <1>1, <1>2 DEF IInv, HandlerInv
  <2>2. busy = "nobody"
    BY <2>1 DEF IInv, TypeOK
  <2> QED
    BY <1>3, <2>2, AloneFacts
<1>5. RecordInv' /\ StaleInv'
  BY <1>1, <1>2, <1>3 DEF RecordInv, Seen, Command, StaleInv
<1>6. AloneInv'
  <2>1. Len(reply') = 3
    BY <1>2 DEF Reply
  <2>2. response_len' + Awaited' = 3
    BY <1>2, <1>4, <2>1 DEF Awaited
  <2>3. ~raced' /\ ~copied'
    BY <1>2, <1>4
  <2>4. pc' \in Reading => sender' = "nobody"
    BY <1>1, <1>2, <1>3 DEF AloneInv, Reading
  <2>5. pc' \in {"ask", "sending"} /\ doing' # "morning" => sender' # "other" /\ p' >= 2
    BY <1>1, <1>2, <1>3 DEF AloneInv
  <2> QED
    BY <2>2, <2>3, <2>4, <2>5 DEF AloneInv
<1>7. ArrivalInv' /\ ParsedInv'
  BY <1>1 DEF ArrivalInv, ParsedInv, Found
<1> QED
  BY <1>5, <1>6, <1>7

\* A piece of the reply to a send comes.
LEMMA SendDataCalm == ASSUME IInv, CalmInv, SendData PROVE CalmInv'
<1> SUFFICES ASSUME calm'
             PROVE  RecordInv' /\ AloneInv' /\ StaleInv' /\ ArrivalInv' /\ ParsedInv'
  BY DEF CalmInv
<1>1. /\ sender # "nobody" /\ busy # "send" /\ calm
      /\ UNCHANGED <<posted, confirmed, pc, doing, last_update_id, response_buf,
                     response_len, p, incoming, sender, runs, everRun>>
  BY DEF SendData, server, buffer, history
<1>2. RecordInv /\ AloneInv /\ StaleInv /\ TypeOK
  BY <1>1 DEF CalmInv, IInv
<1>3. pc \notin Reading
  BY <1>1, <1>2 DEF AloneInv
<1>4. busy = "nobody" /\ ~copied /\ Len(piece) = 0
  <2>1. busy # "poll"
    BY <1>3 DEF IInv, HandlerInv, Reading
  <2>2. busy = "nobody"
    BY <1>1, <1>2, <2>1 DEF TypeOK
  <2> QED
    BY <1>2, <2>2, AloneFacts
<1>5. /\ response_len \in Nat /\ reply \in Seq(Cells) /\ Len(reply) \in Nat
      /\ HandOver("send", reply, reply')
  BY <1>2 DEF TypeOK, SendData
<1>6. PICK n \in 1 .. Len(reply) :
        /\ reply' \in Seq(Cells) /\ Len(reply') = Len(reply) - n
        /\ \/ UNCHANGED handler /\ (raced' => busy # "nobody")
           \/ copied' = copied /\ ~raced' /\ Len(piece') = n
  BY <1>5, HandOverFacts
<1>7. ~copied' /\ ~raced'
  BY <1>4, <1>6 DEF handler
<1>8. response_len' + Awaited' <= 3
  <2>1. response_len + Awaited <= 3 /\ Awaited = Len(reply)
    BY <1>1, <1>2, <1>4, <1>5 DEF AloneInv, Awaited
  <2>2. Len(piece') + Len(reply') \in Nat /\ Len(piece') + Len(reply') <= Len(reply)
    BY <1>4, <1>5, <1>6 DEF handler
  <2>3. response_len' = response_len /\ response_len \in Nat /\ Len(reply) \in Nat
    BY <1>1, <1>5
  <2>4. response_len + Len(reply) <= 3
    BY <2>1
  <2> QED
    BY <2>2, <2>3, <2>4 DEF Awaited
<1>9. AloneInv'
  BY <1>1, <1>2, <1>7, <1>8 DEF AloneInv
<1>10. RecordInv' /\ StaleInv'
  BY <1>1, <1>2 DEF RecordInv, Seen, Command, StaleInv
<1>11. ArrivalInv' /\ ParsedInv'
  BY <1>1, <1>3 DEF ArrivalInv, ParsedInv, Found, Reading
<1> QED
  BY <1>9, <1>10, <1>11

\* A send ends: the poller goes on behind the update it has answered.
LEMMA SendEndsCalm == ASSUME IInv, CalmInv, SendEnds PROVE CalmInv'
<1> SUFFICES ASSUME calm'
             PROVE  RecordInv' /\ AloneInv' /\ StaleInv' /\ ArrivalInv' /\ ParsedInv'
  BY DEF CalmInv
<1>1. /\ sender # "nobody" /\ busy # "send" /\ sender' = "nobody" /\ calm
      /\ UNCHANGED <<posted, confirmed, last_update_id, response_buf, response_len, p,
                     incoming, busy, copied, piece, raced, runs, everRun>>
  BY DEF SendEnds, server, buffer, handler, history
<1>2. RecordInv /\ AloneInv /\ StaleInv
  BY <1>1 DEF CalmInv
<1>3. \/ /\ pc = "sending" /\ pc' \in {"restart", "rest", "parse"}
         /\ pc' = "parse" => doing # "morning"
      \/ pc' = pc /\ doing' = doing /\ pc \notin Reading
  BY <1>1, <1>2 DEF SendEnds, AloneInv, IInv, SendInv
<1>4. RecordInv' /\ StaleInv'
  BY <1>1, <1>2, <1>3 DEF RecordInv, Seen, Reading, Command, StaleInv
<1>5. AloneInv'
  BY <1>1, <1>2, <1>3 DEF AloneInv, Reading
<1>6. pc' \notin Reading \/ (pc' = "parse" /\ p' >= 2)
  BY <1>1, <1>2, <1>3 DEF AloneInv, Reading
<1>7. ArrivalInv' /\ ParsedInv'
  BY <1>6 DEF ArrivalInv, ParsedInv, Found, Reading
<1> QED
  BY <1>4, <1>5, <1>7

\* A restart forgets what has been seen since the server forgot, so that it is
\* delivered again; what the server has forgotten stays executed.
LEMMA RestartCalm == ASSUME IInv, CalmInv, Restart, confirmed' = confirmed \/ ~calm
                     PROVE  CalmInv'
<1> SUFFICES ASSUME calm'
             PROVE  RecordInv' /\ AloneInv' /\ StaleInv' /\ ArrivalInv' /\ ParsedInv'
  BY DEF CalmInv
<1>1. /\ pc' = "rest" /\ last_update_id' = 0 /\ sender' = "nobody"
      /\ raced' = FALSE /\ copied' = FALSE
      /\ response_buf' = [j \in 1 .. Cap |-> Nul]
      /\ runs' = [u \in Updates |-> 0]
      /\ UNCHANGED <<posted, confirmed, everRun>> /\ calm
  BY DEF Restart
<1>2. RecordInv /\ Len(posted) \in Nat /\ confirmed \in Nat
  BY <1>1, Bounds DEF CalmInv, IInv, TypeOK
<1>3. RecordInv'
  BY <1>1, <1>2 DEF RecordInv, Seen, Command
<1>4. StaleInv'
  BY <1>1 DEF StaleInv, Nul
<1>5. AloneInv' /\ ArrivalInv' /\ ParsedInv'
  BY <1>1 DEF AloneInv, Reading, ArrivalInv, ParsedInv, Found
<1> QED
  BY <1>3, <1>4, <1>5

\* Somebody posts: the new update has not been seen.
LEMMA PostCalm == ASSUME IInv, CalmInv, Post PROVE CalmInv'
<1> SUFFICES ASSUME calm'
             PROVE  RecordInv' /\ AloneInv' /\ StaleInv' /\ ArrivalInv' /\ ParsedInv'
  BY DEF CalmInv
<1>1. PICK m \in Kinds : posted' = Append(posted, m)
  BY DEF Post
<1>2. /\ UNCHANGED <<confirmed, pc, doing, last_update_id, response_buf, response_len, p,
                     incoming, sender, reply, busy, copied, piece, raced, runs, everRun>>
      /\ calm
  BY DEF Post, buffer, handler, history
<1>3. /\ RecordInv /\ AloneInv /\ StaleInv /\ ArrivalInv /\ ParsedInv
      /\ confirmed \in Nat /\ last_update_id \in Nat
  BY <1>2, Bounds DEF CalmInv, IInv, TypeOK
<1>4. /\ Len(posted) \in Nat /\ Len(posted') = Len(posted) + 1
      /\ \A u \in 1 .. Len(posted) : posted'[u] = posted[u]
  BY <1>1 DEF IInv, TypeOK
<1>5. RecordInv'
  <2>0. Seen' = Seen /\ Seen <= Len(posted)
    BY <1>2, <1>3, <1>4 DEF Seen, RecordInv
  <2>1. ASSUME NEW u \in 1 .. Len(posted'), u <= confirmed' \/ u <= Seen', Command(u)'
        PROVE  u \in everRun'
    <3>1. u \in 1 .. Len(posted) /\ (u <= confirmed \/ u <= Seen)
      BY <1>2, <1>3, <1>4, <2>0, <2>1 DEF RecordInv, Seen
    <3>2. Command(u)
      BY <1>4, <2>1, <3>1 DEF Command
    <3> QED
      BY <1>2, <1>3, <3>1, <3>2 DEF RecordInv
  <2>2. confirmed' <= Len(posted') /\ last_update_id' <= Len(posted')
    BY <1>2, <1>3, <1>4 DEF RecordInv
  <2> QED
    BY <1>2, <1>3, <2>0, <2>1, <2>2 DEF RecordInv
<1>6. AloneInv' /\ StaleInv'
  BY <1>2, <1>3 DEF AloneInv, StaleInv, Awaited
<1>7. confirmed < Len(posted) => confirmed' < Len(posted')
  BY <1>2, <1>3, <1>4
<1>8. ArrivalInv'
  BY <1>2, <1>3, <1>7 DEF ArrivalInv, Total, Content, Fresh
<1>9. ParsedInv'
  BY <1>2, <1>3, <1>7 DEF ParsedInv, FreshHeld, Fresh, Found
<1> QED
  BY <1>5, <1>6, <1>8, <1>9

\* Every step keeps what holds while updates come one at a time.
LEMMA StepCalm == ASSUME IInv, CalmInv, [Next]_vars PROVE CalmInv'
<1>1. CASE Next
  <2>1. CASE PollEnds
    BY <2>1, ReturnsCalm, PollEndsCalm DEF PollEnds
  <2>2. CASE CopyPiece \/ AddLength \/ Terminate
    BY <2>2, CopyCalm, AddCalm, TerminateCalm
  <2>3. CASE StartPoll \/ PollData
    BY <2>3, StartPollCalm, PollDataCalm
  <2>4. CASE FindUpdate \/ ReadId \/ ReadThread \/ ReadText
    BY <2>4, FindUpdateCalm, ReadIdCalm, ReadThreadCalm, ReadTextCalm
  <2>5. CASE Skip \/ RequestLost \/ PollFails \/ ParseEnds
    BY <2>5, ReturnsCalm
  <2>6. CASE SendOwn \/ SendOther \/ SendData \/ SendEnds
    BY <2>6, BeginCalm, SendDataCalm, SendEndsCalm
  <2>7. CASE Reboot \/ PowerLoss \/ Post
    BY <2>7, RestartCalm, PostCalm DEF Reboot, PowerLoss
  <2>8. CASE RaceEnds
    <3>1. ~calm
      BY <2>8 DEF RaceEnds, CalmInv, AloneInv
    <3> QED
      BY <2>8, <3>1, RestartCalm DEF RaceEnds
  <2> QED
    BY <1>1, <2>1, <2>2, <2>3, <2>4, <2>5, <2>6, <2>7, <2>8
    DEF Next, Handler, Poller, Parser, Sending, Others
<1>2. CASE UNCHANGED vars
  <2>1. UNCHANGED <<posted, confirmed, pc, doing, last_update_id, response_buf,
                    response_len, p, incoming, sender, reply, busy, copied, piece, raced,
                    runs, everRun, calm>>
    BY <1>2 DEF vars, server, buffer, handler, history
  <2>2. (calm => RecordInv /\ AloneInv /\ StaleInv)'
    BY <2>1 DEF CalmInv, RecordInv, Seen, Command, AloneInv, Awaited, StaleInv
  <2>3. (calm => ArrivalInv /\ ParsedInv)'
    BY <2>1 DEF CalmInv, ArrivalInv, Total, Content, Fresh, ParsedInv, FreshHeld, Found
  <2> QED
    BY <2>2, <2>3 DEF CalmInv
<1> QED
  BY <1>1, <1>2

-----------------------------------------------------------------------------
(* The theorems *)

\* Every step of the poller, of the other senders and of the people who post
\* keeps the invariant.
LEMMA StepInv == ASSUME IInv, [Next]_vars PROVE IInv'
<1>1. CASE Handler
  BY <1>1, CopyInv, AddInv DEF Handler
<1>2. CASE Poller
  BY <1>2, StartPollInv, PollDataInv, PollEndsInv, TerminateInv, FindUpdateInv, ReadIdInv,
     ReadThreadInv, ReadTextInv, ParseEndsInv, RebootInv
  DEF Poller, Parser
<1>3. CASE Sending
  BY <1>3, SendOwnInv, SendDataInv, SendEndsInv DEF Sending
<1>4. CASE Others
  BY <1>4, SkipInv, RequestLostInv, PollFailsInv, SendOtherInv, PowerLossInv DEF Others
<1>5. CASE RaceEnds \/ Post
  BY <1>5, RaceEndsInv, PostInv
<1>6. CASE UNCHANGED vars
  <2>1. UNCHANGED <<posted, confirmed, pc, doing, last_update_id, muted, response_buf,
                    response_len, p, incoming, sender, reply, busy, copied, piece, raced,
                    events, runs, everRun, reboots, calm>>
    BY <1>6 DEF vars, server, buffer, handler, history
  <2>2. TypeOK' /\ AskedInv'
    BY <2>1 DEF IInv, TypeOK, AskedInv, Asked
  <2>3. BufferInv' /\ HandlerInv'
    BY <2>1, SetsKept DEF IInv, BufferInv, HandlerInv, FromSend
  <2>4. SendInv' /\ KeyedInv'
    BY <2>1 DEF IInv, SendInv, OwnReplyInv, Awaited, FromSend, Keyed, KeyedInv, Deceptive,
                Reach, Found
  <2> QED
    BY <2>2, <2>3, <2>4 DEF IInv
<1> QED
  BY <1>1, <1>2, <1>3, <1>4, <1>5, <1>6 DEF Next

\* The invariant holds of every run.
LEMMA Invariant == Spec => []IInv
<1>1. Init => IInv
  BY InitInv
<1>2. IInv /\ [Next]_vars => IInv'
  BY StepInv
<1> QED
  BY <1>1, <1>2, PTL DEF Spec

\* Whatever comes in, in whatever pieces, into the buffer two tasks share, each
\* variable of telegram_client.c keeps its type until the race: as long as no two
\* tasks have been in http_event_handler at once, the NUL that poll_updates writes
\* behind the response is written within the buffer, although another task may
\* have cleared or increased response_len since it was checked.
THEOREM TelegramTypeCorrect == Spec => []TypeOK
<1>1. IInv => TypeOK
  BY DEF IInv
<1> QED
  BY <1>1, Invariant, PTL

\* The buffer is a string, as its last cell is never stored to: no strstr of
\* poll_updates reads past the end, unless two tasks were in http_event_handler
\* at once.
THEOREM BufferIsTerminated == Spec => []Terminated
<1>1. IInv => Terminated
  <2> SUFFICES ASSUME IInv PROVE Visible(p) # p .. Cap
    BY DEF Terminated
  <2>1. p \in 1 .. Cap /\ Cap \in Nat /\ response_buf[Cap] = Nul
    BY Bounds DEF IInv, TypeOK, BufferInv
  <2>2. Cap \in p .. Cap /\ Cap \notin Visible(p)
    BY <2>1 DEF Visible
  <2> QED
    BY <2>2
<1> QED
  BY <1>1, Invariant, PTL

\* The answer to /help, which contains "/mute", and the test alarm, which would
\* be answered by another one, go through the buffer poll_updates reads and are
\* never executed: the poller acts on posted messages only, although other tasks
\* write into the buffer between two of its searches.  Except after two tasks
\* were in http_event_handler at once.
THEOREM OwnAnswersAreIgnored == Spec => []ActsOnRequest
<1>1. IInv => ActsOnRequest
  BY DEF IInv, AskedInv, ActsOnRequest
<1> QED
  BY <1>1, Invariant, PTL

\* What holds while updates come one at a time holds of every run.
LEMMA CalmInvariant == Spec => [](IInv /\ CalmInv)
<1>1. Init => IInv /\ CalmInv
  BY InitInv, InitCalm
<1>2. IInv /\ CalmInv /\ [Next]_vars => (IInv /\ CalmInv)'
  BY StepInv, StepCalm
<1> QED
  BY <1>1, <1>2, PTL DEF Spec

\* As long as no response held two updates, and no other task sent during a poll,
\* the offset poll_updates asks with makes the server forget no command that has
\* not been executed, however often a request fails, the power does, or /reboot
\* restarts the chip.  Both conditions are needed.
THEOREM NoCommandIsLost == Spec => []NoCommandLost
<1>1. IInv /\ CalmInv => NoCommandLost
  <2> SUFFICES ASSUME IInv, CalmInv, calm, NEW u \in 1 .. confirmed, Command(u)
               PROVE  u \in everRun
    BY DEF NoCommandLost
  <2>1. /\ confirmed \in Nat /\ Len(posted) \in Nat /\ RecordInv
    BY Bounds DEF IInv, TypeOK, CalmInv
  <2>2. u \in 1 .. Len(posted) /\ u <= confirmed
    BY <2>1 DEF RecordInv
  <2> QED
    BY <2>1, <2>2 DEF RecordInv
<1> QED
  BY <1>1, CalmInvariant, PTL

\* As long as that holds, poll_updates executes no command twice between two
\* restarts of the chip: what its own answers leave in the buffer is never the
\* stale text of an update, and an update it has seen is not delivered again.  An
\* update that was not confirmed before a restart runs again after it.
THEOREM CommandsRunOnce == Spec => []ExecutedOnce
<1>1. IInv /\ CalmInv => ExecutedOnce
  BY DEF CalmInv, RecordInv, ExecutedOnce
<1> QED
  BY <1>1, CalmInvariant, PTL
=============================================================================
