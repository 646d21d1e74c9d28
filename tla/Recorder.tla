------------------------------ MODULE Recorder ------------------------------
(***************************************************************************)
(* The book recorder (recorder/book_recorder.py, recorder/__main__.py) and *)
(* the exchange's feed, which is external.                                 *)
(*                                                                         *)
(* Every recorded market shares two subscriptions, one for the books and   *)
(* one for the trade prints, each numbered from 1 on every connection.     *)
(* The feed is in order; a message can be lost or sent twice.  The         *)
(* recorder's code is synchronous between two messages, so handling one    *)
(* message, the writes it makes included, is one action.                   *)
(***************************************************************************)
EXTENDS Integers, Sequences, FiniteSets

CONSTANTS
  Markets,      \* markets the exchange lists
  Moving,       \* bound: those whose book changes and that print
  FlushEvery,   \* FLUSH_EVERY: messages in a batch
  PrintPrices,  \* prices, in cents, at which the market can print
  MaxBook,      \* bound: resting size of a book
  MaxChanges,   \* bound: book changes in one behaviour
  MaxPrints,    \* bound: prints in one behaviour
  MaxConns,     \* bound: connections in one behaviour
  MaxDays,      \* bound: the clock when it counts days, see content
  MaxMinutes,   \* bound: the clock when it counts minutes
  FeedEnv,      \* faults of this instance, see FeedFaults
  MaxFaults     \* bound: faults in one behaviour

FeedFaults ==
  {"lost",        \* the server drops a message
   "twice",       \* the server sends a message twice
   "dbdown",      \* a write fails in all WRITE_ATTEMPTS attempts
   "disconnect",  \* the socket drops
   "kill",        \* the recorder's process dies with its buffer
   "raise"}       \* the cycle that judges orders fails before it commits

ASSUME RecorderAssumption ==
  /\ Moving \subseteq Markets
  /\ FlushEvery \in Nat \ {0}
  /\ PrintPrices \subseteq 0..100
  /\ {MaxBook, MaxChanges, MaxPrints, MaxConns, MaxDays, MaxMinutes, MaxFaults} \subseteq Nat
  /\ FeedEnv \subseteq FeedFaults

VARIABLES
  now,      \* the clock
  content,  \* what the exchange's messages are in this behaviour besides
            \* snapshots: "delta" or "trade"
  feed,     \* the exchange: its books, and the current connection
  prints,   \* every trade the market printed, recorded or not
  rec,      \* the recorder's process
  tape,     \* orderbook_delta_raw, in id order
  gaps,     \* orderbook_gaps: the times a gap row was written
  faults    \* faults so far

recorderVars == <<now, content, feed, prints, rec, tape, gaps, faults>>

Channels == {"book", "trade"}
RowTypes == {"snapshot", "delta", "trade"}
ChannelOf(type) == IF type = "trade" THEN "trade" ELSE "book"

\* Sids differ between the channels and between connections, as replay.py
\* takes for granted; 0 is no sid.
Sid(conn, channel) == 2 * conn + (IF channel = "trade" THEN 1 ELSE 0)

Row == [market : Markets, type : RowTypes, sid : Nat, seq : Nat, at : Nat,
        change : Int, price : PrintPrices \cup {0}, payload : BOOLEAN, book : Nat]

\* RecorderStats, as far as anything but a log line reads it.
EmptyStats == [messages |-> 0, written |-> 0, lost |-> 0]
NoneSeen   == [c \in Channels |-> 0]
NoRecorder == [state |-> "off", watched |-> {}, last |-> NoneSeen, buffer |-> <<>>,
               stats |-> EmptyStats, exit |-> 0]
Started    == [NoRecorder EXCEPT !.watched = Markets, !.state = "down"]

\* Book changes matter over days, to maintenance and replay; prints matter
\* over minutes, to the orders that rest against them.
MaxTime == IF content = "delta" THEN MaxDays ELSE MaxMinutes

Fault(kind) ==
  /\ kind \in FeedEnv
  /\ faults < MaxFaults
  /\ faults' = faults + 1

-----------------------------------------------------------------------------
(***************************************************************************)
(* Writes.  One of these is one _attempt_write: durable, or refused after  *)
(* three attempts, and never an exception.                                 *)
(***************************************************************************)

\* Mutant of Flush: a batch the database refused is forgotten uncounted.
FlushSilently(r, durable) ==
  [r EXCEPT !.buffer = <<>>,
            !.stats.written = IF durable THEN @ + Len(r.buffer) ELSE @]

\* _flush: the batch is written whole, or dropped and counted.  An empty
\* buffer is not written at all.
Flush(r, durable) ==
  IF r.buffer = <<>> THEN r
  ELSE IF durable THEN [r EXCEPT !.buffer = <<>>, !.stats.written = @ + Len(r.buffer)]
  ELSE [r EXCEPT !.buffer = <<>>, !.stats.lost = @ + Len(r.buffer)]

Stored(r, durable) == IF durable THEN r.buffer ELSE <<>>

\* The tape's rows are stored as they were received.
AppendBatch(r, durable) == tape' = tape \o Stored(r, durable)

\* The database accepts this step's writes, or refuses some of them.
Database(ok) ==
  \/ (\A w \in DOMAIN ok : ok[w]) /\ UNCHANGED faults
  \/ (\E w \in DOMAIN ok : ~ok[w]) /\ Fault("dbdown")

-----------------------------------------------------------------------------
(***************************************************************************)
(* Messages.                                                               *)
(***************************************************************************)

\* Does the number break the sequence of its subscription?
Breaks(r, row) ==
  LET last == r.last[ChannelOf(row.type)]
  IN last # 0 /\ row.seq # last + 1

\* handle(): count the message, remember its number, and buffer the row
\* whatever the sequence says.
Buffered(r, row) ==
  [r EXCEPT !.stats.messages = @ + 1,
            !.last[ChannelOf(row.type)] = row.seq,
            !.buffer = Append(@, row)]

\* Mutant of Full: the batch is written one message late.
FullLate(r) == Len(r.buffer) > FlushEvery

\* A batch is written when it holds FLUSH_EVERY messages.
Full(r) == Len(r.buffer) >= FlushEvery

\* One message is handled: the gap row if there is a break, then the batch if
\* it is full.  Each write can be refused on its own.
HandleOne(row) ==
  \E gapOk, batchOk \in BOOLEAN :
    LET r == Buffered(rec, row)
    IN /\ Database([gap |-> gapOk \/ ~Breaks(rec, row), batch |-> batchOk \/ ~Full(r)])
       /\ gaps' = IF Breaks(rec, row) /\ gapOk THEN gaps \cup {now} ELSE gaps
       /\ IF Full(r) THEN rec' = Flush(r, batchOk) /\ AppendBatch(r, batchOk)
          ELSE rec' = r /\ UNCHANGED tape

\* The same message twice in a row: the second one repeats a number.
HandleTwice(row) ==
  LET once  == Buffered(rec, row)
      r1    == IF Full(once) THEN Flush(once, TRUE) ELSE once
      twice == Buffered(r1, row)
      r2    == IF Full(twice) THEN Flush(twice, TRUE) ELSE twice
      all   == IF Full(once) THEN once.buffer \o (IF Full(twice) THEN twice.buffer ELSE <<>>)
               ELSE IF Full(twice) THEN twice.buffer ELSE <<>>
  IN /\ rec' = r2
     /\ tape' = tape \o all
     /\ gaps' = gaps \cup {now}

Listening == rec.state = "up" /\ feed.up

RowOf(m, type, change, price, book) ==
  LET channel == ChannelOf(type)
  IN [market |-> m, type |-> type, sid |-> Sid(feed.conn, channel),
      seq |-> feed.sent[channel] + 1, at |-> now, change |-> change,
      price |-> price, payload |-> TRUE, book |-> book]

\* The exchange sends one message on the connection and it arrives, is lost,
\* or arrives twice.
Emit(m, type, change, price, book, f) ==
  LET row == RowOf(m, type, change, price, book)
  IN /\ feed' = [f EXCEPT !.sent[ChannelOf(type)] = @ + 1]
     /\ \/ HandleOne(row)
        \/ /\ Fault("lost")
           /\ UNCHANGED <<rec, tape, gaps>>
        \/ /\ Fault("twice")
           /\ HandleTwice(row)

\* After subscribing, the exchange sends each market's full book.
Snapshot(m) ==
  /\ Listening
  /\ m \in feed.owed
  /\ Emit(m, "snapshot", 0, 0, feed.book[m], [feed EXCEPT !.owed = @ \ {m}])
  /\ UNCHANGED <<now, content, prints>>

\* A market's book changes.  The recorder hears of it when it is subscribed
\* and has been sent the market's snapshot.
BookChanges(m, change) ==
  LET level == feed.book[m] + change
      f     == [feed EXCEPT !.book[m] = level, !.moves = @ + 1]
  IN /\ content = "delta"
     /\ feed.moves < MaxChanges
     /\ level \in 0..MaxBook
     /\ IF Listening /\ m \in rec.watched \ feed.owed
        THEN Emit(m, "delta", change, 0, level, f)
        ELSE feed' = f /\ UNCHANGED <<rec, tape, gaps, faults>>
     /\ UNCHANGED <<now, content, prints>>

\* One contract trades.
Trades(m, price) ==
  LET f == [feed EXCEPT !.moves = @ + 1]
  IN /\ content = "trade"
     /\ feed.moves < MaxPrints
     /\ prints' = Append(prints, [market |-> m, at |-> now, price |-> price])
     /\ IF Listening /\ m \in rec.watched
        THEN Emit(m, "trade", 0, price, 0, f)
        ELSE feed' = f /\ UNCHANGED <<rec, tape, gaps, faults>>
     /\ UNCHANGED <<now, content>>

-----------------------------------------------------------------------------
(***************************************************************************)
(* The recorder's process: main() and BookRecorder.run.                    *)
(***************************************************************************)

\* main(): with nothing to record the run fails at once.  Which markets are
\* recorded is markets_to_record's answer, see RecorderList; here all or none.
\* A behaviour that counts minutes is within one run of the recorder, a bound.
StartRecorder ==
  /\ content = "delta"
  /\ rec.state \in {"off", "done"}
  /\ feed.conn < MaxConns
  /\ \/ rec' = Started
     \/ rec' = [NoRecorder EXCEPT !.state = "done", !.exit = 1]
  /\ UNCHANGED <<now, content, feed, prints, tape, gaps, faults>>

\* A connection opens and both channels are subscribed from scratch.
Connect ==
  /\ rec.state = "down"
  /\ feed.conn < MaxConns
  /\ feed' = [feed EXCEPT !.conn = @ + 1, !.up = TRUE, !.owed = rec.watched, !.sent = NoneSeen]
  /\ rec' = [rec EXCEPT !.state = "up"]
  /\ UNCHANGED <<now, content, prints, tape, gaps, faults>>

Hangup == feed' = [feed EXCEPT !.up = FALSE, !.owed = {}]

\* The socket drops: what is buffered is written, and sequence tracking starts
\* over, since numbers are per subscription.
Disconnect ==
  /\ rec.state = "up"
  /\ Hangup
  /\ \E ok \in BOOLEAN :
       /\ ok \/ ("dbdown" \in FeedEnv /\ rec.buffer # <<>>)
       /\ Fault("disconnect")
       /\ LET r == Flush(rec, ok)
          IN rec' = [r EXCEPT !.state = "down", !.last = NoneSeen]
       /\ AppendBatch(rec, ok)
  /\ UNCHANGED <<now, content, prints, gaps>>

\* The duration elapses: a final flush, and a run that wrote nothing fails.
Finish ==
  /\ rec.state \in {"up", "down"}
  /\ Hangup
  /\ \E ok \in BOOLEAN :
       /\ Database([batch |-> ok \/ rec.buffer = <<>>])
       /\ LET r == Flush(rec, ok)
          IN rec' = [r EXCEPT !.state = "done", !.exit = IF r.stats.written = 0 THEN 1 ELSE 0]
       /\ AppendBatch(rec, ok)
  /\ UNCHANGED <<now, content, prints, gaps>>

\* The host or its job goes away, and the buffer with it.
KillRecorder ==
  /\ rec.state \in {"up", "down"}
  /\ Hangup
  /\ Fault("kill")
  /\ rec' = NoRecorder
  /\ UNCHANGED <<now, content, prints, tape, gaps>>

\* Sessions end the day they begin, so a day passes only between two runs of
\* the recorder.
Tick ==
  /\ now < MaxTime
  /\ content = "delta" => rec.state \in {"off", "done"}
  /\ now' = now + 1
  /\ UNCHANGED <<content, feed, prints, rec, tape, gaps, faults>>

RecorderInit ==
  /\ now = 0
  /\ content \in {"delta", "trade"}
  /\ feed = [conn |-> 0, up |-> FALSE, owed |-> {}, sent |-> NoneSeen,
             book |-> [m \in Markets |-> 1], moves |-> 0]
  /\ prints = <<>>
  /\ rec = Started
  /\ tape = <<>>
  /\ gaps = {}
  /\ faults = 0

RecorderNext ==
  \/ \E m \in Markets : Snapshot(m)
  \/ \E m \in Moving, c \in {-1, 1} : BookChanges(m, c)
  \/ \E m \in Moving, p \in PrintPrices : Trades(m, p)
  \/ StartRecorder
  \/ Connect
  \/ Disconnect
  \/ Finish
  \/ KillRecorder
  \/ Tick

-----------------------------------------------------------------------------
\* Every variable holds a value of its domain.
RecorderTypeOK ==
  /\ now \in 0..MaxTime
  /\ content \in {"delta", "trade"}
  /\ feed.conn \in 0..MaxConns
  /\ feed.owed \subseteq rec.watched
  /\ rec.state \in {"off", "down", "up", "done"}
  /\ rec.exit \in {0, 1}
  /\ rec.buffer \in Seq(Row) /\ Len(rec.buffer) < FlushEvery
  /\ tape \in Seq(Row)
  /\ gaps \subseteq 0..now
  /\ faults \in 0..MaxFaults

\* "Losing a batch is survivable; losing it silently is the bug this counter
\* exists to prevent": every message a recorder has handled is in the tape's
\* count, in the loss count, or still in its buffer.
NothingLostSilently ==
  rec.stats.messages = rec.stats.written + rec.stats.lost + Len(rec.buffer)
=============================================================================
