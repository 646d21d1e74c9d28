------------------------------ MODULE TapeProofs ------------------------------
(***************************************************************************)
(* Proofs about the recorder, its tape, the shadow orders judged on it and *)
(* the books replayed from it: for every batch size, every number of       *)
(* faults of every kind and every interleaving with maintenance and the    *)
(* judging cycles.                                                         *)
(***************************************************************************)
EXTENDS MCTape, SumProofs, TLAPS, FiniteSetTheorems, SequenceTheorems

-----------------------------------------------------------------------------
(***************************************************************************)
(* The recorder: every message is accounted for.                           *)
(***************************************************************************)

Stats    == [messages : Nat, written : Nat, lost : Nat]
Process  == [state : {"off", "down", "up", "done"}, watched : SUBSET Markets,
             last : [Channels -> Nat], buffer : Seq(Row), stats : Stats, exit : {0, 1}]
Exchange == [conn : Nat, up : BOOLEAN, owed : SUBSET Markets, sent : [Channels -> Nat],
             book : [Markets -> Nat], moves : Nat]

\* What is written, lost and buffered adds up to what was handled.
Counted(r) == r.stats.messages = r.stats.written + r.stats.lost + Len(r.buffer)

\* Nothing is owed to a recorder that is not connected.
Hungup == feed.owed \subseteq rec.watched /\ (rec.state # "up" => feed.owed = {})

RecorderInv ==
  /\ now \in 0..MaxTime
  /\ content \in {"delta", "trade"}
  /\ feed \in Exchange /\ feed.conn <= MaxConns
  /\ rec \in Process /\ Len(rec.buffer) < FlushEvery /\ Counted(rec)
  /\ tape \in Seq(Row)
  /\ gaps \subseteq 0..now
  /\ faults \in 0..MaxFaults
  /\ Hungup

\* What is assumed of the constants, one fact at a time.
LEMMA Constants ==
  /\ FlushEvery \in Nat /\ FlushEvery > 0
  /\ {MaxBook, MaxChanges, MaxPrints, MaxConns, MaxDays, MaxMinutes, MaxFaults} \subseteq Nat
  /\ Moving \subseteq Markets
BY RecorderAssumption

\* The fields of a process, and of its counts.
LEMMA ProcessFields ==
  ASSUME NEW r \in Process
  PROVE  /\ r.buffer \in Seq(Row) /\ Len(r.buffer) \in Nat
         /\ r.last \in [Channels -> Nat] /\ r.stats \in Stats
         /\ r.stats.messages \in Nat /\ r.stats.written \in Nat /\ r.stats.lost \in Nat
         /\ r.state \in {"off", "down", "up", "done"} /\ r.watched \subseteq Markets
<1>1. r.buffer \in Seq(Row) /\ r.stats \in Stats /\ r.last \in [Channels -> Nat]
      /\ r.state \in {"off", "down", "up", "done"} /\ r.watched \subseteq Markets
  BY DEF Process
<1>2. Len(r.buffer) \in Nat
  BY <1>1
<1>3. r.stats.messages \in Nat /\ r.stats.written \in Nat /\ r.stats.lost \in Nat
  BY <1>1 DEF Stats
<1>4. QED
  BY <1>1, <1>2, <1>3

\* Handling a message counts it and buffers its row.
LEMMA Buffering ==
  ASSUME NEW r \in Process, Counted(r), NEW row \in Row
  PROVE  /\ Buffered(r, row) \in Process /\ Counted(Buffered(r, row))
         /\ Buffered(r, row).buffer = Append(r.buffer, row)
         /\ Buffered(r, row).state = r.state /\ Buffered(r, row).watched = r.watched
<1>1. PICK st : st = [r.stats EXCEPT !.messages = @ + 1]
  OBVIOUS
<1>2. PICK l \in [Channels -> Nat] : l = [r.last EXCEPT ![ChannelOf(row.type)] = row.seq]
  <2>1. row.seq \in Nat
    BY DEF Row
  <2>2. QED BY <2>1, ProcessFields
<1>3. PICK b \in Seq(Row) : b = Append(r.buffer, row) /\ Len(b) = Len(r.buffer) + 1
  <2>1. r.buffer \in Seq(Row)
    BY ProcessFields
  <2>2. Append(r.buffer, row) \in Seq(Row) /\ Len(Append(r.buffer, row)) = Len(r.buffer) + 1
    BY <2>1, AppendProperties
  <2>3. QED BY <2>2
<1>4. st \in Stats /\ st.messages = r.stats.messages + 1
      /\ st.written = r.stats.written /\ st.lost = r.stats.lost
  <2>1. r.stats \in Stats
    BY ProcessFields
  <2>2. QED BY <1>1, <2>1 DEF Stats
<1>5. Buffered(r, row) = [r EXCEPT !.stats = st, !.last = l, !.buffer = b]
  BY <1>1, <1>2, <1>3 DEF Buffered, Process
<1>6. PICK q : q = Buffered(r, row)
  OBVIOUS
<1>7. /\ q \in Process /\ q.stats = st /\ q.buffer = b
      /\ q.state = r.state /\ q.watched = r.watched
  BY <1>4, <1>5, <1>6 DEF Process
<1>8. Counted(q)
  <2>1. r.stats.messages = r.stats.written + r.stats.lost + Len(r.buffer)
    BY DEF Counted
  <2>2. st.messages = st.written + st.lost + Len(b)
    <3>1. PICK w \in Nat, x \in Nat, y \in Nat, z \in Nat :
            w = r.stats.messages /\ x = r.stats.written /\ y = r.stats.lost /\ z = Len(r.buffer)
      BY ProcessFields
    <3>2. st.messages = w + 1 /\ st.written = x /\ st.lost = y /\ w = x + y + z
      BY <1>4, <2>1, <3>1
    <3>3. Len(b) = z + 1
      BY <1>3, <3>1
    <3>4. QED BY <3>2, <3>3
  <2>3. QED BY <1>7, <2>2 DEF Counted
<1>9. QED
  BY <1>3, <1>6, <1>7, <1>8

\* A flush empties the buffer into one of the two counts.
LEMMA Flushing ==
  ASSUME NEW r \in Process, Counted(r), NEW ok \in BOOLEAN
  PROVE  /\ Flush(r, ok) \in Process /\ Counted(Flush(r, ok))
         /\ Flush(r, ok).buffer = <<>>
         /\ Flush(r, ok).state = r.state /\ Flush(r, ok).watched = r.watched
<1>1. PICK n \in Nat : n = Len(r.buffer)
  BY ProcessFields
<1>2. CASE r.buffer = <<>>
  BY <1>2 DEF Flush
<1>3. CASE r.buffer # <<>>
  <2>1. PICK st : st = IF ok THEN [r.stats EXCEPT !.written = @ + n]
                       ELSE [r.stats EXCEPT !.lost = @ + n]
    OBVIOUS
  <2>2. st \in Stats /\ st.messages = r.stats.messages
        /\ st.written + st.lost = r.stats.written + r.stats.lost + n
    <3>1. CASE ok
      <4>1. st = [r.stats EXCEPT !.written = @ + n]
        BY <2>1, <3>1
      <4>2. QED BY <4>1, ProcessFields DEF Stats
    <3>2. CASE ~ok
      <4>1. st = [r.stats EXCEPT !.lost = @ + n]
        BY <2>1, <3>2
      <4>2. QED BY <4>1, ProcessFields DEF Stats
    <3>3. QED BY <3>1, <3>2
  <2>3. PICK q : q = Flush(r, ok)
    OBVIOUS
  <2>4. q = [r EXCEPT !.buffer = <<>>, !.stats = st]
    <3>1. CASE ok
      <4>1. q = [r EXCEPT !.buffer = <<>>, !.stats.written = @ + n]
        BY <1>1, <1>3, <2>3, <3>1 DEF Flush
      <4>2. st = [r.stats EXCEPT !.written = @ + n]
        BY <2>1, <3>1
      <4>3. QED BY <4>1, <4>2 DEF Process
    <3>2. CASE ~ok
      <4>1. q = [r EXCEPT !.buffer = <<>>, !.stats.lost = @ + n]
        BY <1>1, <1>3, <2>3, <3>2 DEF Flush
      <4>2. st = [r.stats EXCEPT !.lost = @ + n]
        BY <2>1, <3>2
      <4>3. QED BY <4>1, <4>2 DEF Process
    <3>3. QED BY <3>1, <3>2
  <2>5. /\ q \in Process /\ q.stats = st /\ q.buffer = <<>>
        /\ q.state = r.state /\ q.watched = r.watched
    <3>1. <<>> \in Seq(Row)
      OBVIOUS
    <3>2. QED BY <2>2, <2>4, <3>1 DEF Process
  <2>6. Counted(q)
    <3>1. r.stats.messages = r.stats.written + r.stats.lost + n
      BY <1>1 DEF Counted
    <3>2. st.messages = st.written + st.lost + 0
      <4>1. st.written \in Nat /\ st.lost \in Nat
        BY <2>2 DEF Stats
      <4>2. QED BY <2>2, <3>1, <4>1
    <3>3. Len(q.buffer) = 0
      BY <2>5
    <3>4. QED BY <2>5, <3>2, <3>3 DEF Counted
  <2>7. QED BY <2>3, <2>5, <2>6
<1>4. QED
  BY <1>2, <1>3

\* A process that has accounted for everything and has room in its batch.
Sound(r) == r \in Process /\ Counted(r) /\ Len(r.buffer) < FlushEvery

\* One message: the batch is written when that fills it.
LEMMA Batching ==
  ASSUME NEW r, Sound(r), NEW row \in Row, NEW ok \in BOOLEAN, NEW q,
         q = IF Full(Buffered(r, row)) THEN Flush(Buffered(r, row), ok) ELSE Buffered(r, row)
  PROVE  Sound(q) /\ q.state = r.state /\ q.watched = r.watched
<1>1. PICK b : b = Buffered(r, row)
  OBVIOUS
<1>2. b \in Process /\ Counted(b) /\ b.state = r.state /\ b.watched = r.watched
  BY <1>1, Buffering DEF Sound
<1>3. CASE Full(b)
  <2>1. q = Flush(b, ok)
    BY <1>1, <1>3
  <2>2. q \in Process /\ Counted(q) /\ q.buffer = <<>>
        /\ q.state = b.state /\ q.watched = b.watched
    BY <1>2, <2>1, Flushing
  <2>3. Len(q.buffer) = 0
    BY <2>2, EmptySeq
  <2>4. QED BY <1>2, <2>2, <2>3, Constants DEF Sound
<1>4. CASE ~Full(b)
  <2>1. q = b
    BY <1>1, <1>4
  <2>2. Len(b.buffer) \in Nat /\ ~(Len(b.buffer) >= FlushEvery)
    BY <1>2, <1>4, ProcessFields DEF Full
  <2>3. Len(b.buffer) < FlushEvery
    BY <2>2, Constants
  <2>4. QED BY <1>2, <2>1, <2>3 DEF Sound
<1>5. QED
  BY <1>3, <1>4

\* What the invariant says of the recorder's own state.
Recording ==
  /\ now \in Nat /\ Sound(rec) /\ tape \in Seq(Row)
  /\ gaps \subseteq 0..now /\ faults \in 0..MaxFaults

\* A fault keeps to its bound.
LEMMA Faults ==
  ASSUME faults \in 0..MaxFaults, NEW kind, Fault(kind)
  PROVE  faults' \in 0..MaxFaults
BY Constants DEF Fault

\* The rows of a batch are rows.
LEMMA BatchStored ==
  ASSUME tape \in Seq(Row), NEW r \in Process, NEW ok \in BOOLEAN
  PROVE  tape \o Stored(r, ok) \in Seq(Row)
<1>1. Stored(r, ok) \in Seq(Row)
  BY ProcessFields, EmptySeq DEF Stored
<1>2. QED
  BY <1>1, ConcatProperties

\* Handling a message keeps all of it, whichever of its writes is refused.
LEMMA HandlingOne ==
  ASSUME Recording, NEW row \in Row, HandleOne(row), now' = now
  PROVE  Recording' /\ rec'.state = rec.state /\ rec'.watched = rec.watched
<1>1. PICK gapOk \in BOOLEAN, batchOk \in BOOLEAN :
        LET r == Buffered(rec, row)
        IN /\ Database([gap |-> gapOk \/ ~Breaks(rec, row), batch |-> batchOk \/ ~Full(r)])
           /\ gaps' = IF Breaks(rec, row) /\ gapOk THEN gaps \cup {now} ELSE gaps
           /\ IF Full(r) THEN rec' = Flush(r, batchOk) /\ AppendBatch(r, batchOk)
              ELSE rec' = r /\ UNCHANGED tape
  BY DEF HandleOne
<1>2. faults' \in 0..MaxFaults
  <2>1. faults' = faults \/ Fault("dbdown")
    BY <1>1 DEF Database
  <2>2. QED BY <2>1, Faults DEF Recording
<1>3. gaps' \subseteq 0..now
  BY <1>1 DEF Recording
<1>4. PICK b : b = Buffered(rec, row)
  OBVIOUS
<1>5. b \in Process
  BY <1>4, Buffering DEF Recording, Sound
<1>6. /\ rec' = IF Full(b) THEN Flush(b, batchOk) ELSE b
      /\ tape' = IF Full(b) THEN tape \o Stored(b, batchOk) ELSE tape
  BY <1>1, <1>4 DEF AppendBatch
<1>7. Sound(rec') /\ rec'.state = rec.state /\ rec'.watched = rec.watched
  BY <1>4, <1>6, Batching DEF Recording
<1>8. tape' \in Seq(Row)
  BY <1>5, <1>6, BatchStored DEF Recording
<1>9. QED
  <2>1. Sound(rec)'
    BY <1>7 DEF Sound, Counted
  <2>2. QED BY <1>2, <1>3, <1>7, <1>8, <2>1 DEF Recording

\* So does handling it twice.
LEMMA HandlingTwice ==
  ASSUME Recording, NEW row \in Row, HandleTwice(row), faults' \in 0..MaxFaults, now' = now
  PROVE  Recording' /\ rec'.state = rec.state /\ rec'.watched = rec.watched
<1>1. PICK once : once = Buffered(rec, row)
  OBVIOUS
<1>2. PICK r1 : r1 = IF Full(once) THEN Flush(once, TRUE) ELSE once
  OBVIOUS
<1>3. PICK twice : twice = Buffered(r1, row)
  OBVIOUS
<1>4. PICK r2 : r2 = IF Full(twice) THEN Flush(twice, TRUE) ELSE twice
  OBVIOUS
<1>5. PICK all : all = IF Full(once)
                       THEN once.buffer \o (IF Full(twice) THEN twice.buffer ELSE <<>>)
                       ELSE IF Full(twice) THEN twice.buffer ELSE <<>>
  OBVIOUS
<1>6. rec' = r2 /\ tape' = tape \o all /\ gaps' = gaps \cup {now}
  BY <1>1, <1>2, <1>3, <1>4, <1>5 DEF HandleTwice
<1>7. Sound(r1) /\ r1.state = rec.state /\ r1.watched = rec.watched
  BY <1>1, <1>2, Batching DEF Recording
<1>8. Sound(r2) /\ r2.state = r1.state /\ r2.watched = r1.watched
  BY <1>3, <1>4, <1>7, Batching
<1>9. once.buffer \in Seq(Row) /\ twice.buffer \in Seq(Row)
  BY <1>1, <1>3, <1>7, Buffering, ProcessFields DEF Recording, Sound
<1>10. all \in Seq(Row)
  <2>1. <<>> \in Seq(Row)
    BY EmptySeq
  <2>2. once.buffer \o twice.buffer \in Seq(Row) /\ once.buffer \o <<>> \in Seq(Row)
    BY <1>9, <2>1, ConcatProperties
  <2>3. QED BY <1>5, <1>9, <2>1, <2>2
<1>11. tape' \in Seq(Row)
  BY <1>6, <1>10, ConcatProperties DEF Recording
<1>12. Sound(rec)'
  BY <1>6, <1>8 DEF Sound, Counted
<1>13. QED
  BY <1>6, <1>7, <1>8, <1>11, <1>12 DEF Recording

\* The fields of the exchange.
LEMMA ExchangeFields ==
  ASSUME NEW f \in Exchange
  PROVE  /\ f.conn \in Nat /\ f.owed \subseteq Markets /\ f.up \in BOOLEAN
         /\ f.sent \in [Channels -> Nat] /\ f.book \in [Markets -> Nat] /\ f.moves \in Nat
BY DEF Exchange

\* What the exchange sends is a row.
LEMMA SentRow ==
  ASSUME feed \in Exchange, now \in Nat,
         NEW m \in Markets, NEW type \in RowTypes, NEW change \in Int,
         NEW price \in PrintPrices \cup {0}, NEW book \in Nat
  PROVE  RowOf(m, type, change, price, book) \in Row
<1>1. PICK c \in Channels : c = ChannelOf(type)
  BY DEF ChannelOf, Channels
<1>2. PICK sid \in Nat : sid = Sid(feed.conn, c)
  BY ExchangeFields DEF Sid
<1>3. PICK seq \in Nat : seq = feed.sent[c] + 1
  BY ExchangeFields
<1>4. PICK whole \in BOOLEAN : whole = TRUE
  OBVIOUS
<1>5. RowOf(m, type, change, price, book) =
        [market |-> m, type |-> type, sid |-> sid, seq |-> seq, at |-> now,
         change |-> change, price |-> price, payload |-> whole, book |-> book]
  BY <1>1, <1>2, <1>3, <1>4 DEF RowOf
<1>6. QED
  BY <1>5 DEF Row

\* Sending a message keeps it too, whatever becomes of the message.
LEMMA Emitting ==
  ASSUME Recording, feed \in Exchange, now' = now,
         NEW m \in Markets, NEW type \in RowTypes, NEW change \in Int,
         NEW price \in PrintPrices \cup {0}, NEW book \in Nat,
         NEW f \in Exchange, Emit(m, type, change, price, book, f)
  PROVE  /\ Recording' /\ rec'.state = rec.state /\ rec'.watched = rec.watched
         /\ feed' \in Exchange /\ feed'.conn = f.conn /\ feed'.owed = f.owed
         /\ feed'.book = f.book /\ feed'.up = f.up
<1>1. PICK row \in Row : row = RowOf(m, type, change, price, book)
  BY SentRow DEF Recording
<1>2. /\ feed' = [f EXCEPT !.sent[ChannelOf(type)] = @ + 1]
      /\ \/ HandleOne(row)
         \/ Fault("lost") /\ UNCHANGED <<rec, tape, gaps>>
         \/ Fault("twice") /\ HandleTwice(row)
  BY <1>1 DEF Emit
<1>3. /\ feed' \in Exchange /\ feed'.conn = f.conn /\ feed'.owed = f.owed
      /\ feed'.book = f.book /\ feed'.up = f.up
  <2>1. PICK sent \in [Channels -> Nat] : sent = [f.sent EXCEPT ![ChannelOf(type)] = @ + 1]
    <3>1. PICK old \in [Channels -> Nat] : old = f.sent
      BY ExchangeFields
    <3>2. PICK c \in Channels : c = ChannelOf(type)
      BY DEF ChannelOf, Channels
    <3>3. [old EXCEPT ![c] = @ + 1] \in [Channels -> Nat]
      OBVIOUS
    <3>4. QED BY <3>1, <3>2, <3>3
  <2>2. feed' = [f EXCEPT !.sent = sent]
    BY <1>2, <2>1 DEF Exchange
  <2>3. QED BY <2>2 DEF Exchange
<1>4. CASE HandleOne(row)
  BY <1>3, <1>4, HandlingOne
<1>5. CASE Fault("lost") /\ UNCHANGED <<rec, tape, gaps>>
  <2>1. faults' \in 0..MaxFaults
    BY <1>5, Faults DEF Recording
  <2>2. Sound(rec)'
    BY <1>5 DEF Recording, Sound, Counted
  <2>3. QED BY <1>3, <1>5, <2>1, <2>2 DEF Recording
<1>6. CASE Fault("twice") /\ HandleTwice(row)
  <2>1. faults' \in 0..MaxFaults
    BY <1>6, Faults DEF Recording
  <2>2. QED BY <1>3, <1>6, <2>1, HandlingTwice
<1>7. QED
  BY <1>2, <1>4, <1>5, <1>6

\* A run of the recorder starts with nothing handled, or fails at once.
LEMMA Starting ==
  /\ Sound(NoRecorder) /\ Sound(Started)
  /\ NoRecorder.state = "off" /\ Started.state = "down" /\ Started.watched = Markets
  /\ LET failed == [NoRecorder EXCEPT !.state = "done", !.exit = 1]
     IN Sound(failed) /\ failed.state = "done"
<1>1. EmptyStats \in Stats /\ NoneSeen \in [Channels -> Nat]
  BY DEF EmptyStats, Stats, NoneSeen
<1>2. <<>> \in Seq(Row) /\ Len(<<>>) = 0
  BY EmptySeq
<1>3. \A r : r \in Process /\ r.stats = EmptyStats /\ r.buffer = <<>> => Sound(r)
  BY <1>2, Constants DEF Sound, Counted, EmptyStats
<1>4. /\ NoRecorder \in Process /\ NoRecorder.stats = EmptyStats /\ NoRecorder.buffer = <<>>
      /\ NoRecorder.state = "off"
  BY <1>1, <1>2 DEF NoRecorder, Process
<1>5. /\ Started \in Process /\ Started.stats = EmptyStats /\ Started.buffer = <<>>
      /\ Started.state = "down" /\ Started.watched = Markets
  BY <1>4 DEF Started, Process
<1>6. LET failed == [NoRecorder EXCEPT !.state = "done", !.exit = 1]
      IN /\ failed \in Process /\ failed.stats = EmptyStats /\ failed.buffer = <<>>
         /\ failed.state = "done"
  BY <1>4 DEF Process
<1>7. QED
  BY <1>3, <1>4, <1>5, <1>6

\* Every step of the exchange and the recorder keeps the invariant.
LEMMA RecorderStepKeeps ==
  ASSUME RecorderInv, RecorderNext
  PROVE  RecorderInv'
<1>1. /\ now \in 0..MaxTime /\ content \in {"delta", "trade"}
      /\ feed \in Exchange /\ feed.conn <= MaxConns
      /\ rec \in Process /\ Sound(rec) /\ tape \in Seq(Row)
      /\ gaps \subseteq 0..now /\ faults \in 0..MaxFaults /\ Hungup
  BY DEF RecorderInv, Sound
<1>2. now \in Nat /\ MaxTime \in Nat /\ MaxConns \in Nat
  BY <1>1, Constants DEF MaxTime
<1>3. Recording
  BY <1>1, <1>2 DEF Recording
<1>4. ASSUME Recording', feed' \in Exchange, feed'.conn <= MaxConns, Hungup',
             content' = content, now' = now
      PROVE  RecorderInv'
  <2>1. now' \in 0..MaxTime'
    BY <1>1, <1>4 DEF MaxTime
  <2>2. Sound(rec')
    BY <1>4 DEF Recording, Sound, Counted
  <2>3. QED BY <1>1, <1>4, <2>1, <2>2 DEF RecorderInv, Recording, Sound, Counted
<1>5. ASSUME NEW m \in Markets, Snapshot(m)
      PROVE  RecorderInv'
  <2>1. PICK f : f = [feed EXCEPT !.owed = @ \ {m}]
    OBVIOUS
  <2>2. f \in Exchange /\ f.conn = feed.conn /\ f.owed \subseteq feed.owed
    BY <1>1, <2>1 DEF Exchange
  <2>3. Emit(m, "snapshot", 0, 0, feed.book[m], f) /\ rec.state = "up"
        /\ now' = now /\ content' = content
    BY <1>5, <2>1 DEF Snapshot, Listening
  <2>4. PICK book \in Nat : book = feed.book[m]
    BY <1>1, ExchangeFields
  <2>5. /\ Recording' /\ rec'.state = rec.state /\ rec'.watched = rec.watched
        /\ feed' \in Exchange /\ feed'.conn = f.conn /\ feed'.owed = f.owed
    <3>1. Emit(m, "snapshot", 0, 0, book, f)
      BY <2>3, <2>4
    <3>2. "snapshot" \in RowTypes
      BY DEF RowTypes
    <3>3. feed \in Exchange /\ now' = now /\ 0 \in Int /\ 0 \in PrintPrices \cup {0}
      BY <1>1, <2>3
    <3>4. QED BY <1>3, <2>2, <3>1, <3>2, <3>3, Emitting
  <2>6. Hungup'
    BY <1>1, <2>2, <2>3, <2>5 DEF Hungup
  <2>7. QED BY <1>1, <1>4, <2>2, <2>3, <2>5, <2>6
<1>6. ASSUME NEW m \in Moving, NEW c \in {-1, 1}, BookChanges(m, c)
      PROVE  RecorderInv'
  <2>1. m \in Markets /\ feed.book[m] + c \in Nat
    <3>1. m \in Markets /\ MaxBook \in Nat
      BY Constants
    <3>2. feed.book[m] + c \in 0..MaxBook
      BY <1>6 DEF BookChanges
    <3>3. QED BY <3>1, <3>2
  <2>2. PICK level \in Nat : level = feed.book[m] + c
    BY <2>1
  <2>3. PICK f : f = [feed EXCEPT !.book[m] = level, !.moves = @ + 1]
    OBVIOUS
  <2>4. f \in Exchange /\ f.conn = feed.conn /\ f.owed = feed.owed
    <3>1. PICK book \in [Markets -> Nat], moves \in Nat :
            book = [feed.book EXCEPT ![m] = level] /\ moves = feed.moves + 1
      <4>1. PICK old \in [Markets -> Nat], n \in Nat : old = feed.book /\ n = feed.moves
        BY <1>1, ExchangeFields
      <4>2. [old EXCEPT ![m] = level] \in [Markets -> Nat] /\ n + 1 \in Nat
        BY <2>1
      <4>3. QED BY <4>1, <4>2
    <3>2. f = [feed EXCEPT !.book = book, !.moves = moves]
      BY <1>1, <2>3, <3>1 DEF Exchange
    <3>3. QED BY <1>1, <3>2 DEF Exchange
  <2>5. /\ \/ Emit(m, "delta", c, 0, level, f)
           \/ feed' = f /\ UNCHANGED <<rec, tape, gaps, faults>>
        /\ now' = now /\ content' = content
    BY <1>6, <2>2, <2>3 DEF BookChanges
  <2>6. "delta" \in RowTypes /\ c \in Int
    BY DEF RowTypes
  <2>7. /\ Recording' /\ rec'.state = rec.state /\ rec'.watched = rec.watched
        /\ feed' \in Exchange /\ feed'.conn = f.conn /\ feed'.owed = f.owed
    <3>1. CASE Emit(m, "delta", c, 0, level, f)
      BY <1>1, <1>3, <2>1, <2>4, <2>5, <2>6, <3>1, Emitting
    <3>2. CASE feed' = f /\ UNCHANGED <<rec, tape, gaps, faults>>
      BY <1>3, <2>4, <2>5, <3>2 DEF Recording, Sound, Counted
    <3>3. QED BY <2>5, <3>1, <3>2
  <2>8. Hungup'
    BY <1>1, <2>4, <2>7 DEF Hungup
  <2>9. QED BY <1>1, <1>4, <2>4, <2>5, <2>7, <2>8
<1>7. ASSUME NEW m \in Moving, NEW p \in PrintPrices, Trades(m, p)
      PROVE  RecorderInv'
  <2>1. PICK f : f = [feed EXCEPT !.moves = @ + 1]
    OBVIOUS
  <2>2. f \in Exchange /\ f.conn = feed.conn /\ f.owed = feed.owed
    <3>1. PICK moves \in Nat : moves = feed.moves + 1
      BY <1>1, ExchangeFields
    <3>2. f = [feed EXCEPT !.moves = moves]
      BY <2>1, <3>1
    <3>3. QED BY <1>1, <3>2 DEF Exchange
  <2>3. /\ \/ Emit(m, "trade", 0, p, 0, f)
           \/ feed' = f /\ UNCHANGED <<rec, tape, gaps, faults>>
        /\ now' = now /\ content' = content
    BY <1>7, <2>1 DEF Trades
  <2>4. "trade" \in RowTypes /\ m \in Markets
    BY Constants DEF RowTypes
  <2>5. /\ Recording' /\ rec'.state = rec.state /\ rec'.watched = rec.watched
        /\ feed' \in Exchange /\ feed'.conn = f.conn /\ feed'.owed = f.owed
    <3>1. CASE Emit(m, "trade", 0, p, 0, f)
      BY <1>1, <1>3, <2>2, <2>3, <2>4, <3>1, Emitting
    <3>2. CASE feed' = f /\ UNCHANGED <<rec, tape, gaps, faults>>
      BY <1>3, <2>2, <2>3, <3>2 DEF Recording, Sound, Counted
    <3>3. QED BY <2>3, <3>1, <3>2
  <2>6. Hungup'
    BY <1>1, <2>2, <2>5 DEF Hungup
  <2>7. QED BY <1>1, <1>4, <2>2, <2>3, <2>5, <2>6
<1>8. CASE StartRecorder
  <2>1. /\ UNCHANGED <<now, content, feed, tape, gaps, faults>>
        /\ feed.owed = {} /\ Sound(rec') /\ rec'.state # "up"
    BY <1>1, <1>8, Starting DEF StartRecorder, Hungup
  <2>2. Recording'
    BY <1>3, <2>1 DEF Recording, Sound, Counted
  <2>3. QED BY <1>1, <1>4, <2>1, <2>2 DEF Hungup
<1>9. CASE Connect
  <2>1. /\ UNCHANGED <<now, content, tape, gaps, faults>>
        /\ feed.conn < MaxConns
        /\ feed' = [feed EXCEPT !.conn = @ + 1, !.up = TRUE, !.owed = rec.watched,
                                !.sent = NoneSeen]
        /\ rec' = [rec EXCEPT !.state = "up"]
    BY <1>9 DEF Connect
  <2>2. PICK conn \in Nat : conn = feed.conn + 1
    BY <1>1, ExchangeFields
  <2>3. PICK up \in BOOLEAN : up = TRUE
    OBVIOUS
  <2>4. feed' \in Exchange /\ feed'.conn = conn /\ feed'.owed = rec.watched
    <3>1. NoneSeen \in [Channels -> Nat]
      BY DEF NoneSeen
    <3>2. feed' = [feed EXCEPT !.conn = conn, !.up = up, !.owed = rec.watched,
                               !.sent = NoneSeen]
      BY <2>1, <2>2, <2>3
    <3>3. rec.watched \subseteq Markets
      BY <1>1, ProcessFields
    <3>4. QED BY <1>1, <3>1, <3>2, <3>3 DEF Exchange
  <2>5. Sound(rec') /\ rec'.watched = rec.watched /\ rec'.state = "up"
    BY <1>1, <2>1 DEF Sound, Counted, Process
  <2>6. Recording'
    BY <1>3, <2>1, <2>5 DEF Recording, Sound, Counted
  <2>7. conn <= MaxConns
    BY <1>1, <1>2, <2>1, <2>2, ExchangeFields
  <2>8. QED BY <1>1, <1>4, <2>1, <2>4, <2>5, <2>6, <2>7 DEF Hungup
<1>10. ASSUME Hangup
       PROVE  feed' \in Exchange /\ feed'.conn = feed.conn /\ feed'.owed = {}
  <2>1. PICK up \in BOOLEAN : up = FALSE
    OBVIOUS
  <2>2. feed' = [feed EXCEPT !.up = up, !.owed = {}]
    BY <1>10, <2>1 DEF Hangup
  <2>3. QED BY <1>1, <2>2 DEF Exchange
<1>11. ASSUME NEW ok \in BOOLEAN, AppendBatch(rec, ok)
       PROVE  /\ Sound(Flush(rec, ok)) /\ tape' \in Seq(Row)
              /\ Flush(rec, ok).watched = rec.watched
  <2>1. tape' \in Seq(Row)
    BY <1>1, <1>11, BatchStored DEF AppendBatch
  <2>2. PICK r : r = Flush(rec, ok)
    OBVIOUS
  <2>3. r \in Process /\ Counted(r) /\ r.buffer = <<>> /\ r.watched = rec.watched
    BY <1>1, <2>2, Flushing DEF Sound
  <2>4. Len(r.buffer) = 0
    BY <2>3, EmptySeq
  <2>5. QED BY <2>1, <2>2, <2>3, <2>4, Constants DEF Sound
<1>12. CASE Disconnect
  <2>1. PICK ok \in BOOLEAN :
          /\ Fault("disconnect") /\ AppendBatch(rec, ok)
          /\ rec' = [Flush(rec, ok) EXCEPT !.state = "down", !.last = NoneSeen]
    BY <1>12 DEF Disconnect
  <2>2. Hangup /\ UNCHANGED <<now, content, gaps>>
    BY <1>12 DEF Disconnect
  <2>3. PICK r : r = Flush(rec, ok)
    OBVIOUS
  <2>4. Sound(r) /\ tape' \in Seq(Row) /\ r.watched = rec.watched
    BY <1>11, <2>1, <2>3
  <2>5. Sound(rec') /\ rec'.state = "down"
    <3>1. PICK last \in [Channels -> Nat] : last = NoneSeen
      BY DEF NoneSeen
    <3>2. rec' = [r EXCEPT !.state = "down", !.last = last]
      BY <2>1, <2>3, <3>1
    <3>3. rec' \in Process /\ rec'.stats = r.stats /\ rec'.buffer = r.buffer
          /\ rec'.state = "down"
      BY <2>4, <3>2 DEF Sound, Process
    <3>4. QED BY <2>4, <3>3 DEF Sound, Counted
  <2>6. faults' \in 0..MaxFaults
    BY <1>1, <2>1, Faults
  <2>7. Recording'
    BY <1>3, <2>2, <2>4, <2>5, <2>6 DEF Recording, Sound, Counted
  <2>8. QED BY <1>1, <1>4, <1>10, <2>2, <2>5, <2>7 DEF Hungup
<1>13. CASE Finish
  <2>1. PICK ok \in BOOLEAN :
          /\ Database([batch |-> ok \/ rec.buffer = <<>>]) /\ AppendBatch(rec, ok)
          /\ rec' = [Flush(rec, ok) EXCEPT !.state = "done",
                       !.exit = IF Flush(rec, ok).stats.written = 0 THEN 1 ELSE 0]
    BY <1>13 DEF Finish
  <2>2. Hangup /\ UNCHANGED <<now, content, gaps>>
    BY <1>13 DEF Finish
  <2>3. PICK r : r = Flush(rec, ok)
    OBVIOUS
  <2>4. Sound(r) /\ tape' \in Seq(Row) /\ r.watched = rec.watched
    BY <1>11, <2>1, <2>3
  <2>5. Sound(rec') /\ rec'.state = "done"
    <3>1. PICK exit \in {0, 1} : exit = IF r.stats.written = 0 THEN 1 ELSE 0
      OBVIOUS
    <3>2. rec' = [r EXCEPT !.state = "done", !.exit = exit]
      BY <2>1, <2>3, <3>1
    <3>3. rec' \in Process /\ rec'.stats = r.stats /\ rec'.buffer = r.buffer
          /\ rec'.state = "done"
      BY <2>4, <3>2 DEF Sound, Process
    <3>4. QED BY <2>4, <3>3 DEF Sound, Counted
  <2>6. faults' \in 0..MaxFaults
    <3>1. faults' = faults \/ Fault("dbdown")
      BY <2>1 DEF Database
    <3>2. QED BY <1>1, <3>1, Faults
  <2>7. Recording'
    BY <1>3, <2>2, <2>4, <2>5, <2>6 DEF Recording, Sound, Counted
  <2>8. QED BY <1>1, <1>4, <1>10, <2>2, <2>5, <2>7 DEF Hungup
<1>14. CASE KillRecorder
  <2>1. Hangup /\ Fault("kill") /\ rec' = NoRecorder
        /\ UNCHANGED <<now, content, tape, gaps>>
    BY <1>14 DEF KillRecorder
  <2>2. Sound(rec') /\ rec'.state = "off"
    BY <2>1, Starting
  <2>3. Recording'
    BY <1>3, <2>1, <2>2, Faults DEF Recording, Sound, Counted
  <2>4. QED BY <1>1, <1>4, <1>10, <2>1, <2>2, <2>3 DEF Hungup
<1>15. CASE Tick
  <2>1. now < MaxTime /\ now' = now + 1 /\ UNCHANGED <<content, feed, rec, tape, gaps, faults>>
    BY <1>15 DEF Tick
  <2>2. now' \in 0..MaxTime' /\ gaps \subseteq 0..now'
    BY <1>1, <1>2, <2>1 DEF MaxTime
  <2>3. QED BY <1>1, <2>1, <2>2 DEF RecorderInv, Sound, Counted, Hungup
<1>16. QED
  BY <1>5, <1>6, <1>7, <1>8, <1>9, <1>12, <1>13, <1>14, <1>15 DEF RecorderNext

-----------------------------------------------------------------------------
(***************************************************************************)
(* Maintenance: what is left of a thinned tape is a tape.                  *)
(***************************************************************************)

\* The ranks of a finite set of numbers are all the numbers up to its size.
LEMMA Renumbered ==
  ASSUME NEW kept \in SUBSET Nat, IsFiniteSet(kept)
  PROVE  /\ Cardinality(kept) \in Nat
         /\ \A n \in 1..Cardinality(kept) :
              \E i \in kept : Cardinality({j \in kept : j <= i}) = n
<1> DEFINE below(i) == {j \in kept : j <= i}
           rank == [i \in kept |-> Cardinality(below(i))]
           c == Cardinality(kept)
<1>1. kept \subseteq Nat /\ IsFiniteSet(kept)
  OBVIOUS
<1>2. c \in Nat /\ IsFiniteSet(1..c) /\ Cardinality(1..c) = c
  BY <1>1, FS_CardinalityType, FS_Interval
<1>3. \A i \in kept : /\ IsFiniteSet(below(i)) /\ i \in below(i)
                      /\ Cardinality(below(i)) \in 1..c
  <2>1. TAKE i \in kept
  <2>2. below(i) \subseteq kept /\ i \in below(i)
    BY <1>1
  <2>3. IsFiniteSet(below(i)) /\ Cardinality(below(i)) <= c
    BY <1>1, <2>2, FS_Subset
  <2>4. Cardinality(below(i)) \in Nat /\ Cardinality(below(i)) # 0
    BY <2>2, <2>3, FS_CardinalityType, FS_EmptySet
  <2>5. Cardinality(below(i)) \in 1..c
    BY <1>2, <2>3, <2>4
  <2>6. QED BY <2>2, <2>3, <2>5
<1>4. ASSUME NEW i \in kept, NEW j \in kept, i < j
      PROVE  Cardinality(below(i)) # Cardinality(below(j))
  <2>1. i \in Nat /\ j \in Nat
    BY <1>1
  <2>2. below(i) \subseteq below(j) /\ below(i) # below(j)
    <3>1. j \in below(j) /\ j \notin below(i)
      BY <1>4, <2>1
    <3>2. below(i) \subseteq below(j)
      <4>1. \A k \in kept : k \in Nat /\ (k <= i => k <= j)
        BY <1>1, <1>4, <2>1
      <4>2. QED BY <4>1
    <3>3. QED BY <3>1, <3>2
  <2>3. QED BY <1>3, <2>2, FS_Subset
<1> HIDE DEF c, below
<1>5. rank \in Injection(kept, 1..c)
  <2>1. rank \in [kept -> 1..c]
    BY <1>3
  <2>2. ASSUME NEW i \in kept, NEW j \in kept, rank[i] = rank[j]
        PROVE  i = j
    <3>1. i \in Nat /\ j \in Nat
      BY <1>1
    <3>2. ~(i < j) /\ ~(j < i)
      BY <1>4, <2>2
    <3>3. QED BY <3>1, <3>2
  <2> HIDE DEF rank
  <2>3. QED BY <2>1, <2>2 DEF Injection, IsInjective
<1>6. rank \in Surjection(kept, 1..c)
  <2> HIDE DEF rank
  <2>1. Cardinality(kept) = Cardinality(1..c)
    BY <1>2 DEF c
  <2>2. QED BY <1>2, <1>5, <2>1, FS_Injection
<1>7. \A n \in 1..c : \E i \in kept : Cardinality(below(i)) = n
  BY <1>6 DEF Surjection
<1>8. QED
  BY <1>2, <1>7 DEF c, below

\* Deleting rows numbers the others anew, in their order, and leaves a tape.
LEMMA WithoutTyped ==
  ASSUME NEW rows \in Seq(Row), NEW gone
  PROVE  Without(rows, gone) \in Seq(Row)
<1>1. PICK kept : kept = {i \in DOMAIN rows : i \notin gone}
  OBVIOUS
<1>2. PICK c : c = Cardinality(kept)
  OBVIOUS
<1>3. kept \in SUBSET Nat /\ IsFiniteSet(kept) /\ kept \subseteq DOMAIN rows
  <2>1. DOMAIN rows = 1..Len(rows) /\ Len(rows) \in Nat
    BY LenProperties
  <2>2. IsFiniteSet(DOMAIN rows)
    BY <2>1, FS_Interval
  <2>3. kept \subseteq DOMAIN rows
    BY <1>1
  <2>4. QED BY <2>1, <2>2, <2>3, FS_Subset
<1>4. c \in Nat /\ \A n \in 1..c : \E i \in kept : Cardinality({j \in kept : j <= i}) = n
  BY <1>2, <1>3, Renumbered
<1>5. \A i \in kept : rows[i] \in Row
  BY <1>3, LenProperties, ElementOfSeq
<1>6. \A n \in 1..c :
        rows[CHOOSE i \in kept : Cardinality({j \in kept : j <= i}) = n] \in Row
  BY <1>4, <1>5
<1>7. Without(rows, gone) =
        [n \in 1..c |-> rows[CHOOSE i \in kept : Cardinality({j \in kept : j <= i}) = n]]
  BY <1>1, <1>2 DEF Without
<1>8. Without(rows, gone) \in [1..c -> Row]
  BY <1>6, <1>7
<1>9. QED
  BY <1>4, <1>8, SeqDef

\* Nulling payloads leaves a tape too.
LEMMA CompactedTyped ==
  ASSUME NEW rows \in Seq(Row), NEW batch
  PROVE  [i \in DOMAIN rows |-> IF i \in batch THEN [rows[i] EXCEPT !.payload = FALSE]
                                ELSE rows[i]] \in Seq(Row)
<1>1. Len(rows) \in Nat /\ DOMAIN rows = 1..Len(rows)
  BY LenProperties
<1>2. PICK gone \in BOOLEAN : gone = FALSE
  OBVIOUS
<1>3. \A row \in Row : [row EXCEPT !.payload = gone] \in Row
  BY DEF Row
<1>4. \A i \in DOMAIN rows : rows[i] \in Row
  BY <1>1, ElementOfSeq
<1>5. \A i \in DOMAIN rows :
        (IF i \in batch THEN [rows[i] EXCEPT !.payload = FALSE] ELSE rows[i]) \in Row
  BY <1>2, <1>3, <1>4
<1>6. [i \in 1..Len(rows) |-> IF i \in batch THEN [rows[i] EXCEPT !.payload = FALSE]
                              ELSE rows[i]] \in [1..Len(rows) -> Row]
  BY <1>1, <1>5
<1>7. QED
  BY <1>1, <1>6, SeqDef

\* Maintenance touches nothing but the tape.
LEMMA CareKeeps ==
  ASSUME RecorderInv, CareNext
  PROVE  RecorderInv'
<1>1. tape \in Seq(Row)
  BY DEF RecorderInv
<1>2. UNCHANGED <<now, content, feed, prints, rec, gaps, faults>>
  BY DEF CareNext, CompactBatch, PruneBatch
<1>3. tape' \in Seq(Row)
  <2>1. CASE CompactBatch
    <3>1. PICK batch : tape' = [i \in DOMAIN tape |->
             IF i \in batch THEN [tape[i] EXCEPT !.payload = FALSE] ELSE tape[i]]
      BY <2>1 DEF CompactBatch
    <3>2. QED BY <1>1, <3>1, CompactedTyped
  <2>2. CASE PruneBatch
    <3>1. PICK batch : tape' = Without(tape, batch)
      BY <2>2 DEF PruneBatch
    <3>2. QED BY <1>1, <3>1, WithoutTyped
  <2>3. QED BY <2>1, <2>2 DEF CareNext
<1>4. QED
  BY <1>2, <1>3 DEF RecorderInv, Hungup, Counted, MaxTime

\* Every step of the tape and its users keeps the recorder's invariant.
LEMMA RecorderInvStep ==
  ASSUME RecorderInv, [Next]_vars
  PROVE  RecorderInv'
<1>1. CASE RecorderStep
  BY <1>1, RecorderStepKeeps DEF RecorderStep
<1>2. CASE Maintenance
  BY <1>2, CareKeeps DEF Maintenance
<1>3. CASE ShadowNext
  <2>1. UNCHANGED <<now, content, feed, prints, rec, tape, gaps>>
    BY <1>3 DEF ShadowNext, Place, Resolve, ResolveBegin, ResolveLook, ResolveWalk,
                ResolveCommit, ResolveFails, recorderVars
  <2>2. faults' = faults \/ Fault("raise")
    BY <1>3 DEF ShadowNext, Place, Resolve, ResolveBegin, ResolveLook, ResolveWalk,
                ResolveCommit, ResolveFails, recorderVars
  <2>3. faults' \in 0..MaxFaults
    BY <2>2, Faults DEF RecorderInv
  <2>4. QED BY <2>1, <2>3 DEF RecorderInv, Hungup, Counted, MaxTime
<1>4. CASE UNCHANGED vars
  <2>1. UNCHANGED recorderVars
    BY <1>4 DEF vars
  <2>2. QED BY <2>1 DEF recorderVars, RecorderInv, Hungup, Counted, MaxTime
<1>5. QED
  BY <1>1, <1>2, <1>3, <1>4 DEF Next

\* Nothing is handled yet.
LEMMA RecorderInvInitially ==
  ASSUME RecorderInit
  PROVE  RecorderInv
<1>1. PICK up \in BOOLEAN : up = FALSE
  OBVIOUS
<1>2. /\ NoneSeen \in [Channels -> Nat] /\ [m \in Markets |-> 1] \in [Markets -> Nat]
      /\ {} \subseteq Markets
  BY DEF NoneSeen
<1>3. feed = [conn |-> 0, up |-> up, owed |-> {}, sent |-> NoneSeen,
              book |-> [m \in Markets |-> 1], moves |-> 0]
  BY <1>1 DEF RecorderInit
<1>4. feed \in Exchange /\ feed.conn = 0 /\ feed.owed = {}
  BY <1>2, <1>3 DEF Exchange
<1>5. rec = Started /\ now = 0 /\ content \in {"delta", "trade"} /\ tape = <<>> /\ gaps = {}
      /\ faults = 0
  BY DEF RecorderInit
<1>6. Sound(rec)
  BY <1>5, Starting
<1>7. /\ now \in 0..MaxTime /\ faults \in 0..MaxFaults /\ feed.conn <= MaxConns
  BY <1>4, <1>5, Constants DEF MaxTime
<1>8. tape \in Seq(Row)
  BY <1>5, EmptySeq
<1>9. QED
  BY <1>4, <1>5, <1>6, <1>7, <1>8 DEF RecorderInv, Hungup, Sound

\* The recorder's invariant holds throughout, under any number of faults of
\* any kind and any interleaving with maintenance and the judging cycles.
THEOREM RecorderInvariant == Spec => []RecorderInv
<1>1. Init => RecorderInv
  BY RecorderInvInitially DEF Init
<1>2. RecorderInv /\ [Next]_vars => RecorderInv'
  BY RecorderInvStep
<1>3. QED
  BY <1>1, <1>2, PTL DEF Spec

\* "Losing it silently is the bug this counter exists to prevent": every
\* message a recorder handled is written, counted as lost or still buffered.
THEOREM RecorderLosesNothingSilently == Spec => []NothingLostSilently
<1>1. RecorderInv => NothingLostSilently
  BY DEF RecorderInv, Counted, NothingLostSilently
<1>2. QED
  BY <1>1, RecorderInvariant, PTL

-----------------------------------------------------------------------------
(***************************************************************************)
(* The walk over the tape: what it fills, and from what.                   *)
(***************************************************************************)

\* What is assumed of the constants of shadow orders.
LEMMA ShadowConstants ==
  /\ NoOrder \notin Orders /\ Traded \subseteq Markets
  /\ Quantity \in Nat /\ Quantity > 0 /\ StartPrice \in Nat
  /\ Caps \subseteq Int
  /\ Rest \in Nat /\ Grace \in Nat /\ Grace > 0 /\ UnprovenAfter \in Nat /\ GapHorizon \in Nat
  /\ GapHorizon > 0 /\ Rest > 0
BY ShadowAssumption

\* T is the walk over the first n steps, which print g.
Walks(T, g, n) ==
  /\ T \in [0..n -> 0..Quantity]
  /\ T[0] = 0
  /\ \A i \in 1..n : T[i] = AtMost(T[i - 1] + g[i], Quantity)

\* There is a walk over any number of steps.
LEMMA WalkExists ==
  ASSUME NEW n \in Nat, NEW g, \A i \in 1..n : g[i] \in Nat
  PROVE  \E T : Walks(T, g, n)
<1> DEFINE Lacking == {k \in 0..n : ~\E T : Walks(T, g, k)}
<1>1. SUFFICES ASSUME Lacking # {} PROVE FALSE
  <2>1. n \in 0..n
    OBVIOUS
  <2>2. QED
    BY <2>1
<1>2. PICK k \in Lacking : \A j \in Lacking : k <= j
  <2>1. Lacking \in SUBSET Nat
    OBVIOUS
  <2> HIDE DEF Lacking
  <2>2. QED
    BY <1>1, <2>1, Smallest
<1>3. k \in 0..n /\ ~\E T : Walks(T, g, k)
  BY <1>2
<1>4. CASE k = 0
  <2>1. Walks([i \in 0..0 |-> 0], g, 0)
    BY ShadowConstants DEF Walks
  <2>2. QED
    BY <1>3, <1>4, <2>1
<1>5. CASE k # 0
  <2>1. k - 1 \in 0..n /\ k - 1 \in Nat /\ ~(k <= k - 1)
    BY <1>3, <1>5
  <2>2. PICK U : Walks(U, g, k - 1)
    BY <1>2, <2>1
  <2>3. U \in [0..(k - 1) -> 0..Quantity] /\ U[0] = 0
        /\ \A i \in 1..(k - 1) : U[i] = AtMost(U[i - 1] + g[i], Quantity)
    BY <2>2 DEF Walks
  <2>4. k \in 1..n /\ g[k] \in Nat /\ U[k - 1] \in 0..Quantity
    BY <1>3, <1>5, <2>3
  <2>5. PICK last \in 0..Quantity : last = AtMost(U[k - 1] + g[k], Quantity)
    <3>1. PICK u \in 0..Quantity, p \in Nat : u = U[k - 1] /\ p = g[k]
      BY <2>4
    <3>2. AtMost(u + p, Quantity) \in 0..Quantity
      BY ShadowConstants DEF AtMost
    <3>3. QED
      BY <3>1, <3>2
  <2> DEFINE T == [i \in 0..k |-> IF i = k THEN last ELSE U[i]]
  <2>6. T \in [0..k -> 0..Quantity]
    <3>1. \A i \in 0..k : (IF i = k THEN last ELSE U[i]) \in 0..Quantity
      <4> TAKE i \in 0..k
      <4>1. i # k => i \in 0..(k - 1)
        BY <2>1
      <4>2. QED
        BY <4>1, <2>3
    <3>2. QED
      BY <3>1
  <2>7. T[0] = 0
    BY <1>5, <2>1, <2>3
  <2>8. ASSUME NEW i \in 1..k
        PROVE  T[i] = AtMost(T[i - 1] + g[i], Quantity)
    <3>1. i \in 0..k /\ i - 1 \in 0..k /\ i - 1 # k
      BY <2>1
    <3>2. T[i - 1] = U[i - 1]
      BY <3>1
    <3>3. CASE i = k
      BY <2>5, <3>1, <3>2, <3>3
    <3>4. CASE i # k
      <4>1. i \in 1..(k - 1)
        BY <2>1, <3>4
      <4>2. T[i] = U[i]
        BY <3>1, <3>4
      <4>3. QED
        BY <2>3, <3>2, <4>1, <4>2
    <3>5. QED
      BY <3>3, <3>4
  <2>9. Walks(T, g, k)
    <3> HIDE DEF T
    <3>1. QED
      BY <2>6, <2>7, <2>8 DEF Walks
  <2>10. QED
    BY <1>3, <2>9
<1>6. QED
  BY <1>4, <1>5

\* It is what Walk computes.
LEMMA WalkComputes ==
  ASSUME NEW g \in Seq(Nat), NEW T, Walks(T, g, Len(g))
  PROVE  Walk(g) = T[Len(g)]
<1> DEFINE n == Len(g)
           Body(f) == [i \in 0..n |-> IF i = 0 THEN 0 ELSE AtMost(f[i - 1] + g[i], Quantity)]
<1>1. n \in Nat
  BY LenProperties
<1>2. T \in [0..n -> 0..Quantity] /\ T[0] = 0
      /\ \A i \in 1..n : T[i] = AtMost(T[i - 1] + g[i], Quantity)
  BY DEF Walks
<1>3. PICK take : take = (CHOOSE f : f = Body(f))
  OBVIOUS
<1>4. Walk(g) = take[n]
  BY <1>3 DEF Walk
<1> HIDE DEF n
<1>5. T = Body(T)
  <2>1. ASSUME NEW i \in 0..n
        PROVE  T[i] = IF i = 0 THEN 0 ELSE AtMost(T[i - 1] + g[i], Quantity)
    <3>1. i = 0 \/ i \in 1..n
      BY <1>1
    <3>2. QED
      BY <1>2, <3>1
  <2>2. QED
    BY <1>2, <2>1
<1>6. take = Body(take)
  <2>1. (\E f : f = Body(f)) => (CHOOSE f : f = Body(f)) = Body(CHOOSE f : f = Body(f))
    BY Zenon
  <2>2. QED
    BY <1>3, <1>5, <2>1, Zenon
<1>7. \A i \in 0..n : take[i] = T[i]
  <2> DEFINE Wrong == {i \in 0..n : take[i] # T[i]}
  <2>1. SUFFICES ASSUME Wrong # {} PROVE FALSE
    OBVIOUS
  <2>2. PICK i \in Wrong : \A j \in Wrong : i <= j
    <3>1. Wrong \in SUBSET Nat
      OBVIOUS
    <3> HIDE DEF Wrong
    <3>2. QED
      BY <2>1, <3>1, Smallest
  <2>3. i \in 0..n /\ take[i] # T[i]
    BY <2>2
  <2>4. take[i] = IF i = 0 THEN 0 ELSE AtMost(take[i - 1] + g[i], Quantity)
    BY <1>6, <2>3
  <2>5. i # 0
    BY <1>2, <2>3, <2>4
  <2>6. i \in 1..n /\ i - 1 \in 0..n /\ ~(i <= i - 1)
    BY <1>1, <2>3, <2>5
  <2>7. take[i - 1] = T[i - 1]
    BY <2>2, <2>6
  <2>8. QED
    BY <1>2, <2>3, <2>4, <2>5, <2>6, <2>7
<1>8. QED
  BY <1>1, <1>4, <1>7 DEF n

\* A walk fills what it asked for at most, and never less than nothing.
LEMMA WalkWithin ==
  ASSUME NEW g \in Seq(Nat)
  PROVE  Walk(g) \in 0..Quantity
<1>1. Len(g) \in Nat /\ \A i \in 1..Len(g) : g[i] \in Nat
  BY LenProperties, ElementOfSeq
<1>2. PICK T : Walks(T, g, Len(g))
  BY <1>1, WalkExists
<1>3. Walk(g) = T[Len(g)]
  BY <1>2, WalkComputes
<1>4. T \in [0..Len(g) -> 0..Quantity] /\ Len(g) \in 0..Len(g)
  BY <1>1, <1>2 DEF Walks
<1>5. QED
  BY <1>3, <1>4

\* It fills no more than there is: P holds one pair at least for each contract
\* printed in a step, with the step's number.
LEMMA WalkCredited ==
  ASSUME NEW g \in Seq(Nat), NEW P, IsFiniteSet(P),
         \A i \in 1..Len(g) : g[i] <= Cardinality({x \in P : x[2] = i})
  PROVE  Walk(g) <= Cardinality(P)
<1> DEFINE n == Len(g)
           upto(i) == {x \in P : x[2] \in 1..i}
           at(i)   == {x \in P : x[2] = i}
<1>1. n \in Nat /\ \A i \in 1..n : g[i] \in Nat
  BY LenProperties, ElementOfSeq
<1>2. PICK T : Walks(T, g, n)
  BY <1>1, WalkExists
<1>3. T \in [0..n -> 0..Quantity] /\ T[0] = 0
      /\ \A i \in 1..n : T[i] = AtMost(T[i - 1] + g[i], Quantity)
  BY <1>2 DEF Walks
<1>4. \A i : /\ IsFiniteSet(upto(i)) /\ Cardinality(upto(i)) \in Nat
             /\ Cardinality(upto(i)) <= Cardinality(P)
             /\ IsFiniteSet(at(i)) /\ Cardinality(at(i)) \in Nat
  <2> TAKE i
  <2>1. upto(i) \subseteq P /\ at(i) \subseteq P
    OBVIOUS
  <2> HIDE DEF upto, at
  <2>2. QED
    BY <2>1, FS_Subset, FS_CardinalityType
<1>5. ASSUME NEW i \in 1..n
      PROVE  Cardinality(upto(i)) = Cardinality(upto(i - 1)) + Cardinality(at(i))
  <2>1. i \in Nat /\ i >= 1
    BY <1>1
  <2>2. \A k : k \in 1..i <=> k \in 1..(i - 1) \/ k = i
    BY <2>1
  <2>3. \A k : k \in 1..(i - 1) => k # i
    BY <2>1
  <2>4. upto(i) = upto(i - 1) \cup at(i) /\ upto(i - 1) \cap at(i) = {}
    BY <2>2, <2>3
  <2> HIDE DEF upto, at
  <2>5. Cardinality(upto(i)) = Cardinality(upto(i - 1)) + Cardinality(at(i)) - Cardinality({})
    BY <1>4, <2>4, FS_Union
  <2>6. QED
    BY <1>4, <2>5, FS_EmptySet
<1> HIDE DEF n, upto
<1>6. \A i \in 0..n : T[i] <= Cardinality(upto(i))
  <2> DEFINE Wrong == {i \in 0..n : ~(T[i] <= Cardinality(upto(i)))}
  <2>1. SUFFICES ASSUME Wrong # {} PROVE FALSE
    OBVIOUS
  <2>2. PICK i \in Wrong : \A j \in Wrong : i <= j
    <3>1. Wrong \in SUBSET Nat
      OBVIOUS
    <3> HIDE DEF Wrong
    <3>2. QED
      BY <2>1, <3>1, Smallest
  <2>3. i \in 0..n /\ ~(T[i] <= Cardinality(upto(i)))
    BY <2>2
  <2>4. i # 0
    <3>1. Cardinality(upto(0)) \in Nat
      BY <1>4
    <3>2. T[0] <= Cardinality(upto(0))
      BY <1>3, <3>1
    <3>3. QED
      BY <2>3, <3>2
  <2>5. i \in 1..n /\ i - 1 \in 0..n /\ ~(i <= i - 1)
    BY <1>1, <2>3, <2>4
  <2>6. T[i - 1] <= Cardinality(upto(i - 1))
    BY <2>2, <2>5
  <2>7. g[i] <= Cardinality(at(i)) /\ g[i] \in Nat
    BY <1>1, <2>5 DEF n
  <2>8. PICK t \in 0..Quantity, p \in Nat, c \in Nat, d \in Nat :
          t = T[i - 1] /\ p = g[i] /\ c = Cardinality(upto(i - 1)) /\ d = Cardinality(at(i))
    <3> HIDE DEF at
    <3>1. QED
      BY <1>3, <1>4, <2>5, <2>7
  <2>9. T[i] <= t + p
    <3>1. AtMost(t + p, Quantity) <= t + p
      BY ShadowConstants DEF AtMost
    <3>2. QED
      BY <1>3, <2>5, <2>8, <3>1
  <2>10. Cardinality(upto(i)) = c + d /\ t <= c /\ p <= d /\ T[i] \in 0..Quantity
    BY <1>3, <1>5, <2>5, <2>6, <2>7, <2>8
  <2>11. QED
    BY <2>3, <2>9, <2>10
<1>7. T[n] \in 0..Quantity /\ T[n] <= Cardinality(upto(n)) /\ Walk(g) = T[n]
  BY <1>1, <1>2, <1>3, <1>6, WalkComputes DEF n
<1>8. PICK c \in Nat, d \in Nat : c = Cardinality(P) /\ d = Cardinality(upto(n))
  BY <1>4, FS_CardinalityType
<1>9. d <= c
  BY <1>4, <1>8
<1>10. QED
  BY <1>7, <1>8, <1>9

\* A plan is a sequence of prices.
LEMMA PlanIsSeq ==
  ASSUME NEW start \in Int, NEW cap \in Int
  PROVE  BuildPlan(start, cap) \in Seq(Int)
<1> DEFINE Placed(i) == start + i * StepCents <= cap /\ i * RestSeconds <= TimeoutSeconds
           Stops(n)  == /\ \A i \in 0..(n - 1) : Placed(i)
                        /\ n = MaxSteps + 1 \/ ~Placed(n)
           Halts     == {n \in 0..(MaxSteps + 1) : n = MaxSteps + 1 \/ ~Placed(n)}
           count     == CHOOSE n \in 0..(MaxSteps + 1) : Stops(n)
<1>1. BuildPlan(start, cap) = [i \in 1..count |-> start + (i - 1) * StepCents]
  BY DEF BuildPlan
<1> HIDE DEF Placed
<1>2. MaxSteps \in Nat /\ StepCents \in Nat
  BY WalkAssumption
<1>3. \E n \in 0..(MaxSteps + 1) : Stops(n)
  <2>1. Halts \in SUBSET Nat /\ MaxSteps + 1 \in Halts
    BY <1>2
  <2>2. PICK n \in Halts : \A k \in Halts : n <= k
    <3> HIDE DEF Halts
    <3>1. QED
      BY <2>1, Smallest
  <2>3. n \in 0..(MaxSteps + 1) /\ (n = MaxSteps + 1 \/ ~Placed(n))
    BY <2>2
  <2>4. ASSUME NEW i \in 0..(n - 1) PROVE Placed(i)
    <3>1. i \in 0..(MaxSteps + 1) /\ ~(n <= i)
      BY <1>2, <2>3
    <3>2. QED
      BY <2>2, <3>1
  <2>5. QED
    BY <2>3, <2>4
<1>4. count \in 0..(MaxSteps + 1)
  <2> HIDE DEF Stops
  <2>1. QED
    BY <1>3, Zenon
<1> HIDE DEF count
<1>5. count \in Nat /\ \A i \in 1..count : start + (i - 1) * StepCents \in Int
  BY <1>2, <1>4
<1>6. [i \in 1..count |-> start + (i - 1) * StepCents] \in [1..count -> Int]
  BY <1>5
<1>7. QED
  BY <1>1, <1>5, <1>6, SeqDef

-----------------------------------------------------------------------------
(***************************************************************************)
(* What the recorder has heard, in the order it heard it: the tape and     *)
(* then the buffer.  Flushing moves the border between the two, and a      *)
(* batch that is lost cuts the end off.                                    *)
(***************************************************************************)

MarketPrint == [market : Markets, at : Nat, price : Int]

Heard == tape \o rec.buffer

Begins(a, b) == Len(a) <= Len(b) /\ \A i \in 1..Len(a) : a[i] = b[i]

\* Rows are in the order of their times.
InOrder(h, t) == \A i \in 1..Len(h) : h[i].at <= t /\ \A j \in i..Len(h) : h[i].at <= h[j].at

\* The prints heard at a time at which no gap was recorded.
Sure(h, g) == {k \in 1..Len(h) : h[k].type = "trade" /\ h[k].at \notin g}

\* Each of them is a print of its own that the market made.
Backs(f, h, p, g) ==
  /\ \A k \in Sure(h, g) : /\ f[k] \in 1..Len(p)
                           /\ p[f[k]] = [market |-> h[k].market, at |-> h[k].at, price |-> h[k].price]
  /\ \A k, l \in Sure(h, g) : f[k] = f[l] => k = l

Backed(h, p, g) == \E f : Backs(f, h, p, g)

HeardInv ==
  /\ prints \in Seq(MarketPrint)
  /\ InOrder(Heard, now)
  /\ Backed(Heard, prints, gaps)

\* A sequence begins what it is the first part of.
LEMMA ConcatBegins ==
  ASSUME NEW S, NEW a \in Seq(S), NEW b \in Seq(S)
  PROVE  Begins(a, a \o b) /\ a \o b \in Seq(S)
<1>1. Len(a) \in Nat /\ Len(b) \in Nat
  BY LenProperties
<1>2. a \o b \in Seq(S) /\ Len(a \o b) = Len(a) + Len(b)
      /\ \A i \in 1..(Len(a) + Len(b)) : (a \o b)[i] = IF i <= Len(a) THEN a[i] ELSE b[i - Len(a)]
  BY ConcatProperties
<1>3. \A i \in 1..Len(a) : (a \o b)[i] = a[i]
  BY <1>1, <1>2
<1>4. QED
  BY <1>1, <1>2, <1>3 DEF Begins

\* And what one element is added to.
LEMMA AppendBegins ==
  ASSUME NEW S, NEW a \in Seq(S), NEW x \in S
  PROVE  /\ Begins(a, Append(a, x)) /\ Append(a, x) \in Seq(S)
         /\ Len(Append(a, x)) = Len(a) + 1 /\ Append(a, x)[Len(a) + 1] = x
<1>1. Len(a) \in Nat
  BY LenProperties
<1>2. QED
  BY <1>1, AppendProperties DEF Begins

\* The beginning of what is in order and backed is so too, also later, with
\* more prints and with more gaps.
LEMMA HeardLess ==
  ASSUME NEW h \in Seq(Row), NEW q \in Seq(Row), Begins(q, h), NEW t \in Nat, NEW u \in Nat, t <= u,
         NEW p \in Seq(MarketPrint), NEW r \in Seq(MarketPrint), Begins(p, r), NEW g, NEW d, g \subseteq d
  PROVE  /\ InOrder(h, t) => InOrder(q, u)
         /\ Backed(h, p, g) => Backed(q, r, d)
<1>1. Len(h) \in Nat /\ Len(q) \in Nat /\ Len(q) <= Len(h) /\ Len(p) \in Nat /\ Len(r) \in Nat
  BY LenProperties DEF Begins
<1>2. \A i \in 1..Len(q) : i \in 1..Len(h) /\ q[i] = h[i] /\ h[i].at \in Nat
  <2>1. \A i \in 1..Len(h) : h[i] \in Row
    BY ElementOfSeq
  <2>2. \A i \in 1..Len(q) : i \in 1..Len(h) /\ q[i] = h[i]
    BY <1>1 DEF Begins
  <2>3. \A row \in Row : row.at \in Nat
    BY DEF Row
  <2>4. QED
    BY <2>1, <2>2, <2>3
<1>3. ASSUME InOrder(h, t) PROVE InOrder(q, u)
  <2> SUFFICES ASSUME NEW i \in 1..Len(q)
               PROVE  q[i].at <= u /\ \A j \in i..Len(q) : q[i].at <= q[j].at
    BY DEF InOrder
  <2>1. q[i].at <= u
    BY <1>2, <1>3 DEF InOrder
  <2>2. ASSUME NEW j \in i..Len(q) PROVE q[i].at <= q[j].at
    <3>1. j \in 1..Len(q) /\ j \in i..Len(h)
      BY <1>1
    <3>2. QED
      BY <1>2, <1>3, <3>1 DEF InOrder
  <2>3. QED
    BY <2>1, <2>2
<1>4. ASSUME Backed(h, p, g) PROVE Backed(q, r, d)
  <2>1. PICK f : Backs(f, h, p, g)
    BY <1>4 DEF Backed
  <2>2. Sure(q, d) \subseteq Sure(h, g)
    BY <1>2 DEF Sure
  <2>3. ASSUME NEW k \in Sure(q, d)
        PROVE  /\ f[k] \in 1..Len(r)
               /\ r[f[k]] = [market |-> q[k].market, at |-> q[k].at, price |-> q[k].price]
    <3>1. k \in Sure(h, g) /\ k \in 1..Len(q) /\ q[k] = h[k]
      BY <1>2, <2>2 DEF Sure
    <3>2. /\ f[k] \in 1..Len(p)
          /\ p[f[k]] = [market |-> h[k].market, at |-> h[k].at, price |-> h[k].price]
      BY <2>1, <3>1 DEF Backs
    <3>3. f[k] \in 1..Len(r) /\ r[f[k]] = p[f[k]]
      BY <1>1, <3>2 DEF Begins
    <3>4. QED
      BY <3>1, <3>2, <3>3
  <2>4. \A k, l \in Sure(q, d) : f[k] = f[l] => k = l
    BY <2>1, <2>2 DEF Backs
  <2>5. QED
    BY <2>3, <2>4 DEF Backs, Backed
<1>5. QED
  BY <1>3, <1>4

\* What is heard now comes last.
LEMMA HeardInOrder ==
  ASSUME NEW h \in Seq(Row), NEW t \in Nat, InOrder(h, t), NEW row \in Row, row.at = t
  PROVE  InOrder(Append(h, row), t)
<1> DEFINE a == Append(h, row)
<1>1. Len(h) \in Nat /\ Len(a) = Len(h) + 1 /\ a[Len(h) + 1] = row
      /\ \A i \in 1..Len(h) : a[i] = h[i]
  BY LenProperties, AppendProperties
<1> HIDE DEF a
<1>2. \A i \in 1..Len(a) : i \in 1..Len(h) \/ i = Len(h) + 1
  BY <1>1
<1>3. \A i \in 1..Len(a) : a[i].at <= t
  BY <1>1, <1>2 DEF InOrder
<1>4. ASSUME NEW i \in 1..Len(a), NEW j \in i..Len(a) PROVE a[i].at <= a[j].at
  <2>1. CASE j = Len(h) + 1
    BY <1>1, <1>3, <2>1
  <2>2. CASE j # Len(h) + 1
    <3>1. i \in 1..Len(h) /\ j \in i..Len(h) /\ j \in 1..Len(h)
      BY <1>1, <2>2
    <3>2. QED
      BY <1>1, <3>1 DEF InOrder
  <2>3. QED
    BY <2>1, <2>2
<1>5. InOrder(a, t)
  BY <1>3, <1>4 DEF InOrder
<1>6. QED
  BY <1>5 DEF a

\* A row that is no print, or that a gap covers, needs no print behind it.
LEMMA HeardUnsure ==
  ASSUME NEW h \in Seq(Row), NEW p, NEW g, Backed(h, p, g),
         NEW row \in Row, row.type # "trade" \/ row.at \in g
  PROVE  Backed(Append(h, row), p, g)
<1> DEFINE a == Append(h, row)
<1>1. Len(h) \in Nat /\ Len(a) = Len(h) + 1 /\ a[Len(h) + 1] = row
      /\ \A i \in 1..Len(h) : a[i] = h[i]
  BY LenProperties, AppendProperties
<1> HIDE DEF a
<1>2. \A k \in Sure(a, g) : k \in Sure(h, g) /\ a[k] = h[k]
  <2> TAKE k \in Sure(a, g)
  <2>1. k \in 1..Len(a) /\ k # Len(h) + 1
    BY <1>1 DEF Sure
  <2>2. k \in 1..Len(h)
    BY <1>1, <2>1
  <2>3. QED
    BY <1>1, <2>2 DEF Sure
<1>3. PICK f : Backs(f, h, p, g)
  BY DEF Backed
<1>4. Backs(f, a, p, g)
  BY <1>2, <1>3 DEF Backs
<1>5. QED
  BY <1>4 DEF Backed, a

\* A print that is heard once is backed by the print the market just made.
LEMMA HeardPrint ==
  ASSUME NEW h \in Seq(Row), NEW p \in Seq(MarketPrint), NEW g, Backed(h, p, g), NEW row \in Row,
         NEW x \in MarketPrint, x = [market |-> row.market, at |-> row.at, price |-> row.price]
  PROVE  Backed(Append(h, row), Append(p, x), g)
<1> DEFINE a == Append(h, row)
           b == Append(p, x)
           n == Len(h) + 1
           m == Len(p) + 1
<1>1. Len(h) \in Nat /\ Len(a) = n /\ a[n] = row /\ \A i \in 1..Len(h) : a[i] = h[i]
  BY LenProperties, AppendProperties
<1>2. Len(p) \in Nat /\ Len(b) = m /\ b[m] = x /\ \A i \in 1..Len(p) : b[i] = p[i]
  BY LenProperties, AppendProperties
<1>3. n \in Nat /\ m \in Nat /\ m \in 1..m
  BY <1>1, <1>2
<1> HIDE DEF a, b
<1>4. \A k \in Sure(a, g) : k = n \/ (k # n /\ k \in Sure(h, g) /\ a[k] = h[k])
  <2> TAKE k \in Sure(a, g)
  <2>1. k \in 1..Len(a) /\ a[k].type = "trade" /\ a[k].at \notin g
    BY DEF Sure
  <2>2. k = n \/ (k # n /\ k \in 1..Len(h))
    BY <1>1, <2>1
  <2>3. QED
    BY <1>1, <2>1, <2>2 DEF Sure
<1>5. PICK f : Backs(f, h, p, g)
  BY DEF Backed
<1> DEFINE e == [k \in 1..n |-> IF k = n THEN m ELSE f[k]]
<1>6. \A k \in Sure(a, g) : k \in 1..n
  BY <1>1 DEF Sure
<1>7. ASSUME NEW k \in Sure(a, g)
      PROVE  /\ e[k] \in 1..Len(b)
             /\ b[e[k]] = [market |-> a[k].market, at |-> a[k].at, price |-> a[k].price]
  <2>1. CASE k = n
    BY <1>1, <1>2, <1>3, <1>6, <2>1
  <2>2. CASE k # n
    <3>1. k \in Sure(h, g) /\ a[k] = h[k] /\ e[k] = f[k]
      BY <1>4, <1>6, <2>2
    <3>2. /\ f[k] \in 1..Len(p)
          /\ p[f[k]] = [market |-> h[k].market, at |-> h[k].at, price |-> h[k].price]
      BY <1>5, <3>1 DEF Backs
    <3>3. QED
      BY <1>2, <3>1, <3>2
  <2>3. QED
    BY <2>1, <2>2
<1>8. ASSUME NEW k \in Sure(a, g), NEW l \in Sure(a, g), e[k] = e[l]
      PROVE  k = l
  <2>1. \A i \in Sure(a, g) : i # n => i \in Sure(h, g) /\ e[i] = f[i] /\ f[i] \in 1..Len(p)
    BY <1>4, <1>5, <1>6 DEF Backs
  <2>2. e[n] = m /\ ~(m \in 1..Len(p))
    BY <1>1, <1>2
  <2>3. QED
    BY <1>5, <1>8, <2>1, <2>2 DEF Backs
<1>9. Backs(e, a, b, g)
  <2> HIDE DEF e
  <2>1. QED
    BY <1>7, <1>8 DEF Backs
<1>10. QED
  BY <1>9 DEF Backed, a, b

\* A message that is added to the buffer is added to what was heard.
LEMMA BufferHeard ==
  ASSUME NEW s \in Seq(Row), NEW b \in Seq(Row), NEW row \in Row
  PROVE  s \o Append(b, row) = Append(s \o b, row) /\ s \o b \in Seq(Row) /\ s \o <<>> = s
<1>1. <<row>> \in Seq(Row) /\ s \o b \in Seq(Row)
  BY ConcatProperties
<1>2. Append(b, row) = b \o <<row>> /\ Append(s \o b, row) = (s \o b) \o <<row>>
  BY <1>1, AppendIsConcat
<1>3. (s \o b) \o <<row>> = s \o (b \o <<row>>)
  BY <1>1, ConcatAssociative
<1>4. QED
  BY <1>1, <1>2, <1>3, ConcatEmptySeq

\* A flush, whether the database takes the batch or not.
LEMMA FlushHeard ==
  ASSUME NEW s \in Seq(Row), NEW r \in Process, NEW ok \in BOOLEAN
  PROVE  LET stored == s \o Stored(r, ok)
         IN /\ stored \in Seq(Row) /\ Begins(s, stored)
            /\ stored \o Flush(r, ok).buffer = stored
            /\ Begins(stored, s \o r.buffer)
            /\ ok => stored = s \o r.buffer
<1>1. r.buffer \in Seq(Row) /\ <<>> \in Seq(Row)
  BY ProcessFields, EmptySeq
<1>2. Flush(r, ok).buffer = <<>>
  BY DEF Flush, Process
<1>3. CASE ok
  <2>1. Stored(r, ok) = r.buffer
    BY <1>3 DEF Stored
  <2>2. s \o r.buffer \in Seq(Row) /\ Begins(s, s \o r.buffer)
        /\ Begins(s \o r.buffer, s \o r.buffer)
    BY <1>1, ConcatBegins DEF Begins
  <2>3. QED
    BY <1>1, <1>2, <2>1, <2>2, ConcatEmptySeq
<1>4. CASE ~ok
  <2>1. Stored(r, ok) = <<>> /\ s \o <<>> = s
    BY <1>4, ConcatEmptySeq DEF Stored
  <2>2. Begins(s, s \o r.buffer) /\ Begins(s, s)
    BY <1>1, ConcatBegins DEF Begins
  <2>3. QED
    BY <1>2, <1>4, <2>1, <2>2
<1>5. QED
  BY <1>3, <1>4

\* What it means to have heard h: what is kept of it is on the tape or in the
\* buffer, and the tape only grew.
Hears(h) ==
  /\ Heard' \in Seq(Row) /\ Begins(Heard', h)
  /\ tape' \in Seq(Row) /\ Begins(tape, tape')
  /\ gaps \subseteq gaps'

\* One message is heard once, unless its batch is lost.
LEMMA HearsOne ==
  ASSUME tape \in Seq(Row), Sound(rec), NEW row \in Row, HandleOne(row)
  PROVE  Hears(Append(Heard, row))
<1>1. PICK gapOk \in BOOLEAN, batchOk \in BOOLEAN :
        LET r == Buffered(rec, row)
        IN /\ gaps' = IF Breaks(rec, row) /\ gapOk THEN gaps \cup {now} ELSE gaps
           /\ IF Full(r) THEN rec' = Flush(r, batchOk) /\ AppendBatch(r, batchOk)
              ELSE rec' = r /\ UNCHANGED tape
  BY DEF HandleOne
<1>2. PICK r : r = Buffered(rec, row)
  OBVIOUS
<1>3. rec.buffer \in Seq(Row) /\ r.buffer = Append(rec.buffer, row) /\ r.buffer \in Seq(Row)
  <2>1. rec.buffer \in Seq(Row)
    BY ProcessFields DEF Sound
  <2>2. r.buffer = Append(rec.buffer, row)
    BY <1>2, Buffering DEF Sound
  <2>3. QED
    BY <2>1, <2>2, AppendProperties
<1>4. gaps \subseteq gaps'
  BY <1>1
<1>5. tape \o r.buffer = Append(Heard, row) /\ Append(Heard, row) \in Seq(Row)
  <2>1. tape \o rec.buffer \in Seq(Row) /\ tape \o Append(rec.buffer, row) = Append(Heard, row)
    BY <1>3, BufferHeard DEF Heard
  <2>2. QED
    BY <1>3, <2>1, AppendProperties DEF Heard
<1>6. CASE Full(r)
  <2>1. rec' = Flush(r, batchOk) /\ tape' = tape \o Stored(r, batchOk)
    BY <1>1, <1>2, <1>6 DEF AppendBatch
  <2>2. r \in Process
    BY <1>2, Buffering DEF Sound
  <2>3. /\ tape' \in Seq(Row) /\ Begins(tape, tape')
        /\ tape' \o rec'.buffer = tape' /\ Begins(tape', tape \o r.buffer)
    BY <2>1, <2>2, FlushHeard
  <2>4. QED
    BY <1>4, <1>5, <2>3 DEF Hears, Heard
<1>7. CASE ~Full(r)
  <2>1. rec' = r /\ tape' = tape
    BY <1>1, <1>2, <1>7
  <2>2. Heard' = Append(Heard, row)
    BY <1>5, <2>1 DEF Heard
  <2>3. QED
    BY <1>4, <1>5, <2>1, <2>2 DEF Hears, Begins
<1>8. QED
  BY <1>6, <1>7

\* A message that comes twice is heard twice, with a gap: both are written.
LEMMA HearsTwice ==
  ASSUME tape \in Seq(Row), Sound(rec), NEW row \in Row, HandleTwice(row)
  PROVE  Hears(Append(Append(Heard, row), row)) /\ now \in gaps'
<1>1. PICK once : once = Buffered(rec, row)
  OBVIOUS
<1>2. PICK r1 : r1 = IF Full(once) THEN Flush(once, TRUE) ELSE once
  OBVIOUS
<1>3. PICK twice : twice = Buffered(r1, row)
  OBVIOUS
<1>4. PICK r2 : r2 = IF Full(twice) THEN Flush(twice, TRUE) ELSE twice
  OBVIOUS
<1>5. /\ rec' = r2
      /\ tape' = tape \o (IF Full(once)
                          THEN once.buffer \o (IF Full(twice) THEN twice.buffer ELSE <<>>)
                          ELSE IF Full(twice) THEN twice.buffer ELSE <<>>)
      /\ gaps' = gaps \cup {now}
  BY <1>1, <1>2, <1>3, <1>4 DEF HandleTwice
<1>6. rec \in Process /\ Counted(rec) /\ rec.buffer \in Seq(Row)
  BY ProcessFields DEF Sound
<1>7. once \in Process /\ Counted(once) /\ once.buffer = Append(rec.buffer, row)
      /\ once.buffer \in Seq(Row)
  BY <1>1, <1>6, Buffering, AppendProperties
<1>8. r1 \in Process /\ Counted(r1) /\ r1.buffer \in Seq(Row)
      /\ r1.buffer = IF Full(once) THEN <<>> ELSE once.buffer
  BY <1>2, <1>7, Flushing, EmptySeq
<1>9. twice.buffer = Append(r1.buffer, row) /\ twice.buffer \in Seq(Row)
      /\ twice \in Process /\ Counted(twice)
  BY <1>3, <1>8, Buffering, AppendProperties
<1>10. r2.buffer = IF Full(twice) THEN <<>> ELSE twice.buffer
  BY <1>4, <1>9, Flushing
<1> DEFINE first  == IF Full(once) THEN tape \o once.buffer ELSE tape
           second == IF Full(twice) THEN first \o twice.buffer ELSE first
<1>11. Heard \in Seq(Row) /\ Append(Heard, row) \in Seq(Row)
       /\ Append(Append(Heard, row), row) \in Seq(Row)
  BY <1>6, ConcatProperties, AppendProperties DEF Heard
<1>12. first \in Seq(Row) /\ Begins(tape, first) /\ first \o r1.buffer = Append(Heard, row)
  <2>1. tape \o once.buffer = Append(Heard, row)
    BY <1>6, <1>7, BufferHeard DEF Heard
  <2>2. Begins(tape, tape) /\ Begins(tape, tape \o once.buffer)
        /\ tape \o once.buffer \in Seq(Row)
    BY <1>7, ConcatBegins DEF Begins
  <2>3. CASE Full(once)
    <3>1. first = tape \o once.buffer
      BY <2>3
    <3>2. QED
      BY <1>8, <2>1, <2>2, <2>3, <3>1, ConcatEmptySeq
  <2>4. CASE ~Full(once)
    <3>1. first = tape
      BY <2>4
    <3>2. QED
      BY <1>8, <2>1, <2>2, <2>4, <3>1
  <2>5. QED
    BY <2>3, <2>4
<1> HIDE DEF first
<1>13. second \in Seq(Row) /\ Begins(first, second)
       /\ second \o r2.buffer = Append(Append(Heard, row), row)
  <2>1. first \o twice.buffer = Append(Append(Heard, row), row)
    <3>1. PICK b \in Seq(Row) : b = r1.buffer
      BY <1>8
    <3>2. first \o Append(b, row) = Append(first \o b, row)
      BY <1>12, BufferHeard, SMTT(30)
    <3>3. QED
      BY <1>9, <1>12, <3>1, <3>2
  <2>2. Begins(first, first) /\ Begins(first, first \o twice.buffer)
        /\ first \o twice.buffer \in Seq(Row)
    <3>1. PICK b \in Seq(Row) : b = twice.buffer
      BY <1>9
    <3>2. Begins(first, first \o b) /\ first \o b \in Seq(Row)
      BY <1>12, ConcatBegins
    <3>3. QED
      BY <1>12, <3>1, <3>2, LenProperties DEF Begins
  <2>3. CASE Full(twice)
    <3>1. second = first \o twice.buffer
      BY <2>3
    <3>2. QED
      BY <1>10, <1>11, <2>1, <2>2, <2>3, <3>1, ConcatEmptySeq
  <2>4. CASE ~Full(twice)
    <3>1. second = first
      BY <2>4
    <3>2. QED
      BY <1>10, <1>12, <2>1, <2>2, <2>4, <3>1
  <2>5. QED
    BY <2>3, <2>4
<1>14. Begins(tape, second)
  <2>1. Len(tape) \in Nat /\ Len(first) \in Nat /\ Len(second) \in Nat
    BY <1>12, <1>13, LenProperties
  <2>2. QED
    BY <1>12, <1>13, <2>1 DEF Begins
<1>15. tape' = second
  <2>1. once.buffer \o <<>> = once.buffer /\ tape \o <<>> = tape
    BY <1>7, ConcatEmptySeq
  <2>2. (tape \o once.buffer) \o twice.buffer = tape \o (once.buffer \o twice.buffer)
    <3>1. PICK b \in Seq(Row), c \in Seq(Row) : b = once.buffer /\ c = twice.buffer
      BY <1>7, <1>9
    <3>2. (tape \o b) \o c = tape \o (b \o c)
      BY ConcatAssociative
    <3>3. QED
      BY <3>1, <3>2
  <2>3. QED
    BY <1>5, <2>1, <2>2 DEF first
<1>16. Heard' = Append(Append(Heard, row), row)
  BY <1>5, <1>13, <1>15 DEF Heard
<1>17. PICK h \in Seq(Row) : h = Append(Append(Heard, row), row)
  BY <1>11
<1>18. Begins(h, h)
  BY LenProperties DEF Begins
<1> HIDE DEF second
<1>19. QED
  BY <1>5, <1>13, <1>14, <1>15, <1>16, <1>17, <1>18 DEF Hears

\* Nothing new is heard: the batch goes to the tape, or it is lost.
LEMMA HearsNothing ==
  ASSUME tape \in Seq(Row), Sound(rec), NEW ok \in BOOLEAN, AppendBatch(rec, ok),
         rec'.buffer = <<>>, gaps' = gaps
  PROVE  Hears(Heard)
<1>1. rec \in Process
  BY DEF Sound
<1>2. tape' = tape \o Stored(rec, ok) /\ Flush(rec, ok).buffer = <<>>
  BY <1>1, Flushing DEF AppendBatch, Sound
<1>3. PICK r \in Process : r = rec
  BY <1>1
<1>4. /\ tape \o Stored(r, ok) \in Seq(Row) /\ Begins(tape, tape \o Stored(r, ok))
      /\ (tape \o Stored(r, ok)) \o Flush(r, ok).buffer = tape \o Stored(r, ok)
      /\ Begins(tape \o Stored(r, ok), tape \o r.buffer)
  BY FlushHeard
<1>5. QED
  BY <1>2, <1>3, <1>4 DEF Hears, Heard

\* What was heard is in order and backed, whatever of it is kept.
LEMMA HeardStays ==
  ASSUME NEW h \in Seq(Row), Hears(h), InOrder(h, now), prints' \in Seq(MarketPrint),
         Backed(h, prints', gaps'), now \in Nat, now' \in Nat, now <= now'
  PROVE  HeardInv'
<1>1. Heard' \in Seq(Row) /\ Begins(Heard', h)
  BY DEF Hears
<1>2. Begins(prints', prints') /\ gaps' \subseteq gaps'
  BY LenProperties DEF Begins
<1>3. InOrder(Heard', now') /\ Backed(Heard', prints', gaps')
  BY <1>1, <1>2, HeardLess
<1>4. QED
  BY <1>3 DEF HeardInv

\* What the exchange sends is heard once, twice with a gap, or not at all.
LEMMA EmitHeard ==
  ASSUME HeardInv, tape \in Seq(Row), Sound(rec), now \in Nat, now' = now,
         NEW m, NEW type, NEW change, NEW price, NEW book, NEW f,
         Emit(m, type, change, price, book, f),
         RowOf(m, type, change, price, book) \in Row,
         NEW x \in MarketPrint, x = [market |-> m, at |-> now, price |-> price],
         \/ prints' = prints /\ type # "trade"
         \/ prints' = Append(prints, x)
  PROVE  HeardInv' /\ tape' \in Seq(Row) /\ Begins(tape, tape') /\ gaps \subseteq gaps'
<1>1. PICK row \in Row : row = RowOf(m, type, change, price, book)
  OBVIOUS
<1>2. row.at = now /\ row.type = type /\ row.market = m /\ row.price = price
  BY <1>1 DEF RowOf
<1>3. prints \in Seq(MarketPrint) /\ prints' \in Seq(MarketPrint) /\ Begins(prints, prints')
  <2>1. prints \in Seq(MarketPrint) /\ Begins(prints, prints)
    BY LenProperties DEF HeardInv, Begins
  <2>2. Append(prints, x) \in Seq(MarketPrint) /\ Begins(prints, Append(prints, x))
    BY <2>1, AppendBegins
  <2>3. QED
    BY <2>1, <2>2
<1>4. Heard \in Seq(Row) /\ InOrder(Heard, now) /\ Begins(Heard, Heard)
  <2>1. rec.buffer \in Seq(Row)
    BY ProcessFields DEF Sound
  <2>2. Heard \in Seq(Row)
    BY <2>1, ConcatProperties DEF Heard
  <2>3. QED
    BY <2>2, LenProperties DEF HeardInv, Begins
<1>5. ASSUME NEW g, gaps \subseteq g
      PROVE  Backed(Heard, prints, g) /\ Backed(Heard, prints', g)
  <2>1. Backed(Heard, prints, gaps) /\ Begins(prints, prints) /\ now <= now
    BY <1>3, LenProperties DEF HeardInv, Begins
  <2>2. QED
    BY <1>3, <1>4, <1>5, <2>1, HeardLess
<1>6. CASE HandleOne(row)
  <2>1. Hears(Append(Heard, row))
    BY <1>6, HearsOne
  <2>2. gaps \subseteq gaps' /\ tape' \in Seq(Row) /\ Begins(tape, tape')
    BY <2>1 DEF Hears
  <2>3. Append(Heard, row) \in Seq(Row) /\ InOrder(Append(Heard, row), now)
    BY <1>2, <1>4, HeardInOrder, AppendProperties
  <2>4. Backed(Append(Heard, row), prints', gaps')
    <3>1. CASE prints' = prints /\ type # "trade"
      BY <1>2, <1>4, <1>5, <2>2, <3>1, HeardUnsure
    <3>2. CASE prints' = Append(prints, x)
      <4>1. Backed(Heard, prints, gaps')
        BY <1>5, <2>2
      <4>2. x = [market |-> row.market, at |-> row.at, price |-> row.price]
        BY <1>2
      <4>3. QED
        BY <1>3, <1>4, <3>2, <4>1, <4>2, HeardPrint
    <3>3. QED
      BY <3>1, <3>2
  <2>5. PICK h \in Seq(Row) : h = Append(Heard, row)
    BY <2>3
  <2>6. now' \in Nat /\ now <= now'
    OBVIOUS
  <2>7. HeardInv'
    BY <1>3, <2>1, <2>3, <2>4, <2>5, <2>6, HeardStays
  <2>8. QED
    BY <2>2, <2>7
<1>7. CASE UNCHANGED <<rec, tape, gaps>>
  <2>1. Heard' = Heard /\ Begins(tape, tape)
    BY <1>7, LenProperties DEF Heard, Begins
  <2>2. Backed(Heard, prints', gaps)
    BY <1>5
  <2>3. QED
    BY <1>3, <1>4, <1>7, <2>1, <2>2 DEF HeardInv
<1>8. CASE HandleTwice(row)
  <2>1. Hears(Append(Append(Heard, row), row)) /\ now \in gaps'
    BY <1>8, HearsTwice
  <2>2. gaps \subseteq gaps' /\ tape' \in Seq(Row) /\ Begins(tape, tape')
    BY <2>1 DEF Hears
  <2>3. Append(Heard, row) \in Seq(Row) /\ InOrder(Append(Heard, row), now)
    BY <1>2, <1>4, HeardInOrder, AppendProperties
  <2>4. Append(Append(Heard, row), row) \in Seq(Row)
        /\ InOrder(Append(Append(Heard, row), row), now)
    BY <1>2, <2>3, HeardInOrder, AppendProperties
  <2>5. Backed(Append(Heard, row), prints', gaps')
    BY <1>2, <1>4, <1>5, <2>1, <2>2, HeardUnsure
  <2>6. Backed(Append(Append(Heard, row), row), prints', gaps')
    BY <1>2, <2>1, <2>3, <2>5, HeardUnsure
  <2>7. PICK h \in Seq(Row) : h = Append(Append(Heard, row), row)
    BY <2>4
  <2>8. now' \in Nat /\ now <= now'
    OBVIOUS
  <2>9. HeardInv'
    BY <1>3, <2>1, <2>4, <2>6, <2>7, <2>8, HeardStays
  <2>10. QED
    BY <2>2, <2>9
<1>9. HandleOne(row) \/ UNCHANGED <<rec, tape, gaps>> \/ HandleTwice(row)
  BY <1>1 DEF Emit
<1>10. QED
  BY <1>6, <1>7, <1>8, <1>9

\* What a step of the exchange or the recorder is to those who read the tape:
\* the tape, the prints, the gaps and the clock only grow.
Grown ==
  /\ tape' \in Seq(Row) /\ Begins(tape, tape')
  /\ gaps \subseteq gaps' /\ content' = content
  /\ now' \in Nat /\ now <= now'
  /\ \/ prints' = prints
     \/ \E x \in MarketPrint : x.at = now /\ prints' = Append(prints, x)

\* Every step of the exchange and the recorder keeps what was heard in order
\* and backed.
LEMMA RecorderHeard ==
  ASSUME RecorderInv, HeardInv, RecorderNext
  PROVE  HeardInv' /\ Grown
<1>1. /\ now \in 0..MaxTime /\ tape \in Seq(Row) /\ Sound(rec) /\ feed \in Exchange
      /\ prints \in Seq(MarketPrint)
  BY DEF RecorderInv, HeardInv, Sound
<1>2. now \in Nat
  BY <1>1
<1>3. Heard \in Seq(Row) /\ InOrder(Heard, now) /\ Backed(Heard, prints, gaps)
  <2>1. rec.buffer \in Seq(Row)
    BY <1>1, ProcessFields DEF Sound
  <2>2. QED
    BY <1>1, <2>1, ConcatProperties DEF Heard, HeardInv
<1>4. Begins(tape, tape) /\ Begins(prints, prints) /\ Begins(Heard, Heard)
  BY <1>1, <1>3, LenProperties DEF Begins
<1>5. ASSUME UNCHANGED <<content, now, prints, rec, tape, gaps>> PROVE HeardInv' /\ Grown
  BY <1>1, <1>2, <1>4, <1>5 DEF HeardInv, Heard, Grown
<1>6. ASSUME NEW ok \in BOOLEAN, AppendBatch(rec, ok), rec'.buffer = <<>>,
             UNCHANGED <<content, now, prints, gaps>>
      PROVE  HeardInv' /\ Grown
  <2>1. Hears(Heard)
    BY <1>1, <1>6, HearsNothing
  <2>2. HeardInv'
    BY <1>1, <1>2, <1>3, <1>6, <2>1, HeardStays
  <2>3. QED
    BY <1>2, <1>6, <2>1, <2>2 DEF Hears, Grown
<1>7. ASSUME NEW m \in Markets, NEW type \in RowTypes, NEW change \in Int,
             NEW price \in PrintPrices \cup {0}, NEW book \in Nat, NEW f,
             Emit(m, type, change, price, book, f), UNCHANGED <<content, now>>,
             \/ prints' = prints /\ type # "trade"
             \/ prints' = Append(prints, [market |-> m, at |-> now, price |-> price])
      PROVE  HeardInv' /\ Grown
  <2>1. RowOf(m, type, change, price, book) \in Row
    BY <1>1, <1>2, SentRow
  <2>2. PICK x \in MarketPrint : x = [market |-> m, at |-> now, price |-> price]
    <3>1. price \in Int
      BY RecorderAssumption
    <3>2. QED
      BY <1>2, <3>1 DEF MarketPrint
  <2>3. x.at = now /\ (prints' = prints \/ prints' = Append(prints, x))
    BY <1>7, <2>2
  <2>4. HeardInv' /\ tape' \in Seq(Row) /\ Begins(tape, tape') /\ gaps \subseteq gaps'
    BY <1>1, <1>2, <1>7, <2>1, <2>2, EmitHeard
  <2>5. QED
    BY <1>2, <1>7, <2>3, <2>4 DEF Grown
<1>8. ASSUME NEW m \in Markets, Snapshot(m) PROVE HeardInv' /\ Grown
  <2>1. PICK book \in Nat : book = feed.book[m]
    BY <1>1, ExchangeFields
  <2>2. Emit(m, "snapshot", 0, 0, book, [feed EXCEPT !.owed = @ \ {m}])
        /\ UNCHANGED <<now, content, prints>>
    BY <1>8, <2>1 DEF Snapshot
  <2>3. "snapshot" \in RowTypes /\ 0 \in Int /\ 0 \in PrintPrices \cup {0}
    BY DEF RowTypes
  <2>4. QED
    BY <1>7, <2>2, <2>3
<1>9. ASSUME NEW m \in Moving, NEW c \in {-1, 1}, BookChanges(m, c) PROVE HeardInv' /\ Grown
  <2>1. m \in Markets /\ "delta" \in RowTypes /\ c \in Int /\ 0 \in PrintPrices \cup {0}
    BY Constants DEF RowTypes
  <2>2. PICK level \in Nat : level = feed.book[m] + c
    <3>1. MaxBook \in Nat /\ feed.book[m] + c \in 0..MaxBook
      BY <1>9, Constants DEF BookChanges
    <3>2. QED
      BY <3>1
  <2>3. PICK f : f = [feed EXCEPT !.book[m] = level, !.moves = @ + 1]
    OBVIOUS
  <2>4. /\ \/ Emit(m, "delta", c, 0, level, f)
           \/ UNCHANGED <<rec, tape, gaps>>
        /\ UNCHANGED <<now, content, prints>>
    BY <1>9, <2>2, <2>3 DEF BookChanges
  <2>5. CASE Emit(m, "delta", c, 0, level, f)
    BY <1>7, <2>1, <2>4, <2>5
  <2>6. CASE UNCHANGED <<rec, tape, gaps>>
    BY <1>5, <2>4, <2>6
  <2>7. QED
    BY <2>4, <2>5, <2>6
<1>10. ASSUME NEW m \in Moving, NEW p \in PrintPrices, Trades(m, p) PROVE HeardInv' /\ Grown
  <2>1. m \in Markets /\ "trade" \in RowTypes /\ 0 \in Int /\ p \in PrintPrices \cup {0} /\ 0 \in Nat
    BY Constants DEF RowTypes
  <2>2. PICK f : f = [feed EXCEPT !.moves = @ + 1]
    OBVIOUS
  <2>3. /\ \/ Emit(m, "trade", 0, p, 0, f)
           \/ UNCHANGED <<rec, tape, gaps>>
        /\ UNCHANGED <<now, content>>
        /\ prints' = Append(prints, [market |-> m, at |-> now, price |-> p])
    BY <1>10, <2>2 DEF Trades
  <2>4. CASE Emit(m, "trade", 0, p, 0, f)
    BY <1>7, <2>1, <2>3, <2>4
  <2>5. CASE UNCHANGED <<rec, tape, gaps>>
    <3>1. PICK x \in MarketPrint : x = [market |-> m, at |-> now, price |-> p]
      <4>1. p \in Int
        BY RecorderAssumption
      <4>2. QED
        BY <1>2, <2>1, <4>1 DEF MarketPrint
    <3>2. prints' = Append(prints, x) /\ x.at = now
      BY <2>3, <3>1
    <3>3. prints' \in Seq(MarketPrint) /\ Begins(prints, prints')
      BY <1>1, <3>2, AppendBegins
    <3>4. Backed(Heard, prints', gaps)
      BY <1>1, <1>2, <1>3, <1>4, <3>3, HeardLess
    <3>5. Heard' = Heard
      BY <2>5 DEF Heard
    <3>6. HeardInv'
      BY <1>3, <2>3, <2>5, <3>3, <3>4, <3>5 DEF HeardInv
    <3>7. QED
      BY <1>1, <1>2, <1>4, <2>3, <2>5, <3>2, <3>6 DEF Grown
  <2>6. QED
    BY <2>3, <2>4, <2>5
<1>11. ASSUME rec'.buffer = <<>>, UNCHANGED <<now, content, prints, tape, gaps>>
       PROVE  HeardInv' /\ Grown
  <2>1. Heard' = tape
    BY <1>1, <1>11, ConcatEmptySeq DEF Heard
  <2>2. rec.buffer \in Seq(Row)
    BY <1>1, ProcessFields DEF Sound
  <2>3. Begins(tape, Heard)
    BY <1>1, <2>2, ConcatBegins DEF Heard
  <2>4. InOrder(tape, now) /\ Backed(tape, prints, gaps)
    <3>1. now <= now /\ gaps \subseteq gaps
      BY <1>2
    <3>2. QED
      BY <1>1, <1>2, <1>3, <1>4, <2>3, <3>1, HeardLess
  <2>5. QED
    BY <1>1, <1>2, <1>4, <1>11, <2>1, <2>4 DEF HeardInv, Grown
<1>12. NoRecorder.buffer = <<>> /\ Started.buffer = <<>>
  BY DEF NoRecorder, Started
<1>13. CASE StartRecorder
  <2>1. rec'.buffer = <<>>
    <3>1. [NoRecorder EXCEPT !.state = "done", !.exit = 1].buffer = <<>>
      BY DEF NoRecorder
    <3>2. QED
      BY <1>12, <1>13, <3>1 DEF StartRecorder
  <2>2. QED
    BY <1>11, <1>13, <2>1 DEF StartRecorder
<1>14. CASE Connect
  <2>1. UNCHANGED <<now, content, prints, tape, gaps>> /\ rec' = [rec EXCEPT !.state = "up"]
    BY <1>14 DEF Connect
  <2>2. rec'.buffer = rec.buffer
    BY <1>1, <2>1 DEF Sound, Process
  <2>3. Heard' = Heard
    BY <2>1, <2>2 DEF Heard
  <2>4. QED
    BY <1>1, <1>2, <1>4, <2>1, <2>3 DEF HeardInv, Grown
<1>15. ASSUME NEW ok \in BOOLEAN, NEW r, r = Flush(rec, ok) PROVE r \in Process /\ r.buffer = <<>>
  BY <1>1, <1>15, Flushing DEF Sound
<1>16. CASE Disconnect
  <2>1. PICK ok \in BOOLEAN :
          AppendBatch(rec, ok) /\ rec' = [Flush(rec, ok) EXCEPT !.state = "down", !.last = NoneSeen]
    BY <1>16 DEF Disconnect
  <2>2. PICK r : r = Flush(rec, ok)
    OBVIOUS
  <2>3. rec'.buffer = <<>>
    BY <1>15, <2>1, <2>2 DEF Process
  <2>4. UNCHANGED <<now, content, prints, gaps>>
    BY <1>16 DEF Disconnect
  <2>5. QED
    BY <1>6, <2>1, <2>3, <2>4
<1>17. CASE Finish
  <2>1. PICK ok \in BOOLEAN :
          /\ AppendBatch(rec, ok)
          /\ rec' = [Flush(rec, ok) EXCEPT !.state = "done",
                       !.exit = IF Flush(rec, ok).stats.written = 0 THEN 1 ELSE 0]
    BY <1>17 DEF Finish
  <2>2. PICK r : r = Flush(rec, ok)
    OBVIOUS
  <2>3. rec'.buffer = <<>>
    <3>1. PICK exit : exit = IF r.stats.written = 0 THEN 1 ELSE 0
      OBVIOUS
    <3>2. rec' = [r EXCEPT !.state = "done", !.exit = exit]
      BY <2>1, <2>2, <3>1
    <3>3. QED
      BY <1>15, <2>2, <3>2 DEF Process
  <2>4. UNCHANGED <<now, content, prints, gaps>>
    BY <1>17 DEF Finish
  <2>5. QED
    BY <1>6, <2>1, <2>3, <2>4
<1>18. CASE KillRecorder
  BY <1>11, <1>12, <1>18 DEF KillRecorder
<1>19. CASE Tick
  <2>1. now' = now + 1 /\ UNCHANGED <<content, prints, rec, tape, gaps>>
    BY <1>19 DEF Tick
  <2>2. now' \in Nat /\ now <= now' /\ Heard' = Heard
    BY <1>2, <2>1 DEF Heard
  <2>3. InOrder(Heard, now')
    <3>1. gaps \subseteq gaps
      OBVIOUS
    <3>2. QED
      BY <1>1, <1>2, <1>3, <1>4, <2>2, <3>1, HeardLess
  <2>4. QED
    BY <1>1, <1>3, <1>4, <2>1, <2>2, <2>3 DEF HeardInv, Grown
<1>20. QED
  BY <1>8, <1>9, <1>10, <1>13, <1>14, <1>16, <1>17, <1>18, <1>19 DEF RecorderNext

-----------------------------------------------------------------------------
(***************************************************************************)
(* One order against a tape and a market: operators of a tape s, prints p  *)
(* and an order's row r, of which the model's are instances.               *)
(***************************************************************************)

Statuses == {"none", "not_placed", "pending", "filled", "partial", "unfilled", "unproven"}
OrderRow == [status : Statuses, market : Markets \cup {NoOrder}, start : Nat,
             prices : Seq(Int), filled : 0..Quantity]
Verdict  == [status : {"pending", "filled", "partial", "unfilled", "unproven"},
             filled : 0..Quantity]

Closing(r) == r.start + Rest * Len(r.prices)

InWindow(s, r, i) ==
  LET start == r.start + Rest * (i - 1)
  IN {k \in {j \in DOMAIN s : s[j].market = r.market /\ s[j].type = "trade" /\ s[j].payload} :
        s[k].at \in start..(start + Rest) /\ Through(s[k], r.prices[i])}

Filling(s, r) == Walk([i \in 1..Len(r.prices) |-> Cardinality(InWindow(s, r, i))])

ThroughPairs(p, r) ==
  {ki \in (DOMAIN p) \X (DOMAIN r.prices) :
    LET print == p[ki[1]]
        opens == r.start + Rest * (ki[2] - 1)
    IN /\ print.market = r.market
       /\ opens <= print.at /\ print.at <= opens + Rest
       /\ print.price < r.prices[ki[2]]}

\* A row after the last window has arrived.
Past(s, r) == \E k \in 1..Len(s) : s[k].at > Closing(r)

\* The fields of an order.
LEMMA OrderFields ==
  ASSUME NEW r \in OrderRow
  PROVE  /\ r.start \in Nat /\ r.prices \in Seq(Int) /\ Len(r.prices) \in Nat
         /\ DOMAIN r.prices = 1..Len(r.prices) /\ Closing(r) \in Nat /\ r.start <= Closing(r)
         /\ r.filled \in 0..Quantity /\ r.status \in Statuses
<1>1. r.start \in Nat /\ r.prices \in Seq(Int) /\ r.filled \in 0..Quantity /\ r.status \in Statuses
  BY DEF OrderRow
<1>2. PICK n \in Nat : n = Len(r.prices) /\ DOMAIN r.prices = 1..n
  BY <1>1, LenProperties
<1>3. Rest * n \in Nat
  BY ShadowConstants
<1>4. QED
  BY <1>1, <1>2, <1>3 DEF Closing

\* A step's window lies within the order's.
LEMMA WindowWithin ==
  ASSUME NEW r \in OrderRow, NEW i \in 1..Len(r.prices)
  PROVE  LET start == r.start + Rest * (i - 1)
         IN start \in Nat /\ r.start <= start /\ start + Rest <= Closing(r)
<1>1. PICK n \in Nat, a \in Nat : n = Len(r.prices) /\ a = r.start
  BY OrderFields
<1>2. i \in Nat /\ i - 1 \in Nat /\ n - i \in Nat
  BY <1>1
<1>3. Rest * (i - 1) \in Nat /\ Rest * (n - i) \in Nat /\ Rest \in Nat
  BY <1>2, ShadowConstants
<1>4. Rest * n = Rest * (i - 1) + Rest + Rest * (n - i)
  <2>1. \A a1, b1, c1 \in Nat : c1 * (a1 + 1 + b1) = c1 * a1 + c1 + c1 * b1
    OBVIOUS
  <2>2. n = (i - 1) + 1 + (n - i)
    BY <1>1, <1>2
  <2>3. Rest * ((i - 1) + 1 + (n - i)) = Rest * (i - 1) + Rest + Rest * (n - i)
    BY <1>2, <1>3, <2>1
  <2>4. QED
    BY <2>2, <2>3
<1>5. a + Rest * (i - 1) \in Nat /\ a <= a + Rest * (i - 1)
      /\ a + Rest * (i - 1) + Rest <= a + Rest * n
  BY <1>3, <1>4
<1>6. QED
  BY <1>1, <1>5 DEF Closing

\* A window holds a number of rows.
LEMMA WindowFinite ==
  ASSUME NEW s \in Seq(Row), NEW r, NEW i
  PROVE  /\ InWindow(s, r, i) \subseteq 1..Len(s) /\ IsFiniteSet(InWindow(s, r, i))
         /\ Cardinality(InWindow(s, r, i)) \in Nat
<1>1. Len(s) \in Nat /\ DOMAIN s = 1..Len(s)
  BY LenProperties
<1>2. InWindow(s, r, i) \subseteq 1..Len(s)
  BY <1>1 DEF InWindow
<1>3. IsFiniteSet(1..Len(s))
  BY <1>1, FS_Interval
<1>4. QED
  BY <1>2, <1>3, FS_Subset, FS_CardinalityType

\* What a walk over a tape fills is within what was asked for.
LEMMA FillingWithin ==
  ASSUME NEW s \in Seq(Row), NEW r \in OrderRow
  PROVE  Filling(s, r) \in 0..Quantity
<1>1. Len(r.prices) \in Nat /\ \A i : Cardinality(InWindow(s, r, i)) \in Nat
  BY OrderFields, WindowFinite
<1>2. [i \in 1..Len(r.prices) |-> Cardinality(InWindow(s, r, i))] \in Seq(Nat)
  <2>1. [i \in 1..Len(r.prices) |-> Cardinality(InWindow(s, r, i))] \in [1..Len(r.prices) -> Nat]
    BY <1>1
  <2>2. QED
    BY <1>1, <2>1, SeqDef
<1>3. QED
  BY <1>2, WalkWithin DEF Filling

\* Once a row after the last window is on the tape, no row that is still to
\* come can change what the tape fills: rows come in the order of their times.
LEMMA FillingKept ==
  ASSUME NEW s \in Seq(Row), NEW q \in Seq(Row), Begins(s, q), NEW t, InOrder(q, t),
         NEW r \in OrderRow, Past(s, r)
  PROVE  Filling(q, r) = Filling(s, r) /\ Past(q, r)
<1>1. Len(s) \in Nat /\ Len(q) \in Nat /\ Len(s) <= Len(q)
      /\ DOMAIN s = 1..Len(s) /\ DOMAIN q = 1..Len(q)
  BY LenProperties DEF Begins
<1>2. \A k \in 1..Len(s) : k \in 1..Len(q) /\ q[k] = s[k]
  BY <1>1 DEF Begins
<1>3. PICK last \in 1..Len(s) : s[last].at > Closing(r)
  BY DEF Past
<1>4. \A k \in 1..Len(q) : q[k].at \in Nat
  <2>1. \A k \in 1..Len(q) : q[k] \in Row
    BY ElementOfSeq
  <2>2. QED
    BY <2>1 DEF Row
<1>5. \A k \in 1..Len(q) : k \notin 1..Len(s) => q[k].at > Closing(r)
  <2> TAKE k \in 1..Len(q)
  <2>1. SUFFICES ASSUME k \notin 1..Len(s) PROVE q[k].at > Closing(r)
    OBVIOUS
  <2>2. last \in 1..Len(q) /\ k \in last..Len(q) /\ q[last].at > Closing(r)
    BY <1>1, <1>2, <1>3, <2>1
  <2>3. q[last].at <= q[k].at
    BY <2>2 DEF InOrder
  <2>4. QED
    BY <1>4, <2>2, <2>3, OrderFields
<1>6. ASSUME NEW i \in 1..Len(r.prices) PROVE InWindow(q, r, i) = InWindow(s, r, i)
  <2>1. PICK start \in Nat : start = r.start + Rest * (i - 1) /\ start + Rest <= Closing(r)
    BY WindowWithin
  <2>2. \A k \in 1..Len(q) : q[k].at \in start..(start + Rest) => k \in 1..Len(s)
    <3> TAKE k \in 1..Len(q)
    <3>1. q[k].at \in start..(start + Rest) => ~(q[k].at > Closing(r))
      BY <1>4, <2>1, ShadowConstants, OrderFields
    <3>2. QED
      BY <1>5, <3>1
  <2>3. \A k : k \in InWindow(q, r, i) <=> k \in InWindow(s, r, i)
    <3> TAKE k
    <3>1. k \in InWindow(q, r, i) => k \in 1..Len(q) /\ q[k].at \in start..(start + Rest)
      BY <1>1, <2>1 DEF InWindow
    <3>2. k \in InWindow(s, r, i) => k \in 1..Len(s)
      BY <1>1 DEF InWindow
    <3>3. k \in 1..Len(s) => (k \in InWindow(q, r, i) <=> k \in InWindow(s, r, i))
      BY <1>1, <1>2 DEF InWindow, Through
    <3>4. QED
      BY <2>2, <3>1, <3>2, <3>3
  <2>4. QED
    BY <2>3
<1>7. [i \in 1..Len(r.prices) |-> Cardinality(InWindow(q, r, i))]
      = [i \in 1..Len(r.prices) |-> Cardinality(InWindow(s, r, i))]
  BY <1>6
<1>8. Past(q, r)
  BY <1>2, <1>3 DEF Past
<1>9. QED
  BY <1>7, <1>8 DEF Filling

\* What a market prints through an order is a number.
LEMMA ThroughFinite ==
  ASSUME NEW p \in Seq(MarketPrint), NEW r \in OrderRow
  PROVE  IsFiniteSet(ThroughPairs(p, r)) /\ Cardinality(ThroughPairs(p, r)) \in Nat
<1>1. Len(p) \in Nat /\ DOMAIN p = 1..Len(p) /\ Len(r.prices) \in Nat
      /\ DOMAIN r.prices = 1..Len(r.prices)
  BY LenProperties, OrderFields
<1>2. IsFiniteSet(DOMAIN p) /\ IsFiniteSet(DOMAIN r.prices)
  BY <1>1, FS_Interval
<1>3. IsFiniteSet((DOMAIN p) \X (DOMAIN r.prices))
  BY <1>2, FS_Product
<1>4. ThroughPairs(p, r) \subseteq (DOMAIN p) \X (DOMAIN r.prices)
  BY DEF ThroughPairs
<1>5. QED
  BY <1>3, <1>4, FS_Subset, FS_CardinalityType

\* It only grows, and not any more once the last window has closed.
LEMMA ThroughGrows ==
  ASSUME NEW p \in Seq(MarketPrint), NEW x \in MarketPrint, NEW r \in OrderRow
  PROVE  /\ Cardinality(ThroughPairs(p, r)) <= Cardinality(ThroughPairs(Append(p, x), r))
         /\ x.at > Closing(r) => ThroughPairs(Append(p, x), r) = ThroughPairs(p, r)
<1>1. PICK q \in Seq(MarketPrint) : q = Append(p, x)
  BY AppendProperties
<1>2. Len(p) \in Nat /\ Len(q) = Len(p) + 1 /\ q[Len(p) + 1] = x
      /\ \A k \in 1..Len(p) : q[k] = p[k]
  BY <1>1, LenProperties, AppendProperties
<1>3. DOMAIN p = 1..Len(p) /\ DOMAIN q = 1..(Len(p) + 1) /\ DOMAIN r.prices = 1..Len(r.prices)
  BY <1>2, LenProperties, OrderFields
<1>4. ThroughPairs(p, r) \subseteq ThroughPairs(q, r)
  BY <1>2, <1>3 DEF ThroughPairs
<1>5. ASSUME x.at > Closing(r) PROVE ThroughPairs(q, r) \subseteq ThroughPairs(p, r)
  <2> SUFFICES ASSUME NEW ki \in ThroughPairs(q, r) PROVE ki \in ThroughPairs(p, r)
    OBVIOUS
  <2>1. ki \in (1..(Len(p) + 1)) \X (1..Len(r.prices))
    BY <1>3 DEF ThroughPairs
  <2>2. PICK k \in 1..(Len(p) + 1), i \in 1..Len(r.prices) : ki = <<k, i>>
    BY <2>1
  <2>3. q[k].at <= r.start + Rest * (i - 1) + Rest
    BY <2>2 DEF ThroughPairs
  <2>4. k # Len(p) + 1
    <3>1. PICK b \in Nat : b = r.start + Rest * (i - 1) /\ b + Rest <= Closing(r)
      BY WindowWithin
    <3>2. x.at \in Nat
      BY DEF MarketPrint
    <3>3. QED
      BY <1>2, <1>5, <2>3, <3>1, <3>2, OrderFields, ShadowConstants
  <2>5. k \in 1..Len(p)
    BY <1>2, <2>2, <2>4
  <2>6. QED
    BY <1>2, <1>3, <2>2, <2>5 DEF ThroughPairs
<1>6. Cardinality(ThroughPairs(p, r)) <= Cardinality(ThroughPairs(q, r))
  BY <1>4, ThroughFinite, FS_Subset
<1>7. QED
  BY <1>1, <1>4, <1>5, <1>6

\* With no gap in its windows, an order is filled by nothing the market did
\* not print through it.
LEMMA FillingCredited ==
  ASSUME NEW s \in Seq(Row), NEW p \in Seq(MarketPrint), NEW g, Backed(s, p, g),
         NEW r \in OrderRow, \A t \in g : ~(r.start <= t /\ t <= Closing(r))
  PROVE  Filling(s, r) <= Cardinality(ThroughPairs(p, r))
<1> DEFINE n == Len(r.prices)
           printed == [i \in 1..n |-> Cardinality(InWindow(s, r, i))]
           P == ThroughPairs(p, r)
<1>1. n \in Nat /\ DOMAIN r.prices = 1..n /\ DOMAIN s = 1..Len(s) /\ DOMAIN p = 1..Len(p)
  BY OrderFields, LenProperties
<1>2. \A i : Cardinality(InWindow(s, r, i)) \in Nat
  BY WindowFinite
<1>3. printed \in Seq(Nat) /\ Len(printed) = n
  <2>1. printed \in [1..n -> Nat]
    BY <1>2
  <2> HIDE DEF printed, n
  <2>2. printed \in Seq(Nat)
    BY <1>1, <2>1, SeqDef
  <2>3. DOMAIN printed = 1..n /\ DOMAIN printed = 1..Len(printed) /\ Len(printed) \in Nat
    BY <2>1, <2>2, LenProperties
  <2>4. QED
    BY <1>1, <2>2, <2>3
<1>4. IsFiniteSet(P)
  BY ThroughFinite
<1>5. PICK f : Backs(f, s, p, g)
  BY DEF Backed
<1>6. ASSUME NEW i \in 1..n
      PROVE  printed[i] <= Cardinality({x \in P : x[2] = i})
  <2> DEFINE S == InWindow(s, r, i)
             Q == {x \in P : x[2] = i}
             e == [k \in S |-> <<f[k], i>>]
  <2>1. PICK b \in Nat : b = r.start + Rest * (i - 1) /\ r.start <= b /\ b + Rest <= Closing(r)
    BY WindowWithin
  <2>2. ASSUME NEW k \in S
        PROVE  /\ k \in Sure(s, g) /\ <<f[k], i>> \in Q
    <3>1. /\ k \in 1..Len(s) /\ s[k].market = r.market /\ s[k].type = "trade"
          /\ s[k].at \in b..(b + Rest) /\ s[k].price < r.prices[i]
      BY <1>1, <2>1 DEF InWindow, Through
    <3>2. s[k].at \notin g
      <4>1. PICK start \in Nat, rest \in Nat, end \in Nat :
              start = r.start /\ rest = Rest /\ end = Closing(r)
        BY ShadowConstants, OrderFields
      <4>2. start <= b /\ b + rest <= end
        BY <2>1, <4>1
      <4>3. PICK at \in b..(b + rest) : at = s[k].at
        BY <3>1, <4>1
      <4>4. start <= at /\ at <= end
        BY <4>2, <4>3, SMT
      <4>5. QED
        BY <4>1, <4>3, <4>4
    <3>3. k \in Sure(s, g)
      BY <3>1, <3>2 DEF Sure
    <3>4. f[k] \in 1..Len(p)
          /\ p[f[k]] = [market |-> s[k].market, at |-> s[k].at, price |-> s[k].price]
      BY <1>5, <3>3 DEF Backs
    <3>5. PICK print : print = p[f[k]]
      OBVIOUS
    <3>6. print.market = r.market /\ print.at \in b..(b + Rest) /\ print.price < r.prices[i]
      BY <3>1, <3>4, <3>5
    <3>7. b <= print.at /\ print.at <= b + Rest
      BY <2>1, <3>6, ShadowConstants
    <3>8. <<f[k], i>> \in P
      BY <1>1, <2>1, <3>4, <3>5, <3>6, <3>7 DEF ThroughPairs
    <3>9. QED
      BY <3>3, <3>8
  <2>3. IsFiniteSet(Q)
    <3>1. Q \subseteq P
      OBVIOUS
    <3> HIDE DEF Q, P
    <3>2. QED
      BY <1>4, <3>1, FS_Subset
  <2>4. e \in Injection(S, Q)
    <3>1. e \in [S -> Q]
      BY <2>2
    <3>2. ASSUME NEW k \in S, NEW l \in S, e[k] = e[l] PROVE k = l
      <4>1. f[k] = f[l]
        BY <3>2
      <4>2. k \in Sure(s, g) /\ l \in Sure(s, g)
        BY <2>2
      <4>3. QED
        BY <1>5, <4>1, <4>2 DEF Backs
    <3> HIDE DEF e, S, Q
    <3>3. QED
      BY <3>1, <3>2 DEF Injection, IsInjective
  <2>5. Cardinality(S) <= Cardinality(Q)
    <3> HIDE DEF e, S, Q
    <3>1. QED
      BY <2>3, <2>4, FS_Injection
  <2>6. QED
    BY <2>5
<1>7. Walk(printed) <= Cardinality(P)
  <2> HIDE DEF P, printed, n
  <2>1. QED
    BY <1>3, <1>4, <1>6, WalkCredited
<1>8. QED
  BY <1>7 DEF Filling

-----------------------------------------------------------------------------
(***************************************************************************)
(* The shadow orders: what their rows and the pass that judges them hold.  *)
(***************************************************************************)

Pass == [phase : {"idle", "look", "walk"}, at : Nat, todo : SUBSET Orders,
         order : Orders \cup {NoOrder}, verdicts : [Orders -> Verdict]]

\* A verdict on fills is what the tape s fills, will fill for ever, and the
\* market printed; any other status goes with no fill.
Stands(status, filled, s, p, r) ==
  IF status \in {"filled", "partial", "unfilled"}
  THEN /\ Past(s, r)
       /\ filled = Filling(s, r) /\ filled <= Cardinality(ThroughPairs(p, r))
       /\ status = VerdictOf(filled).status
  ELSE filled = 0

OrdersStand ==
  /\ \A o \in Orders : Stands(orders[o].status, orders[o].filled, tape, prints, orders[o])
  /\ content = "delta" => \A o \in Orders : orders[o].status = "none"

\* The pass holds pending orders whose grace period is over.
PassStands ==
  /\ judge.at <= now
  /\ \A o \in Orders : o \in judge.todo \/ judge.verdicts[o] # NoVerdict =>
       orders[o].status = "pending" /\ Closing(orders[o]) + Grace <= judge.at
  /\ judge.phase = "walk" => judge.order \in judge.todo /\ Past(tape, orders[judge.order])
  /\ \A o \in Orders :
       Stands(judge.verdicts[o].status, judge.verdicts[o].filled, tape, prints, orders[o])

ShadowInv ==
  /\ orders \in [Orders -> OrderRow] /\ judge \in Pass
  /\ OrdersStand /\ PassStands

TapeInv ==
  /\ RecorderInv
  /\ prints \in Seq(MarketPrint)
  /\ content = "trade" => HeardInv
  /\ ShadowInv

\* The model's operators are those of one order above.
LEMMA OrderOps ==
  ASSUME NEW o \in Orders
  PROVE  /\ WindowEnd(o) = Closing(orders[o])
         /\ WalkFill(LoadTape(orders[o].market), o) = Filling(tape, orders[o])
         /\ PrintedThrough(o) = Cardinality(ThroughPairs(prints, orders[o]))
         /\ PrintedThrough(o)' = Cardinality(ThroughPairs(prints', orders'[o]))
         /\ WindowEnd(o)' = Closing(orders'[o])
<1>1. WindowEnd(o) = Closing(orders[o]) /\ WindowEnd(o)' = Closing(orders'[o])
  BY DEF WindowEnd, Closing
<1>2. WalkFill(LoadTape(orders[o].market), o) = Filling(tape, orders[o])
  BY DEF WalkFill, LoadTape, InStep, Filling, InWindow
<1>3. /\ PrintedThrough(o) = Cardinality(ThroughPairs(prints, orders[o]))
      /\ PrintedThrough(o)' = Cardinality(ThroughPairs(prints', orders'[o]))
  BY DEF PrintedThrough, ThroughPairs
<1>4. QED
  BY <1>1, <1>2, <1>3

\* Only the market, the start and the prices of an order matter to them.
LEMMA SameOrder ==
  ASSUME NEW r, NEW q, q.market = r.market, q.start = r.start, q.prices = r.prices
  PROVE  /\ Closing(q) = Closing(r)
         /\ \A s : Past(s, q) <=> Past(s, r)
         /\ \A s : Filling(s, q) = Filling(s, r)
         /\ \A p : ThroughPairs(p, q) = ThroughPairs(p, r)
         /\ \A status, filled, s, p : Stands(status, filled, s, p, q) <=> Stands(status, filled, s, p, r)
<1>1. Closing(q) = Closing(r)
  BY DEF Closing
<1>2. \A s : Past(s, q) <=> Past(s, r)
  BY <1>1 DEF Past
<1>3. \A s : Filling(s, q) = Filling(s, r)
  <2> TAKE s
  <2>1. \A i : InWindow(s, q, i) = InWindow(s, r, i)
    BY DEF InWindow
  <2>2. QED
    BY <2>1 DEF Filling
<1>4. \A p : ThroughPairs(p, q) = ThroughPairs(p, r)
  BY DEF ThroughPairs
<1>5. QED
  BY <1>1, <1>2, <1>3, <1>4 DEF Stands

\* The fields of the pass.
LEMMA PassFields ==
  ASSUME judge \in Pass
  PROVE  /\ judge.phase \in {"idle", "look", "walk"} /\ judge.at \in Nat
         /\ judge.todo \subseteq Orders /\ judge.order \in Orders \cup {NoOrder}
         /\ judge.verdicts \in [Orders -> Verdict]
BY DEF Pass

\* Nothing is judged by a pass that is over, and it is a pass.
LEMMA IdlePass ==
  /\ Idle \in Pass /\ NoVerdict \in Verdict
  /\ NoVerdict.status = "pending" /\ NoVerdict.filled = 0
  /\ Idle.phase = "idle" /\ Idle.at = 0 /\ Idle.todo = {}
  /\ \A o \in Orders : Idle.verdicts[o] = NoVerdict
<1>1. NoVerdict \in Verdict /\ NoVerdict.status = "pending" /\ NoVerdict.filled = 0
  <2>1. 0 \in 0..Quantity
    BY ShadowConstants
  <2>2. QED
    BY <2>1 DEF NoVerdict, Verdict
<1>2. [o \in Orders |-> NoVerdict] \in [Orders -> Verdict]
  BY <1>1
<1>3. Idle \in Pass
  BY <1>2 DEF Idle, Pass
<1>4. QED
  BY <1>1, <1>3 DEF Idle

\* No pass: nothing to ask of it.
LEMMA IdleStands ==
  ASSUME now \in Nat, orders \in [Orders -> OrderRow], judge = Idle
  PROVE  judge \in Pass /\ PassStands
<1>1. /\ judge \in Pass /\ judge.phase = "idle" /\ judge.at = 0 /\ judge.todo = {}
      /\ \A o \in Orders : judge.verdicts[o] = NoVerdict
  BY IdlePass
<1>2. \A o \in Orders : judge.verdicts[o].status = "pending" /\ judge.verdicts[o].filled = 0
  BY <1>1, IdlePass
<1>3. QED
  BY <1>1, <1>2 DEF PassStands, Stands

\* A verdict stands when the tape has grown from s to q and the prints, by
\* time u, from p to w.
LEMMA VerdictKept ==
  ASSUME NEW s \in Seq(Row), NEW q \in Seq(Row), Begins(s, q), NEW t, InOrder(q, t),
         NEW p \in Seq(MarketPrint), NEW w, NEW u \in Nat,
         w = p \/ \E x \in MarketPrint : x.at = u /\ w = Append(p, x),
         NEW r \in OrderRow
  PROVE  /\ \A status, filled : Stands(status, filled, s, p, r) => Stands(status, filled, q, w, r)
         /\ Past(s, r) => Past(q, r)
         /\ Cardinality(ThroughPairs(p, r)) \in Nat /\ Cardinality(ThroughPairs(w, r)) \in Nat
         /\ Cardinality(ThroughPairs(w, r)) >= Cardinality(ThroughPairs(p, r))
         /\ u > Closing(r) => Cardinality(ThroughPairs(w, r)) = Cardinality(ThroughPairs(p, r))
<1>1. Past(s, r) => Filling(q, r) = Filling(s, r) /\ Past(q, r)
  BY FillingKept
<1>2. Filling(s, r) \in 0..Quantity
  BY FillingWithin
<1>3. w \in Seq(MarketPrint)
  BY AppendProperties
<1>4. Cardinality(ThroughPairs(p, r)) \in Nat /\ Cardinality(ThroughPairs(w, r)) \in Nat
  BY <1>3, ThroughFinite
<1>5. /\ Cardinality(ThroughPairs(p, r)) <= Cardinality(ThroughPairs(w, r))
      /\ u > Closing(r) => Cardinality(ThroughPairs(w, r)) = Cardinality(ThroughPairs(p, r))
  <2>1. CASE w = p
    BY <1>4, <2>1
  <2>2. CASE w # p
    <3>1. PICK x \in MarketPrint : x.at = u /\ w = Append(p, x)
      BY <2>2
    <3>2. QED
      BY <3>1, ThroughGrows
  <2>3. QED
    BY <2>1, <2>2
<1>6. ASSUME NEW status, NEW filled, Stands(status, filled, s, p, r)
      PROVE  Stands(status, filled, q, w, r)
  <2>1. CASE status \in {"filled", "partial", "unfilled"}
    <3>1. /\ Past(s, r) /\ filled = Filling(s, r) /\ filled <= Cardinality(ThroughPairs(p, r))
          /\ status = VerdictOf(filled).status
      BY <1>6, <2>1 DEF Stands
    <3>2. filled <= Cardinality(ThroughPairs(w, r))
      BY <1>2, <1>4, <1>5, <3>1, ShadowConstants
    <3>3. Past(q, r) /\ filled = Filling(q, r)
      BY <1>1, <3>1
    <3>4. QED
      BY <2>1, <3>1, <3>2, <3>3, Zenon DEF Stands
  <2>2. CASE status \notin {"filled", "partial", "unfilled"}
    BY <1>6, <2>2 DEF Stands
  <2>3. QED
    BY <2>1, <2>2
<1>7. QED
  BY <1>1, <1>4, <1>5, <1>6

\* The recorder's steps leave what is judged as it is.
LEMMA RecorderKeepsShadow ==
  ASSUME TapeInv, RecorderStep, content = "trade"
  PROVE  /\ TapeInv'
         /\ now' \in Nat /\ now <= now'
         /\ \A o \in Orders :
              /\ PrintedThrough(o)' >= PrintedThrough(o)
              /\ now > WindowEnd(o) => PrintedThrough(o)' = PrintedThrough(o)
<1>1. RecorderInv /\ HeardInv /\ RecorderNext /\ prints \in Seq(MarketPrint) /\ UNCHANGED shadowVars
      /\ ShadowInv
  BY DEF TapeInv, RecorderStep
<1>2. RecorderInv' /\ HeardInv' /\ Grown
  BY <1>1, RecorderStepKeeps, RecorderHeard
<1>3. /\ tape \in Seq(Row) /\ tape' \in Seq(Row) /\ Begins(tape, tape') /\ content' = content
      /\ now \in Nat /\ now' \in Nat /\ now <= now' /\ prints' \in Seq(MarketPrint)
      /\ prints' = prints \/ \E x \in MarketPrint : x.at = now /\ prints' = Append(prints, x)
  <2>1. now \in 0..MaxTime
    BY <1>1 DEF RecorderInv
  <2>2. now \in Nat
    BY <2>1
  <2>3. QED
    BY <1>1, <1>2, <2>2 DEF RecorderInv, HeardInv, Grown
<1>4. InOrder(tape', now')
  <2>1. rec'.buffer \in Seq(Row)
    BY <1>2, ProcessFields DEF RecorderInv
  <2>2. Begins(tape', Heard') /\ Heard' \in Seq(Row)
    BY <1>3, <2>1, ConcatBegins DEF Heard
  <2>3. InOrder(Heard', now') /\ Begins(prints', prints') /\ now' <= now'
    BY <1>2, <1>3, LenProperties DEF HeardInv, Begins
  <2>4. QED
    BY <1>3, <2>2, <2>3, HeardLess
<1>5. orders' = orders /\ judge' = judge /\ orders \in [Orders -> OrderRow] /\ judge \in Pass
      /\ OrdersStand /\ PassStands
  BY <1>1 DEF shadowVars, ShadowInv
<1>6. \A o \in Orders :
        /\ \A status, filled : Stands(status, filled, tape, prints, orders[o])
                                => Stands(status, filled, tape', prints', orders[o])
        /\ Past(tape, orders[o]) => Past(tape', orders[o])
        /\ Cardinality(ThroughPairs(prints', orders[o])) >= Cardinality(ThroughPairs(prints, orders[o]))
        /\ now > Closing(orders[o]) =>
             Cardinality(ThroughPairs(prints', orders[o])) = Cardinality(ThroughPairs(prints, orders[o]))
  <2> TAKE o \in Orders
  <2>1. PICK r \in OrderRow : r = orders[o]
    BY <1>5
  <2>2. PICK w : w = prints'
    OBVIOUS
  <2>3. w = prints \/ \E x \in MarketPrint : x.at = now /\ w = Append(prints, x)
    BY <1>3, <2>2
  <2>4. prints \in Seq(MarketPrint)
    BY <1>1
  <2>5. /\ \A status, filled : Stands(status, filled, tape, prints, r)
                               => Stands(status, filled, tape', w, r)
        /\ Past(tape, r) => Past(tape', r)
        /\ Cardinality(ThroughPairs(w, r)) >= Cardinality(ThroughPairs(prints, r))
        /\ now > Closing(r) =>
             Cardinality(ThroughPairs(w, r)) = Cardinality(ThroughPairs(prints, r))
    BY <1>3, <1>4, <2>3, <2>4, VerdictKept
  <2>6. QED
    BY <2>1, <2>2, <2>5
<1>7. OrdersStand'
  BY <1>3, <1>5, <1>6 DEF OrdersStand
<1>8. PassStands'
  <2>1. judge.at <= now'
    BY <1>3, <1>5, PassFields DEF PassStands
  <2>2. judge.phase = "walk" => judge.order \in Orders /\ judge.order \in judge.todo
                                /\ Past(tape, orders[judge.order])
    BY <1>5, PassFields DEF PassStands
  <2>3. QED
    BY <1>5, <1>6, <2>1, <2>2 DEF PassStands
<1>9. TapeInv'
  BY <1>2, <1>3, <1>5, <1>7, <1>8 DEF TapeInv, ShadowInv
<1>10. QED
  BY <1>3, <1>5, <1>6, <1>9, OrderOps

-----------------------------------------------------------------------------
(***************************************************************************)
(* Placing and judging.                                                    *)
(***************************************************************************)

\* Nothing that the promise speaks of has moved.
LEMMA PromiseSame ==
  ASSUME UNCHANGED <<orders, prints, now>>
  PROVE  UNCHANGED Promise!promiseVars
<1>1. \A o \in Orders : PrintedThrough(o)' = PrintedThrough(o) /\ WindowEnd(o)' = WindowEnd(o)
  BY DEF PrintedThrough, WindowEnd
<1>2. QED
  BY <1>1 DEF Promise!promiseVars

\* A step of the orders leaves the tape and the market alone.
LEMMA ShadowLeaves ==
  ASSUME TapeInv, ShadowNext
  PROVE  /\ UNCHANGED <<now, content, prints, rec, tape, gaps>>
         /\ ShadowInv' => TapeInv'
<1>1. UNCHANGED <<now, content, prints, rec, tape, gaps>>
  BY DEF ShadowNext, Place, Resolve, ResolveBegin, ResolveLook, ResolveWalk, ResolveCommit,
         ResolveFails, recorderVars
<1>2. RecorderInv'
  <2>1. RecorderInv /\ [Next]_vars
    BY DEF TapeInv, Next
  <2>2. QED
    BY <2>1, RecorderInvStep
<1>3. Heard' = Heard
  BY <1>1 DEF Heard
<1>4. QED
  BY <1>1, <1>2, <1>3 DEF TapeInv, HeardInv

\* Facts a judging step starts from.
LEMMA Judging ==
  ASSUME TapeInv
  PROVE  /\ orders \in [Orders -> OrderRow] /\ judge \in Pass /\ OrdersStand /\ PassStands
         /\ now \in Nat /\ tape \in Seq(Row) /\ prints \in Seq(MarketPrint) /\ gaps \subseteq Nat
         /\ \A o \in judge.todo : /\ o \in Orders /\ orders[o].status = "pending"
                                  /\ content = "trade" /\ HeardInv
<1>1. /\ orders \in [Orders -> OrderRow] /\ judge \in Pass /\ OrdersStand /\ PassStands
      /\ now \in 0..MaxTime /\ tape \in Seq(Row) /\ prints \in Seq(MarketPrint) /\ gaps \subseteq 0..now
      /\ content \in {"delta", "trade"} /\ (content = "trade" => HeardInv)
  BY DEF TapeInv, ShadowInv, RecorderInv
<1>2. now \in Nat /\ gaps \subseteq Nat
  BY <1>1
<1>3. judge.todo \subseteq Orders
  BY <1>1, PassFields
<1>4. \A o \in judge.todo : /\ o \in Orders /\ orders[o].status = "pending"
                            /\ content = "trade" /\ HeardInv
  BY <1>1, <1>3 DEF PassStands, OrdersStand
<1>5. QED
  BY <1>1, <1>2, <1>4

\* An order is placed once, with its window still to come.
LEMMA Placing ==
  ASSUME TapeInv, NEW o \in Orders, Place(o)
  PROVE  ShadowInv' /\ Promise!Place(o)
<1>1. /\ orders \in [Orders -> OrderRow] /\ judge \in Pass /\ OrdersStand /\ PassStands /\ now \in Nat
      /\ judge.todo \subseteq Orders
  BY Judging, PassFields
<1>2. content = "trade" /\ orders[o].status = "none"
      /\ UNCHANGED <<now, content, prints, tape, judge>>
  BY DEF Place, recorderVars
<1>3. PICK m \in Traded, cap \in Caps :
        orders' = [orders EXCEPT ![o] =
          [status |-> IF BuildPlan(StartPrice, cap) = <<>> THEN "not_placed" ELSE "pending",
           market |-> m, start |-> now, prices |-> BuildPlan(StartPrice, cap), filled |-> 0]]
  BY DEF Place
<1>4. PICK prices \in Seq(Int) : prices = BuildPlan(StartPrice, cap)
  BY ShadowConstants, PlanIsSeq
<1>5. PICK status \in {"not_placed", "pending"} :
        status = IF BuildPlan(StartPrice, cap) = <<>> THEN "not_placed" ELSE "pending"
  OBVIOUS
<1>6. PICK row : row = [status |-> status, market |-> m, start |-> now, prices |-> prices, filled |-> 0]
  OBVIOUS
<1>7. orders' = [orders EXCEPT ![o] = row]
  BY <1>3, <1>4, <1>5, <1>6
<1>8. row \in OrderRow /\ row.status = status /\ row.filled = 0 /\ row.start = now
  <2>1. m \in Markets \cup {NoOrder} /\ 0 \in 0..Quantity /\ status \in Statuses
    BY ShadowConstants DEF Statuses
  <2>2. QED
    BY <1>1, <1>6, <2>1 DEF OrderRow
<1>9. /\ orders' \in [Orders -> OrderRow] /\ orders'[o] = row
      /\ \A q \in Orders : q # o => orders'[q] = orders[q]
  BY <1>1, <1>7, <1>8
<1>10. OrdersStand'
  <2>1. Stands(row.status, row.filled, tape, prints, row)
    BY <1>8 DEF Stands
  <2>2. QED
    BY <1>1, <1>2, <1>9, <2>1 DEF OrdersStand
<1>11. PassStands'
  <2>1. o \notin judge.todo /\ judge.verdicts[o] = NoVerdict
    BY <1>1, <1>2 DEF PassStands
  <2>2. \A q \in Orders : q \in judge.todo \/ judge.verdicts[q] # NoVerdict =>
          orders'[q].status = "pending" /\ Closing(orders'[q]) + Grace <= judge.at
    BY <1>1, <1>9, <2>1 DEF PassStands
  <2>3. judge.phase = "walk" => judge.order \in judge.todo /\ Past(tape, orders'[judge.order])
    BY <1>1, <1>9, <2>1 DEF PassStands
  <2>4. \A q \in Orders :
          Stands(judge.verdicts[q].status, judge.verdicts[q].filled, tape, prints, orders'[q])
    <3>1. Stands(judge.verdicts[o].status, judge.verdicts[o].filled, tape, prints, row)
      BY <2>1, IdlePass DEF Stands
    <3>2. QED
      BY <1>1, <1>9, <3>1 DEF PassStands
  <2>5. QED
    BY <1>1, <1>2, <2>2, <2>3, <2>4 DEF PassStands
<1>12. Promise!Place(o)
  <2>1. orders[o].filled = 0
    BY <1>1, <1>2 DEF OrdersStand, Stands
  <2>2. \A q \in Orders : q # o => PrintedThrough(q)' = PrintedThrough(q) /\ WindowEnd(q)' = WindowEnd(q)
    BY <1>2, <1>9, OrderOps
  <2>3. ~(now' > WindowEnd(o)')
    <3>1. row.start <= Closing(row) /\ Closing(row) \in Nat
      BY <1>8, OrderFields
    <3>2. QED
      BY <1>1, <1>2, <1>8, <1>9, <3>1, OrderOps
  <2>4. \A q \in Orders : q # o => orders'[q].status = orders[q].status /\ orders'[q].filled = orders[q].filled
    BY <1>9
  <2>5. [q \in Orders |-> orders[q].status][o] = "none"
    BY <1>2
  <2>6. [q \in Orders |-> orders'[q].status]
        = [[q \in Orders |-> orders[q].status] EXCEPT ![o] = status]
    BY <1>8, <1>9, <2>4
  <2>7. [q \in Orders |-> orders'[q].filled] = [q \in Orders |-> orders[q].filled]
    BY <1>8, <1>9, <2>1, <2>4
  <2>8. {q \in Orders : orders'[q].status # "none" /\ now' > WindowEnd(q)'}
        = {q \in Orders : orders[q].status # "none" /\ now > WindowEnd(q)}
    BY <1>2, <2>2, <2>3, <2>4
  <2>9. \A q \in Orders \ {o} : [n \in Orders |-> PrintedThrough(n)'][q] = [n \in Orders |-> PrintedThrough(n)][q]
    BY <2>2
  <2>10. QED
    BY <2>5, <2>6, <2>7, <2>8, <2>9 DEF Promise!Place
<1>13. QED
  BY <1>1, <1>2, <1>9, <1>10, <1>11, <1>12 DEF ShadowInv

\* A pass begins with orders whose grace period is over.
LEMMA Beginning ==
  ASSUME TapeInv, ResolveBegin
  PROVE  ShadowInv'
<1>1. /\ orders \in [Orders -> OrderRow] /\ OrdersStand /\ now \in Nat
  BY Judging
<1>2. PICK due : due = {o \in Pending : now >= WindowEnd(o) + Grace}
  OBVIOUS
<1>3. judge' = [Idle EXCEPT !.phase = "look", !.at = now, !.todo = due]
      /\ UNCHANGED <<now, content, prints, tape, orders>>
  BY <1>2 DEF ResolveBegin, recorderVars
<1>4. due \subseteq Orders /\ \A o \in due : /\ orders[o].status = "pending"
                                             /\ Closing(orders[o]) + Grace <= now
  <2>1. \A o \in Orders : now >= Closing(orders[o]) + Grace <=> Closing(orders[o]) + Grace <= now
    BY <1>1, OrderFields, ShadowConstants
  <2>2. QED
    BY <1>2, <2>1, OrderOps DEF Pending
<1>5. /\ judge' \in Pass /\ judge'.phase = "look" /\ judge'.at = now /\ judge'.todo = due
      /\ \A o \in Orders : judge'.verdicts[o] = NoVerdict
  <2>1. judge' \in Pass /\ judge'.phase = "look" /\ judge'.at = now /\ judge'.todo = due
        /\ judge'.verdicts = Idle.verdicts
    BY <1>1, <1>3, <1>4, IdlePass DEF Pass
  <2>2. QED
    BY <2>1, IdlePass
<1>6. \A o \in Orders : Stands(judge'.verdicts[o].status, judge'.verdicts[o].filled, tape, prints, orders[o])
  BY <1>5, IdlePass DEF Stands
<1>7. PassStands'
  BY <1>1, <1>3, <1>4, <1>5, <1>6 DEF PassStands
<1>8. OrdersStand'
  BY <1>1, <1>3 DEF OrdersStand
<1>9. QED
  BY <1>1, <1>3, <1>5, <1>7, <1>8 DEF ShadowInv

\* One order of the pass gets a verdict that stands.
LEMMA VerdictGiven ==
  ASSUME TapeInv, NEW o \in judge.todo, NEW v \in Verdict,
         Stands(v.status, v.filled, tape, prints, orders[o]),
         NEW next \in Orders \cup {NoOrder},
         judge' = [phase |-> "look", at |-> judge.at, todo |-> judge.todo \ {o}, order |-> next,
                   verdicts |-> [judge.verdicts EXCEPT ![o] = v]],
         UNCHANGED <<now, content, prints, tape, orders>>
  PROVE  ShadowInv'
<1>1. /\ orders \in [Orders -> OrderRow] /\ judge \in Pass /\ OrdersStand /\ PassStands /\ now \in Nat
      /\ judge.todo \subseteq Orders /\ o \in Orders /\ judge.at \in Nat
      /\ judge.verdicts \in [Orders -> Verdict]
  BY Judging, PassFields
<1>2. /\ judge'.phase = "look" /\ judge'.at = judge.at /\ judge'.todo = judge.todo \ {o}
      /\ judge'.verdicts = [judge.verdicts EXCEPT ![o] = v]
      /\ judge' \in Pass
  BY <1>1 DEF Pass
<1>3. judge'.verdicts[o] = v /\ \A q \in Orders : q # o => judge'.verdicts[q] = judge.verdicts[q]
  BY <1>1, <1>2
<1>4. \A q \in Orders : q \in judge'.todo \/ judge'.verdicts[q] # NoVerdict =>
        orders[q].status = "pending" /\ Closing(orders[q]) + Grace <= judge'.at
  BY <1>1, <1>2, <1>3 DEF PassStands
<1>5. \A q \in Orders : Stands(judge'.verdicts[q].status, judge'.verdicts[q].filled, tape, prints, orders[q])
  BY <1>1, <1>3 DEF PassStands
<1>6. PassStands'
  BY <1>1, <1>2, <1>4, <1>5 DEF PassStands
<1>7. OrdersStand'
  BY <1>1 DEF OrdersStand
<1>8. QED
  BY <1>1, <1>2, <1>6, <1>7 DEF ShadowInv

\* Nothing is proven of a window that was not recorded.
LEMMA UnprovenStands ==
  /\ Unproven \in Verdict
  /\ \A s, p, r : Stands(Unproven.status, Unproven.filled, s, p, r)
<1>1. 0 \in 0..Quantity
  BY ShadowConstants
<1>2. QED
  BY <1>1 DEF Unproven, Verdict, Stands

\* A pass is its fields.
LEMMA PassIs ==
  ASSUME judge \in Pass
  PROVE  judge = [phase |-> judge.phase, at |-> judge.at, todo |-> judge.todo, order |-> judge.order,
                  verdicts |-> judge.verdicts]
BY DEF Pass

\* A covered order has a row after its last window.
LEMMA CoveredPast ==
  ASSUME tape \in Seq(Row), NEW o \in Orders, NEW m, NEW start, Covered(m, start, WindowEnd(o))
  PROVE  Past(tape, orders[o])
<1>1. PICK t \in RowsAfter(WindowEnd(o)) : TRUE
  BY DEF Covered
<1>2. PICK k \in DOMAIN tape : tape[k].at > WindowEnd(o)
  BY <1>1 DEF RowsAfter, Rows
<1>3. DOMAIN tape = 1..Len(tape)
  BY LenProperties
<1>4. QED
  BY <1>2, <1>3, OrderOps DEF Past

\* Looking at one order's coverage.
LEMMA Looking ==
  ASSUME TapeInv, ResolveLook
  PROVE  ShadowInv'
<1>1. /\ orders \in [Orders -> OrderRow] /\ judge \in Pass /\ OrdersStand /\ PassStands /\ now \in Nat
      /\ judge.todo \subseteq Orders /\ tape \in Seq(Row) /\ judge.at \in Nat
      /\ judge.verdicts \in [Orders -> Verdict] /\ judge.order \in Orders \cup {NoOrder}
  BY Judging, PassFields
<1>2. judge.phase = "look" /\ UNCHANGED <<now, content, prints, tape, orders>>
  BY DEF ResolveLook, recorderVars
<1>3. PICK o \in judge.todo :
        judge' = IF Covered(orders[o].market, orders[o].start, WindowEnd(o))
                 THEN [judge EXCEPT !.phase = "walk", !.order = o]
                 ELSE [judge EXCEPT !.todo = @ \ {o},
                         !.verdicts[o] = IF judge.at >= WindowEnd(o) + UnprovenAfter
                                         THEN Unproven ELSE @]
  BY DEF ResolveLook
<1>4. CASE Covered(orders[o].market, orders[o].start, WindowEnd(o))
  <2>1. judge' = [judge EXCEPT !.phase = "walk", !.order = o] /\ o \in Orders
    BY <1>1, <1>3, <1>4
  <2>2. /\ judge'.phase = "walk" /\ judge'.at = judge.at /\ judge'.todo = judge.todo
        /\ judge'.order = o /\ judge'.verdicts = judge.verdicts /\ judge' \in Pass
    BY <1>1, <2>1 DEF Pass
  <2>3. Past(tape, orders[o])
    BY <1>1, <1>4, <2>1, CoveredPast
  <2>4. PassStands'
    BY <1>1, <1>2, <2>2, <2>3 DEF PassStands
  <2>5. OrdersStand'
    BY <1>1, <1>2 DEF OrdersStand
  <2>6. QED
    BY <1>1, <1>2, <2>2, <2>4, <2>5 DEF ShadowInv
<1>5. CASE ~Covered(orders[o].market, orders[o].start, WindowEnd(o))
  <2>1. PICK v : v = IF judge.at >= WindowEnd(o) + UnprovenAfter THEN Unproven ELSE judge.verdicts[o]
    OBVIOUS
  <2>2. v \in Verdict /\ Stands(v.status, v.filled, tape, prints, orders[o])
    <3>1. judge.verdicts[o] \in Verdict
          /\ Stands(judge.verdicts[o].status, judge.verdicts[o].filled, tape, prints, orders[o])
      BY <1>1 DEF PassStands
    <3>2. CASE judge.at >= WindowEnd(o) + UnprovenAfter
      BY <2>1, <3>2, UnprovenStands
    <3>3. CASE ~(judge.at >= WindowEnd(o) + UnprovenAfter)
      BY <2>1, <3>1, <3>3
    <3>4. QED
      BY <3>2, <3>3
  <2>3. judge' = [judge EXCEPT !.todo = @ \ {o}, !.verdicts[o] = v]
    BY <1>3, <1>5, <2>1
  <2>4. judge' = [phase |-> "look", at |-> judge.at, todo |-> judge.todo \ {o}, order |-> judge.order,
                  verdicts |-> [judge.verdicts EXCEPT ![o] = v]]
    BY <1>1, <1>2, <2>3, PassIs
  <2>5. QED
    BY <1>1, <1>2, <2>2, <2>4, VerdictGiven
<1>6. QED
  BY <1>4, <1>5

\* Once a row after the window has arrived, "no gap" says there was none in
\* the window.
LEMMA NoGapInside ==
  ASSUME tape \in Seq(Row), gaps \subseteq Nat, NEW o \in Orders, orders[o] \in OrderRow,
         Past(tape, orders[o]), ~HasGap(orders[o].start, WindowEnd(o))
  PROVE  \A t \in gaps : ~(orders[o].start <= t /\ t <= Closing(orders[o]))
<1>1. PICK e \in Nat : e = Closing(orders[o]) /\ e = WindowEnd(o)
  BY OrderOps, OrderFields
<1>2. DOMAIN tape = 1..Len(tape) /\ \A k \in 1..Len(tape) : tape[k].at \in Nat
  <2>1. \A k \in 1..Len(tape) : tape[k] \in Row
    BY ElementOfSeq
  <2>2. QED
    BY <2>1, LenProperties DEF Row
<1>3. PICK later : later = RowsAfter(e)
  OBVIOUS
<1>4. later \in SUBSET Nat /\ \A t \in later : t > e
  BY <1>2, <1>3 DEF RowsAfter, Rows
<1>5. later # {}
  <2>1. PICK k \in 1..Len(tape) : tape[k].at > e
    BY <1>1 DEF Past
  <2>2. tape[k].at \in later
    BY <1>2, <1>3, <2>1 DEF RowsAfter, Rows
  <2>3. QED
    BY <2>2
<1>6. PICK t0 \in later : \A u \in later : t0 <= u
  BY <1>4, <1>5, Smallest
<1>7. Earliest(later) \in later
  BY <1>6 DEF Earliest
<1>8. PICK horizon \in Nat : horizon = Earliest(later) /\ horizon > e
  BY <1>4, <1>7
<1>9. ~\E t \in gaps : t >= orders[o].start /\ t <= horizon
  BY <1>1, <1>3, <1>5, <1>8 DEF HasGap
<1>10. orders[o].start \in Nat
  BY OrderFields
<1>11. QED
  BY <1>1, <1>8, <1>9, <1>10

\* A fill is one of the verdicts, and its own status.
LEMMA VerdictIs ==
  ASSUME NEW n \in 0..Quantity
  PROVE  /\ VerdictOf(n) \in Verdict /\ VerdictOf(n).filled = n
         /\ VerdictOf(n).status \in {"filled", "partial", "unfilled"}
BY DEF VerdictOf, Verdict

\* Walking one covered order over the tape.
LEMMA Walking ==
  ASSUME TapeInv, ResolveWalk
  PROVE  ShadowInv'
<1>1. /\ orders \in [Orders -> OrderRow] /\ judge \in Pass /\ OrdersStand /\ PassStands /\ now \in Nat
      /\ judge.todo \subseteq Orders /\ tape \in Seq(Row) /\ prints \in Seq(MarketPrint)
      /\ gaps \subseteq Nat
      /\ \A q \in judge.todo : content = "trade" /\ HeardInv
  BY Judging, PassFields
<1>2. PICK o : o = judge.order
  OBVIOUS
<1>3. PICK v : v = IF HasGap(orders[o].start, WindowEnd(o)) THEN Unproven
                   ELSE VerdictOf(WalkFill(LoadTape(orders[o].market), o))
  OBVIOUS
<1>4. /\ judge.phase = "walk" /\ UNCHANGED <<now, content, prints, tape, orders>>
      /\ judge' = [judge EXCEPT !.phase = "look", !.order = NoOrder, !.todo = @ \ {o},
                                !.verdicts[o] = v]
  BY <1>2, <1>3 DEF ResolveWalk, recorderVars
<1>5. o \in judge.todo /\ o \in Orders /\ Past(tape, orders[o]) /\ orders[o] \in OrderRow
  BY <1>1, <1>2, <1>4 DEF PassStands
<1>6. v \in Verdict /\ Stands(v.status, v.filled, tape, prints, orders[o])
  <2>1. CASE HasGap(orders[o].start, WindowEnd(o))
    BY <1>3, <2>1, UnprovenStands
  <2>2. CASE ~HasGap(orders[o].start, WindowEnd(o))
    <3>1. PICK n \in 0..Quantity : n = Filling(tape, orders[o])
      BY <1>1, <1>5, FillingWithin
    <3>2. v = VerdictOf(n)
      BY <1>3, <1>5, <2>2, <3>1, OrderOps
    <3>3. Backed(tape, prints, gaps)
      <4>1. rec.buffer \in Seq(Row)
        BY ProcessFields DEF TapeInv, RecorderInv
      <4>2. Begins(tape, Heard) /\ Heard \in Seq(Row)
        BY <1>1, <4>1, ConcatBegins DEF Heard
      <4>3. Backed(Heard, prints, gaps)
        BY <1>1, <1>5 DEF HeardInv
      <4>4. Begins(prints, prints) /\ now <= now
        BY <1>1, LenProperties DEF Begins
      <4>5. QED
        BY <1>1, <4>2, <4>3, <4>4, HeardLess
    <3>4. n <= Cardinality(ThroughPairs(prints, orders[o]))
      <4>1. \A t \in gaps : ~(orders[o].start <= t /\ t <= Closing(orders[o]))
        BY <1>1, <1>5, <2>2, NoGapInside
      <4>2. QED
        BY <1>1, <1>5, <3>1, <3>3, <4>1, FillingCredited
    <3>5. Stands(VerdictOf(n).status, n, tape, prints, orders[o])
      BY <1>5, <3>1, <3>4, VerdictIs DEF Stands
    <3>6. QED
      BY <3>2, <3>5, VerdictIs
  <2>3. QED
    BY <2>1, <2>2
<1>7. judge' = [phase |-> "look", at |-> judge.at, todo |-> judge.todo \ {o}, order |-> NoOrder,
                verdicts |-> [judge.verdicts EXCEPT ![o] = v]]
  BY <1>1, <1>4, PassIs
<1>8. QED
  BY <1>4, <1>5, <1>6, <1>7, VerdictGiven

\* A verdict that stands says what its fill says, and credits no more than
\* the market printed.
LEMMA VerdictAgrees ==
  ASSUME NEW v \in Verdict, v # NoVerdict, NEW s, NEW p \in Seq(MarketPrint), NEW r \in OrderRow,
         Stands(v.status, v.filled, s, p, r)
  PROVE  /\ v.status \in Promise!Verdicts /\ Promise!Agrees(v.status, v.filled)
         /\ v.filled <= Cardinality(ThroughPairs(p, r)) /\ v.filled \in 0..Quantity
<1>1. /\ v = [status |-> v.status, filled |-> v.filled] /\ v.filled \in 0..Quantity
      /\ v.status \in {"pending", "filled", "partial", "unfilled", "unproven"}
  BY DEF Verdict
<1>2. Cardinality(ThroughPairs(p, r)) \in Nat
  BY ThroughFinite
<1>3. CASE v.status \in {"filled", "partial", "unfilled"}
  <2>1. v.filled <= Cardinality(ThroughPairs(p, r)) /\ v.status = VerdictOf(v.filled).status
    BY <1>3 DEF Stands
  <2>2. Promise!Agrees(v.status, v.filled)
    BY <1>1, <2>1, ShadowConstants DEF VerdictOf, Promise!Agrees
  <2>3. QED
    BY <1>1, <1>3, <2>1, <2>2 DEF Promise!Verdicts
<1>4. CASE v.status \notin {"filled", "partial", "unfilled"}
  <2>1. v.filled = 0
    BY <1>4 DEF Stands
  <2>2. v.status = "unproven"
    BY <1>1, <1>4, <2>1 DEF NoVerdict
  <2>3. QED
    BY <1>1, <1>2, <2>1, <2>2 DEF Promise!Verdicts, Promise!Agrees
<1>5. QED
  BY <1>3, <1>4

\* All verdicts of the pass are given at once, each to a pending order whose
\* last window has closed.
LEMMA Committing ==
  ASSUME TapeInv, ResolveCommit
  PROVE  ShadowInv' /\ Promise!Judge
<1>1. /\ orders \in [Orders -> OrderRow] /\ judge \in Pass /\ OrdersStand /\ PassStands /\ now \in Nat
      /\ judge.todo \subseteq Orders /\ prints \in Seq(MarketPrint) /\ judge.at \in Nat
      /\ judge.verdicts \in [Orders -> Verdict]
  BY Judging, PassFields
<1>2. judge' = Idle /\ UNCHANGED <<now, content, prints, tape>>
  BY DEF ResolveCommit, recorderVars
<1>3. orders' = [o \in Orders |->
        IF judge.verdicts[o] = NoVerdict THEN orders[o]
        ELSE [orders[o] EXCEPT !.status = judge.verdicts[o].status, !.filled = judge.verdicts[o].filled]]
  BY DEF ResolveCommit
<1>4. ASSUME NEW o \in Orders
      PROVE  /\ orders'[o] \in OrderRow
             /\ Stands(orders'[o].status, orders'[o].filled, tape, prints, orders'[o])
             /\ Closing(orders'[o]) = Closing(orders[o])
             /\ ThroughPairs(prints, orders'[o]) = ThroughPairs(prints, orders[o])
             /\ orders'[o].status = "none" <=> orders[o].status = "none"
             /\ \/ orders'[o] = orders[o]
                \/ /\ orders[o].status = "pending" /\ now > Closing(orders[o])
                   /\ orders'[o].status \in Promise!Verdicts
                   /\ orders'[o].filled <= Cardinality(ThroughPairs(prints, orders[o]))
                   /\ Promise!Agrees(orders'[o].status, orders'[o].filled)
  <2>1. PICK r \in OrderRow, v \in Verdict : r = orders[o] /\ v = judge.verdicts[o]
    BY <1>1
  <2>2. Stands(r.status, r.filled, tape, prints, r) /\ Stands(v.status, v.filled, tape, prints, r)
    BY <1>1, <2>1 DEF OrdersStand, PassStands
  <2>3. CASE v = NoVerdict
    <3>1. orders'[o] = r
      BY <1>3, <2>1, <2>3
    <3>2. QED
      BY <2>1, <2>2, <3>1
  <2>4. CASE v # NoVerdict
    <3>1. PICK q : q = [r EXCEPT !.status = v.status, !.filled = v.filled]
      OBVIOUS
    <3>2. orders'[o] = q
      BY <1>3, <2>1, <2>4, <3>1
    <3>3. r.status = "pending" /\ Closing(r) + Grace <= judge.at /\ judge.at <= now
      BY <1>1, <2>1, <2>4 DEF PassStands
    <3>4. now > Closing(r)
      BY <1>1, <3>3, ShadowConstants, OrderFields
    <3>5. /\ v.status \in Promise!Verdicts /\ Promise!Agrees(v.status, v.filled)
          /\ v.filled <= Cardinality(ThroughPairs(prints, r)) /\ v.filled \in 0..Quantity
      BY <1>1, <2>2, <2>4, VerdictAgrees
    <3>6. v.status \in Statuses /\ v.status # "none"
      BY <3>5 DEF Statuses, Promise!Verdicts
    <3>7. /\ q \in OrderRow /\ q.status = v.status /\ q.filled = v.filled
          /\ q.market = r.market /\ q.start = r.start /\ q.prices = r.prices
      BY <3>1, <3>5, <3>6 DEF OrderRow
    <3>8. /\ Closing(q) = Closing(r) /\ ThroughPairs(prints, q) = ThroughPairs(prints, r)
          /\ Stands(v.status, v.filled, tape, prints, q)
      BY <2>2, <3>7, SameOrder
    <3>9. QED
      BY <2>1, <3>2, <3>3, <3>4, <3>5, <3>6, <3>7, <3>8
  <2>5. QED
    BY <2>3, <2>4
<1>5. orders' \in [Orders -> OrderRow]
  <2>1. orders' = [o \in Orders |-> orders'[o]]
    BY <1>3
  <2>2. QED
    BY <1>4, <2>1
<1>6. OrdersStand'
  <2>1. \A o \in Orders : Stands(orders'[o].status, orders'[o].filled, tape, prints, orders'[o])
    BY <1>4
  <2>2. content = "delta" => \A o \in Orders : orders'[o].status = "none"
    BY <1>1, <1>4 DEF OrdersStand
  <2>3. QED
    BY <1>2, <2>1, <2>2 DEF OrdersStand
<1>7. judge' \in Pass /\ PassStands'
  <2>1. now' \in Nat /\ judge' = Idle
    BY <1>1, <1>2
  <2>2. QED
    BY <1>2, <1>5, <2>1, IdlePass DEF PassStands, Stands
<1>8. Promise!Judge
  <2>1. \A o \in Orders : /\ PrintedThrough(o) = Cardinality(ThroughPairs(prints, orders[o]))
                          /\ PrintedThrough(o)' = PrintedThrough(o)
                          /\ WindowEnd(o) = Closing(orders[o])
                          /\ WindowEnd(o)' = WindowEnd(o)
    BY <1>2, <1>4, OrderOps
  <2>2. {o \in Orders : orders'[o].status # "none" /\ now' > WindowEnd(o)'}
        = {o \in Orders : orders[o].status # "none" /\ now > WindowEnd(o)}
    BY <1>2, <1>4, <2>1
  <2>3. [o \in Orders |-> PrintedThrough(o)'] = [o \in Orders |-> PrintedThrough(o)]
    BY <2>1
  <2>4. ASSUME NEW o \in Orders
        PROVE  \/ orders'[o].status = orders[o].status /\ orders'[o].filled = orders[o].filled
               \/ /\ orders[o].status = "pending"
                  /\ o \in {q \in Orders : orders[q].status # "none" /\ now > WindowEnd(q)}
                  /\ orders'[o].status \in Promise!Verdicts
                  /\ orders'[o].filled <= PrintedThrough(o)
                  /\ Promise!Agrees(orders'[o].status, orders'[o].filled)
    BY <1>4, <2>1
  <2>5. QED
    BY <2>2, <2>3, <2>4 DEF Promise!Judge
<1>9. QED
  BY <1>1, <1>5, <1>6, <1>7, <1>8 DEF ShadowInv

\* A pass that fails leaves the orders as they were.
LEMMA Failing ==
  ASSUME TapeInv, ResolveFails
  PROVE  ShadowInv'
<1>1. orders \in [Orders -> OrderRow] /\ OrdersStand /\ now \in Nat
  BY Judging
<1>2. judge' = Idle /\ UNCHANGED <<now, content, prints, tape, orders>>
  BY DEF ResolveFails
<1>3. judge' \in Pass /\ PassStands'
  <2>1. \A o \in Orders : judge'.verdicts[o].status = "pending" /\ judge'.verdicts[o].filled = 0
    BY <1>2, IdlePass
  <2>2. QED
    BY <1>1, <1>2, <2>1, IdlePass DEF PassStands, Stands
<1>4. QED
  BY <1>1, <1>2, <1>3 DEF ShadowInv, OrdersStand

\* Where no order is ever placed, the tape may be thinned and grow as it
\* likes.
LEMMA Untraded ==
  ASSUME TapeInv, RecorderInv', content = "delta",
         UNCHANGED <<content, prints, orders, judge>>, now <= now'
  PROVE  TapeInv' /\ UNCHANGED Promise!promiseVars
<1>1. /\ orders \in [Orders -> OrderRow] /\ judge \in Pass /\ OrdersStand /\ PassStands /\ now \in Nat
      /\ judge.todo \subseteq Orders /\ prints \in Seq(MarketPrint) /\ judge.at \in Nat
      /\ judge.verdicts \in [Orders -> Verdict]
  BY Judging, PassFields
<1>2. \A o \in Orders : orders[o].status = "none" /\ orders[o].filled = 0
  BY <1>1 DEF OrdersStand, Stands
<1>3. judge.todo = {} /\ judge.phase # "walk" /\ \A o \in Orders : judge.verdicts[o] = NoVerdict
  BY <1>1, <1>2 DEF PassStands
<1>4. now' \in Nat
  <2>1. now' \in 0..MaxTime'
    BY DEF RecorderInv
  <2>2. QED
    BY <2>1
<1>5. OrdersStand'
  BY <1>2 DEF OrdersStand, Stands
<1>6. PassStands'
  <2>1. \A o \in Orders : judge.verdicts[o].status = "pending" /\ judge.verdicts[o].filled = 0
    BY <1>3, IdlePass
  <2>2. judge.at <= now'
    BY <1>1, <1>4 DEF PassStands
  <2>3. QED
    BY <1>3, <2>1, <2>2 DEF PassStands, Stands
<1>7. TapeInv'
  BY <1>1, <1>5, <1>6 DEF TapeInv, ShadowInv
<1>8. \A o \in Orders : PrintedThrough(o)' = PrintedThrough(o)
  BY DEF PrintedThrough
<1>9. QED
  BY <1>2, <1>7, <1>8 DEF Promise!promiseVars

\* Every step of the tape and its users keeps the invariant, and is a step of
\* the promise or one that the promise does not see.
LEMMA TapeInvStep ==
  ASSUME TapeInv, [Next]_vars
  PROVE  TapeInv' /\ [Promise!Next]_(Promise!promiseVars)
<1>1. RecorderInv'
  <2>1. RecorderInv
    BY DEF TapeInv
  <2>2. QED
    BY <2>1, RecorderInvStep
<1>2. now \in Nat /\ content \in {"delta", "trade"}
  BY Judging DEF TapeInv, RecorderInv
<1>3. CASE RecorderStep /\ content = "trade"
  <2>1. /\ TapeInv' /\ now' \in Nat /\ now <= now'
        /\ \A o \in Orders : /\ PrintedThrough(o)' >= PrintedThrough(o)
                             /\ now > WindowEnd(o) => PrintedThrough(o)' = PrintedThrough(o)
    BY <1>3, RecorderKeepsShadow
  <2>2. orders' = orders
    BY <1>3 DEF RecorderStep, shadowVars
  <2>3. \A o \in Orders : now > WindowEnd(o) => now' > WindowEnd(o)'
    <3> TAKE o \in Orders
    <3>1. orders[o] \in OrderRow
      BY Judging
    <3>2. PICK e \in Nat : e = WindowEnd(o) /\ e = WindowEnd(o)'
      BY <2>2, <3>1, OrderOps, OrderFields
    <3>3. QED
      BY <1>2, <2>1, <3>2
  <2>4. Promise!MarketMoves
    <3>1. {o \in Orders : orders[o].status # "none" /\ now > WindowEnd(o)}
          \subseteq {o \in Orders : orders'[o].status # "none" /\ now' > WindowEnd(o)'}
      BY <2>2, <2>3
    <3>2. \A o \in Orders : [q \in Orders |-> PrintedThrough(q)'][o] >= [q \in Orders |-> PrintedThrough(q)][o]
      BY <2>1
    <3>3. \A o \in {q \in Orders : orders[q].status # "none" /\ now > WindowEnd(q)} :
            [q \in Orders |-> PrintedThrough(q)'][o] = [q \in Orders |-> PrintedThrough(q)][o]
      BY <2>1
    <3>4. QED
      BY <2>2, <3>1, <3>2, <3>3 DEF Promise!MarketMoves
  <2>5. QED
    BY <2>1, <2>4 DEF Promise!Next
<1>4. CASE RecorderStep /\ content = "delta"
  <2>1. RecorderNext /\ UNCHANGED <<orders, judge>>
    BY <1>4 DEF RecorderStep, shadowVars
  <2>2. UNCHANGED <<content, prints>> /\ (now' = now \/ now' = now + 1)
    BY <1>4, <2>1 DEF RecorderNext, Snapshot, BookChanges, Trades, StartRecorder, Connect,
                      Disconnect, Finish, KillRecorder, Tick
  <2>3. QED
    BY <1>1, <1>2, <1>4, <2>1, <2>2, Untraded
<1>5. CASE Maintenance
  <2>1. content = "delta" /\ UNCHANGED <<now, content, prints, orders, judge>>
    BY <1>5 DEF Maintenance, CareNext, CompactBatch, PruneBatch, shadowVars
  <2>2. QED
    BY <1>1, <1>2, <2>1, Untraded
<1>6. CASE ShadowNext
  <2>1. UNCHANGED <<now, content, prints, rec, tape, gaps>> /\ (ShadowInv' => TapeInv')
    BY <1>6, ShadowLeaves
  <2>2. ASSUME NEW o \in Orders, Place(o)
        PROVE  TapeInv' /\ Promise!Next
    BY <2>1, <2>2, Placing DEF Promise!Next
  <2>3. CASE ResolveBegin
    BY <2>1, <2>3, Beginning, PromiseSame DEF ResolveBegin
  <2>4. CASE ResolveLook
    BY <2>1, <2>4, Looking, PromiseSame DEF ResolveLook
  <2>5. CASE ResolveWalk
    BY <2>1, <2>5, Walking, PromiseSame DEF ResolveWalk
  <2>6. CASE ResolveCommit
    BY <2>1, <2>6, Committing DEF Promise!Next
  <2>7. CASE ResolveFails
    BY <2>1, <2>7, Failing, PromiseSame DEF ResolveFails
  <2>8. QED
    BY <1>6, <2>2, <2>3, <2>4, <2>5, <2>6, <2>7 DEF ShadowNext, Resolve
<1>7. CASE UNCHANGED vars
  <2>1. UNCHANGED <<now, content, prints, rec, tape, gaps, orders, judge>>
    BY <1>7 DEF vars, recorderVars, shadowVars
  <2>2. TapeInv'
    BY <1>1, <2>1 DEF TapeInv, HeardInv, Heard, ShadowInv, OrdersStand, PassStands
  <2>3. QED
    BY <2>1, <2>2, PromiseSame
<1>8. QED
  BY <1>2, <1>3, <1>4, <1>5, <1>6, <1>7 DEF Next

\* Nothing is heard and nothing placed yet.
LEMMA TapeInvInitially ==
  ASSUME Init
  PROVE  TapeInv /\ Promise!Init
<1>1. /\ RecorderInv /\ now = 0 /\ tape = <<>> /\ prints = <<>> /\ gaps = {} /\ rec.buffer = <<>>
      /\ orders = [o \in Orders |-> Unplaced] /\ judge = Idle
  BY RecorderInvInitially DEF Init, RecorderInit, ShadowInit, Started, NoRecorder
<1>2. prints \in Seq(MarketPrint) /\ <<>> \in Seq(Row) /\ Len(<<>>) = 0
  BY <1>1, EmptySeq
<1>3. HeardInv
  <2>1. Heard = <<>>
    BY <1>1, <1>2, ConcatEmptySeq DEF Heard
  <2>2. InOrder(Heard, now)
    BY <1>2, <2>1 DEF InOrder
  <2>3. Sure(Heard, gaps) = {}
    BY <1>2, <2>1 DEF Sure
  <2>4. \A f : Backs(f, Heard, prints, gaps)
    BY <2>3 DEF Backs
  <2>5. QED
    BY <1>2, <2>2, <2>4 DEF HeardInv, Backed
<1>4. Unplaced \in OrderRow /\ Unplaced.status = "none" /\ Unplaced.filled = 0
      /\ Unplaced.prices = <<>>
  <2>1. 0 \in 0..Quantity /\ "none" \in Statuses /\ <<>> \in Seq(Int)
    BY ShadowConstants, EmptySeq DEF Statuses
  <2>2. QED
    BY <2>1 DEF Unplaced, OrderRow
<1>5. \A o \in Orders : orders[o] = Unplaced
  BY <1>1
<1>6. OrdersStand
  BY <1>4, <1>5 DEF OrdersStand, Stands
<1>7. orders \in [Orders -> OrderRow]
  BY <1>1, <1>4
<1>8. judge \in Pass /\ PassStands
  <2>1. now \in Nat
    BY <1>1
  <2>2. QED
    BY <1>1, <1>7, <2>1, IdleStands
<1>9. TapeInv
  BY <1>1, <1>2, <1>3, <1>6, <1>7, <1>8 DEF TapeInv, ShadowInv
<1>10. Promise!Init
  <2>1. \A o \in Orders : orders[o].status = "none" /\ orders[o].filled = 0
    BY <1>4, <1>5
  <2>2. \A o \in Orders : PrintedThrough(o) = 0
    <3> TAKE o \in Orders
    <3>1. DOMAIN prints = {}
      BY <1>1, <1>2, LenProperties
    <3>2. ThroughPairs(prints, orders[o]) = {}
      BY <3>1 DEF ThroughPairs
    <3>3. QED
      BY <3>2, OrderOps, FS_EmptySet
  <2>3. {o \in Orders : orders[o].status # "none" /\ now > WindowEnd(o)} = {}
    BY <2>1
  <2>4. /\ [o \in Orders |-> orders[o].status] = [o \in Orders |-> "none"]
        /\ [o \in Orders |-> orders[o].filled] = [o \in Orders |-> 0]
        /\ [o \in Orders |-> PrintedThrough(o)] = [o \in Orders |-> 0]
    BY <2>1, <2>2
  <2>5. QED
    BY <2>3, <2>4 DEF Promise!Init
<1>11. QED
  BY <1>9, <1>10

\* The recorder's invariant and the orders' hold throughout: what was heard is
\* in order and backed by the market, and every verdict stands.
THEOREM TapeInvariant == Spec => []TapeInv
<1>1. Init => TapeInv
  BY TapeInvInitially
<1>2. TapeInv /\ [Next]_vars => TapeInv'
  BY TapeInvStep
<1>3. QED
  BY <1>1, <1>2, PTL DEF Spec

\* Every variable of the tape and its orders keeps to its domain.
THEOREM TapeTypes == Spec => []TapeTypeOK
<1>1. TapeInv => TapeTypeOK
  <2> SUFFICES ASSUME TapeInv PROVE TapeTypeOK
    OBVIOUS
  <2>1. RecorderTypeOK
    <3>1. /\ now \in 0..MaxTime /\ content \in {"delta", "trade"} /\ feed \in Exchange
          /\ feed.conn <= MaxConns /\ rec \in Process /\ Len(rec.buffer) < FlushEvery
          /\ tape \in Seq(Row) /\ gaps \subseteq 0..now /\ faults \in 0..MaxFaults
          /\ feed.owed \subseteq rec.watched
      BY DEF TapeInv, RecorderInv, Hungup
    <3>2. feed.conn \in 0..MaxConns
      BY <3>1, Constants, ExchangeFields
    <3>3. rec.exit \in {0, 1}
      BY <3>1 DEF Process
    <3>4. rec.buffer \in Seq(Row) /\ rec.state \in {"off", "down", "up", "done"}
      BY <3>1, ProcessFields
    <3>5. QED
      BY <3>1, <3>2, <3>3, <3>4 DEF RecorderTypeOK
  <2>2. ShadowTypeOK
    <3>1. orders \in [Orders -> OrderRow] /\ judge \in Pass
      BY Judging
    <3>2. \A o \in Orders : orders[o].status \in Statuses /\ orders[o].filled \in 0..Quantity
      BY <3>1, OrderFields
    <3>3. QED
      BY <3>1, <3>2, PassFields DEF ShadowTypeOK, Statuses
  <2>3. QED
    BY <2>1, <2>2 DEF TapeTypeOK
<1>2. QED
  BY <1>1, TapeInvariant, PTL

\* Nothing is judged too early: judging a judged order again, on the tape as
\* it has become since, gives the same fill.
THEOREM VerdictsNeverChange == Spec => []VerdictsStand
<1>1. TapeInv => VerdictsStand
  <2> SUFFICES ASSUME TapeInv, NEW o \in Orders, Judged(o)
               PROVE  orders[o].filled = WalkFill(LoadTape(orders[o].market), o)
    BY DEF VerdictsStand
  <2>1. Stands(orders[o].status, orders[o].filled, tape, prints, orders[o])
    BY Judging DEF OrdersStand
  <2>2. orders[o].filled = Filling(tape, orders[o])
    BY <2>1 DEF Judged, Stands
  <2>3. QED
    BY <2>2, OrderOps
<1>2. QED
  BY <1>1, TapeInvariant, PTL

\* However the recorder fares, the shadow orders implement their promise:
\* judged once, never early, and credited with nothing the market did not
\* print through them.
THEOREM ShadowKeepsPromise == Spec => PromiseKept
<1>1. Init => Promise!Init
  BY TapeInvInitially
<1>2. TapeInv /\ [Next]_vars => [Promise!Next]_(Promise!promiseVars)
  BY TapeInvStep
<1>3. QED
  BY <1>1, <1>2, TapeInvariant, PTL DEF Spec, PromiseKept, Promise!Spec

-----------------------------------------------------------------------------
(***************************************************************************)
(* The replay, row by row.                                                 *)
(***************************************************************************)

\* What place i of the tape makes of a replay.
Replayed(run, rows, source, i) == IF i \in source THEN ReplayStep(run, rows[i]) ELSE run

\* T is the replay of the first n rows.
Replays(T, rows, source, n) ==
  T = [i \in 0..n |-> IF i = 0 THEN NewRun ELSE Replayed(T[i - 1], rows, source, i)]

\* There is a replay of any number of rows.
LEMMA ReplayExists ==
  ASSUME NEW n \in Nat, NEW rows, NEW source
  PROVE  \E T : Replays(T, rows, source, n)
<1> DEFINE Lacking == {k \in Nat : ~\E T : Replays(T, rows, source, k)}
<1>1. SUFFICES ASSUME Lacking # {} PROVE FALSE
  OBVIOUS
<1>2. PICK k \in Lacking : \A j \in Lacking : k <= j
  <2>1. Lacking \in SUBSET Nat
    OBVIOUS
  <2> HIDE DEF Lacking
  <2>2. QED
    BY <1>1, <2>1, Smallest
<1>3. k \in Nat /\ ~\E T : Replays(T, rows, source, k)
  BY <1>2
<1>4. CASE k = 0
  <2>1. Replays([i \in 0..0 |-> NewRun], rows, source, 0)
    BY DEF Replays
  <2>2. QED
    BY <1>3, <1>4, <2>1
<1>5. CASE k # 0
  <2>1. k - 1 \in Nat /\ ~(k <= k - 1)
    BY <1>3, <1>5
  <2>2. k - 1 \notin Lacking
    BY <1>2, <2>1
  <2>3. PICK T : Replays(T, rows, source, k - 1)
    BY <2>1, <2>2
  <2> DEFINE U == [i \in 0..k |-> IF i = k THEN Replayed(T[k - 1], rows, source, k) ELSE T[i]]
  <2>4. ASSUME NEW i \in 0..k
        PROVE  U[i] = IF i = 0 THEN NewRun ELSE Replayed(U[i - 1], rows, source, i)
    <3>1. CASE i = k
      <4>1. U[k] = Replayed(T[k - 1], rows, source, k) /\ U[k - 1] = T[k - 1]
        BY <2>1
      <4>2. QED
        BY <1>5, <3>1, <4>1
    <3>2. CASE i # k
      <4>1. i \in 0..(k - 1) /\ U[i] = T[i]
        BY <1>3, <3>2
      <4>2. T[i] = IF i = 0 THEN NewRun ELSE Replayed(T[i - 1], rows, source, i)
        BY <2>3, <4>1 DEF Replays
      <4>3. i # 0 => U[i - 1] = T[i - 1]
        BY <1>3, <3>2
      <4>4. QED
        BY <4>1, <4>2, <4>3
    <3>3. QED
      BY <3>1, <3>2
  <2>5. Replays(U, rows, source, k)
    <3>1. U = [i \in 0..k |-> U[i]]
      OBVIOUS
    <3> HIDE DEF U
    <3>2. QED
      BY <2>4, <3>1 DEF Replays
  <2>6. QED
    BY <1>3, <2>5
<1>6. QED
  BY <1>4, <1>5

\* A replay takes the rows one at a time, and ends where the model says.
LEMMA ReplayIs ==
  ASSUME NEW rows, Len(rows) \in Nat, NEW source
  PROVE  \E T : /\ T[0] = NewRun
                /\ \A i \in 1..Len(rows) : T[i] = Replayed(T[i - 1], rows, source, i)
                /\ ReplayRows(rows, source) = T[Len(rows)]
<1> DEFINE n == Len(rows)
           Body(f) == [i \in 0..n |-> IF i = 0 THEN NewRun
                                      ELSE IF i \in source THEN ReplayStep(f[i - 1], rows[i])
                                      ELSE f[i - 1]]
<1>1. PICK f : f = Body(f)
  <2>1. PICK T : Replays(T, rows, source, n)
    BY ReplayExists
  <2>2. T = Body(T)
    BY <2>1 DEF Replays, Replayed
  <2>3. QED
    BY <2>2
<1>2. PICK T : T = (CHOOSE g : g = Body(g))
  OBVIOUS
<1>3. ReplayRows(rows, source) = T[n]
  BY <1>2 DEF ReplayRows
<1>4. T = Body(T)
  <2>1. (\E g : g = Body(g)) => (CHOOSE g : g = Body(g)) = Body(CHOOSE g : g = Body(g))
    BY Zenon
  <2>2. QED
    BY <1>1, <1>2, <2>1, Zenon
<1>5. T[0] = NewRun
  BY <1>4
<1>6. ASSUME NEW i \in 1..n PROVE T[i] = Replayed(T[i - 1], rows, source, i)
  <2>1. i \in 0..n /\ i # 0
    OBVIOUS
  <2>2. QED
    BY <1>4, <2>1 DEF Replayed
<1>7. QED
  BY <1>3, <1>5, <1>6

-----------------------------------------------------------------------------
(***************************************************************************)
(* The replay is sound on a tape whose rows follow from each other.        *)
(***************************************************************************)

Engine    == [sid : Nat, seq : Nat, base : BOOLEAN, level : Int]
ReplayRun == [engine : Engine, states : Seq(Row \X Int), applied : Nat, prints : Nat,
              refusals : Nat]

\* The book after the next message of a subscription is the book before it and
\* the change, and messages are numbered from 1.
Follows(a, b) ==
  a.market = b.market /\ a.sid = b.sid /\ b.seq = a.seq + 1 /\ b.type = "delta"
    => b.book = a.book + b.change
Chained(rows) ==
  \A i, j \in 1..Len(rows) :
    rows[i].type # "trade" /\ rows[j].type # "trade" => rows[i].seq > 0 /\ Follows(rows[i], rows[j])

\* A replay with a base holds the book of a row of the market it replays.
Holds(engine, rows, m) ==
  engine.base => \E k \in 1..Len(rows) :
    /\ rows[k].market = m /\ rows[k].type # "trade"
    /\ rows[k].sid = engine.sid /\ rows[k].seq = engine.seq /\ rows[k].book = engine.level

\* What is emitted is the exchange's book.
EmitsBooks(states) == \A i \in DOMAIN states : states[i][2] = states[i][1].book

\* The fields of a row.
LEMMA RowFields ==
  ASSUME NEW row \in Row
  PROVE  /\ row.market \in Markets /\ row.type \in RowTypes /\ row.sid \in Nat /\ row.seq \in Nat
         /\ row.at \in Nat /\ row.change \in Int /\ row.book \in Nat /\ row.payload \in BOOLEAN
BY DEF Row

\* Each row that a replay applies leaves it with that row's book.
LEMMA Applying ==
  ASSUME NEW rows \in Seq(Row), Chained(rows), NEW m, NEW e \in Engine, Holds(e, rows, m),
         NEW k \in 1..Len(rows), rows[k].market = m, rows[k].type # "trade",
         NEW next, next = ApplyRow(e, rows[k]), ~IsRefused(next)
  PROVE  next \in Engine /\ Holds(next, rows, m) /\ next.level = rows[k].book
<1>1. PICK row \in Row : row = rows[k]
  BY ElementOfSeq
<1>2. /\ row.sid \in Nat /\ row.seq \in Nat /\ row.change \in Int /\ row.book \in Nat
      /\ row.type \in RowTypes
  BY RowFields
<1>3. e.sid \in Nat /\ e.seq \in Nat /\ e.base \in BOOLEAN /\ e.level \in Int
  BY DEF Engine
<1>4. PICK checked : checked = CheckSequence(e, row)
  OBVIOUS
<1>5. PICK changed : changed = IF IsRefused(checked) \/ ~Readable(row) THEN Refused
                               ELSE IF row.type = "snapshot"
                                    THEN [checked EXCEPT !.base = TRUE, !.level = row.book]
                                    ELSE ApplyDelta(checked, row)
  OBVIOUS
<1>6. next = IF IsRefused(changed) THEN Refused ELSE [changed EXCEPT !.seq = row.seq]
  BY <1>1, <1>4, <1>5 DEF ApplyRow
<1>7. ~IsRefused(changed) /\ next = [changed EXCEPT !.seq = row.seq]
  BY <1>6 DEF IsRefused
<1>8. ~IsRefused(checked)
  BY <1>5, <1>7 DEF IsRefused
<1>9. /\ checked \in Engine /\ checked.sid = row.sid
      /\ checked.base => checked = e /\ (e.seq = 0 \/ row.seq = e.seq + 1)
  <2>1. CASE row.sid # e.sid
    <3>1. PICK none \in BOOLEAN : none = FALSE
      OBVIOUS
    <3>2. checked = [sid |-> row.sid, seq |-> 0, base |-> none, level |-> 0]
      BY <1>4, <2>1, <3>1 DEF CheckSequence, NewReplay, NoSid
    <3>3. QED
      BY <1>2, <3>1, <3>2 DEF Engine
  <2>2. CASE row.sid = e.sid
    <3>1. checked = e /\ ~(e.seq # NoSid /\ row.seq # e.seq + 1)
      BY <1>4, <1>8, <2>2 DEF CheckSequence, IsRefused
    <3>2. QED
      BY <2>2, <3>1 DEF NoSid
  <2>3. QED
    BY <2>1, <2>2
<1>10. changed \in Engine /\ changed.level = row.book /\ changed.sid = row.sid
  <2>1. CASE row.type = "snapshot"
    <3>1. PICK yes \in BOOLEAN : yes = TRUE
      OBVIOUS
    <3>2. PICK book \in Int, e0 \in Engine : book = row.book /\ e0 = checked
      BY <1>2, <1>9
    <3>3. changed = [e0 EXCEPT !.base = yes, !.level = book]
      BY <1>5, <1>7, <2>1, <3>1, <3>2 DEF IsRefused
    <3>4. changed \in Engine /\ changed.level = book /\ changed.sid = e0.sid
      BY <3>3 DEF Engine
    <3>5. QED
      BY <1>9, <3>2, <3>4
  <2>2. CASE row.type # "snapshot"
    <3>1. changed = ApplyDelta(checked, row) /\ row.type = "delta"
      BY <1>1, <1>2, <1>5, <1>7, <2>2 DEF IsRefused, RowTypes
    <3>2. checked.base /\ changed = [checked EXCEPT !.level = @ + row.change]
      BY <1>7, <3>1 DEF ApplyDelta, IsRefused
    <3>3. PICK j \in 1..Len(rows) :
            /\ rows[j].market = m /\ rows[j].type # "trade"
            /\ rows[j].sid = e.sid /\ rows[j].seq = e.seq /\ rows[j].book = e.level
      BY <1>9, <3>2 DEF Holds
    <3>4. e.seq > 0 /\ Follows(rows[j], row)
      BY <1>1, <3>3 DEF Chained
    <3>5. row.book = e.level + row.change
      BY <1>1, <1>3, <1>9, <3>1, <3>2, <3>3, <3>4 DEF Follows
    <3>6. PICK level \in Int : level = e.level + row.change
      BY <1>2, <1>3
    <3>7. changed = [e EXCEPT !.level = level]
      BY <1>9, <3>2, <3>6
    <3>8. changed \in Engine /\ changed.level = level /\ changed.sid = e.sid
      BY <3>7 DEF Engine
    <3>9. e.sid = row.sid
      BY <1>9, <3>2
    <3>10. QED
      BY <3>5, <3>6, <3>8, <3>9
  <2>3. QED
    BY <2>1, <2>2
<1>11. next \in Engine /\ next.level = row.book /\ next.sid = row.sid /\ next.seq = row.seq
  BY <1>2, <1>7, <1>10 DEF Engine
<1>12. Holds(next, rows, m)
  BY <1>1, <1>11 DEF Holds
<1>13. QED
  BY <1>1, <1>11, <1>12

\* One row keeps a sound replay sound.
LEMMA ReplayingOne ==
  ASSUME NEW rows \in Seq(Row), Chained(rows), NEW m, NEW run \in ReplayRun,
         Holds(run.engine, rows, m), EmitsBooks(run.states),
         NEW k \in 1..Len(rows), rows[k].market = m
  PROVE  LET q == ReplayStep(run, rows[k])
         IN q \in ReplayRun /\ Holds(q.engine, rows, m) /\ EmitsBooks(q.states)
<1>1. PICK row \in Row : row = rows[k]
  BY ElementOfSeq
<1>2. /\ run.engine \in Engine /\ run.states \in Seq(Row \X Int) /\ run.applied \in Nat
      /\ run.prints \in Nat /\ run.refusals \in Nat
  BY DEF ReplayRun
<1>3. PICK q : q = ReplayStep(run, row)
  OBVIOUS
<1>4. CASE row.type = "trade"
  <2>1. PICK n \in Nat : n = run.prints + 1
    BY <1>2
  <2>2. q = [run EXCEPT !.prints = n]
    BY <1>3, <1>4, <2>1 DEF ReplayStep, ReplayRun
  <2>3. q \in ReplayRun /\ q.engine = run.engine /\ q.states = run.states
    BY <2>2 DEF ReplayRun
  <2>4. QED
    BY <1>1, <1>3, <2>3
<1>5. CASE row.type # "trade"
  <2>1. PICK next : next = ApplyRow(run.engine, row)
    OBVIOUS
  <2>2. CASE IsRefused(next)
    <3>1. PICK n \in Nat : n = run.refusals + 1
      BY <1>2
    <3>2. PICK none \in BOOLEAN : none = FALSE
      OBVIOUS
    <3>3. NewReplay \in Engine /\ ~NewReplay.base
      <4>1. NewReplay = [sid |-> 0, seq |-> 0, base |-> none, level |-> 0]
        BY <3>2 DEF NewReplay, NoSid
      <4>2. QED
        BY <3>2, <4>1 DEF Engine
    <3>4. q = [run EXCEPT !.engine = NewReplay, !.refusals = n]
      BY <1>3, <1>5, <2>1, <2>2, <3>1 DEF ReplayStep, ReplayRun
    <3>5. q \in ReplayRun /\ q.engine = NewReplay /\ q.states = run.states
      BY <3>3, <3>4 DEF ReplayRun
    <3>6. QED
      BY <1>1, <1>3, <3>3, <3>5 DEF Holds
  <2>3. CASE ~IsRefused(next)
    <3>1. next \in Engine /\ Holds(next, rows, m) /\ next.level = row.book
      BY <1>1, <1>2, <1>5, <2>1, <2>3, Applying
    <3>2. PICK n \in Nat : n = run.applied + 1
      BY <1>2
    <3>3. PICK x \in Row \X Int : x = <<row, next.level>>
      BY <3>1 DEF Engine
    <3>4. PICK s : s = run.states
      OBVIOUS
    <3>5. PICK t : t = Append(s, x)
      OBVIOUS
    <3>6. s \in Seq(Row \X Int)
      BY <1>2, <3>4
    <3>7. t \in Seq(Row \X Int) /\ Len(t) = Len(s) + 1 /\ t[Len(s) + 1] = x /\ Len(s) \in Nat
          /\ (\A i \in 1..Len(s) : t[i] = s[i]) /\ DOMAIN t = 1..Len(t) /\ DOMAIN s = 1..Len(s)
      BY <3>5, <3>6, AppendProperties, LenProperties
    <3>8. EmitsBooks(t)
      <4> SUFFICES ASSUME NEW i \in 1..Len(t) PROVE t[i][2] = t[i][1].book
        BY <3>7 DEF EmitsBooks
      <4>1. CASE i = Len(s) + 1
        BY <3>1, <3>3, <3>7, <4>1
      <4>2. CASE i # Len(s) + 1
        <5>1. i \in 1..Len(s) /\ t[i] = s[i]
          BY <3>7, <4>2
        <5>2. QED
          BY <3>4, <3>7, <5>1 DEF EmitsBooks
      <4>3. QED
        BY <4>1, <4>2
    <3>9. q = [run EXCEPT !.engine = next, !.applied = n, !.states = t]
      BY <1>3, <1>5, <2>1, <2>3, <3>2, <3>3, <3>4, <3>5 DEF ReplayStep, ReplayRun
    <3>10. q \in ReplayRun /\ q.engine = next /\ q.states = t
      BY <3>1, <3>7, <3>9 DEF ReplayRun
    <3>11. QED
      BY <1>1, <1>3, <3>1, <3>8, <3>10
  <2>4. QED
    BY <2>2, <2>3
<1>6. QED
  BY <1>4, <1>5

\* Nothing is replayed yet.
LEMMA NewRunSound ==
  NewRun \in ReplayRun /\ ~NewRun.engine.base /\ NewRun.states = <<>> /\ NewRun.refusals = 0
<1>1. PICK none \in BOOLEAN : none = FALSE
  OBVIOUS
<1>2. NewReplay = [sid |-> 0, seq |-> 0, base |-> none, level |-> 0]
  BY <1>1 DEF NewReplay, NoSid
<1>3. NewReplay \in Engine /\ ~NewReplay.base
  BY <1>1, <1>2 DEF Engine
<1>4. <<>> \in Seq(Row \X Int)
  OBVIOUS
<1>5. QED
  BY <1>3, <1>4 DEF NewRun, ReplayRun

\* On a chained tape a market's replay stays sound from row to row.
LEMMA ReplayStays ==
  ASSUME NEW rows \in Seq(Row), Chained(rows), NEW m, NEW T, T[0] = NewRun,
         \A i \in 1..Len(rows) : T[i] = Replayed(T[i - 1], rows, LoadRows(rows, m), i)
  PROVE  \A i \in 0..Len(rows) :
           T[i] \in ReplayRun /\ Holds(T[i].engine, rows, m) /\ EmitsBooks(T[i].states)
<1>1. Len(rows) \in Nat
  BY LenProperties
<1> DEFINE Good(run) == run \in ReplayRun /\ Holds(run.engine, rows, m) /\ EmitsBooks(run.states)
           Bad == {i \in 0..Len(rows) : ~Good(T[i])}
<1>2. SUFFICES ASSUME Bad # {} PROVE FALSE
  OBVIOUS
<1>3. PICK k \in Bad : \A j \in Bad : k <= j
  <2>1. Bad \in SUBSET Nat
    BY <1>1
  <2> HIDE DEF Bad
  <2>2. QED
    BY <1>2, <2>1, Smallest
<1>4. k \in 0..Len(rows) /\ ~Good(T[k])
  BY <1>3
<1>5. k # 0
  <2>1. DOMAIN NewRun.states = {}
    BY NewRunSound, EmptySeq
  <2>2. Good(NewRun)
    BY <2>1, NewRunSound DEF Holds, EmitsBooks
  <2>3. QED
    BY <1>4, <2>2
<1>6. k \in 1..Len(rows) /\ k - 1 \in 0..Len(rows) /\ ~(k <= k - 1)
  BY <1>1, <1>4, <1>5
<1>7. Good(T[k - 1])
  BY <1>3, <1>6
<1> HIDE DEF Bad
<1>8. PICK source : source = LoadRows(rows, m)
  OBVIOUS
<1>9. T[k] = Replayed(T[k - 1], rows, source, k)
  BY <1>6, <1>8
<1>10. CASE k \in source
  <2>1. rows[k].market = m /\ T[k] = ReplayStep(T[k - 1], rows[k])
    BY <1>8, <1>9, <1>10 DEF LoadRows, Replayed
  <2>2. PICK run : run = T[k - 1]
    OBVIOUS
  <2>3. Good(ReplayStep(run, rows[k]))
    BY <1>6, <1>7, <2>1, <2>2, ReplayingOne
  <2>4. QED
    BY <1>4, <2>1, <2>2, <2>3
<1>11. CASE k \notin source
  BY <1>4, <1>7, <1>9, <1>11 DEF Replayed
<1>12. QED
  BY <1>10, <1>11

\* So it emits the exchange's books.
LEMMA ReplayEmitsBooks ==
  ASSUME NEW rows \in Seq(Row), Chained(rows), NEW m
  PROVE  /\ ReplayRows(rows, LoadRows(rows, m)) \in ReplayRun
         /\ EmitsBooks(ReplayRows(rows, LoadRows(rows, m)).states)
<1>1. Len(rows) \in Nat
  BY LenProperties
<1>2. PICK T : /\ T[0] = NewRun
               /\ \A i \in 1..Len(rows) : T[i] = Replayed(T[i - 1], rows, LoadRows(rows, m), i)
               /\ ReplayRows(rows, LoadRows(rows, m)) = T[Len(rows)]
  BY <1>1, ReplayIs
<1>3. \A i \in 0..Len(rows) : T[i] \in ReplayRun /\ EmitsBooks(T[i].states)
  BY <1>2, ReplayStays
<1>4. QED
  BY <1>1, <1>2, <1>3

-----------------------------------------------------------------------------
(***************************************************************************)
(* What the recorder has heard of the books.  Maintenance drops payloads   *)
(* and rows, so the invariant is about the set of what rows say.           *)
(***************************************************************************)

\* What a row says of a book, whatever becomes of its payload.
Core(row)   == [market |-> row.market, type |-> row.type, sid |-> row.sid, seq |-> row.seq,
                change |-> row.change, book |-> row.book]
CoreRow     == [market : Markets, type : RowTypes, sid : Nat, seq : Nat, change : Int, book : Nat]
Cores(rows) == {Core(rows[i]) : i \in {j \in 1..Len(rows) : rows[j].type # "trade"}}

\* Only deltas are without their payload.
Whole(rows) == \A i \in 1..Len(rows) : rows[i].payload \/ rows[i].type = "delta"

\* What was heard on the current subscription was sent on it, in a market whose
\* snapshot had been sent; and what was sent last tells the market's book.
HeardOf(a, f, r) ==
  /\ a.seq > 0 /\ a.sid <= 2 * f.conn
  /\ a.sid = 2 * f.conn =>
       /\ a.seq <= f.sent["book"]
       /\ r.state = "up" =>
            /\ a.market \in r.watched /\ a.market \notin f.owed
            /\ a.seq = f.sent["book"] => a.book = f.book[a.market]

BooksInv ==
  /\ rec.state = "up" => feed.up
  /\ Whole(Heard)
  /\ \A a, b \in Cores(Heard) : Follows(a, b)
  /\ \A a \in Cores(Heard) : HeardOf(a, feed, rec)

\* The fields of what a row says.
LEMMA CoreFields ==
  ASSUME NEW row \in Row
  PROVE  /\ Core(row) \in CoreRow
         /\ Core(row).market = row.market /\ Core(row).type = row.type /\ Core(row).sid = row.sid
         /\ Core(row).seq = row.seq /\ Core(row).change = row.change /\ Core(row).book = row.book
BY RowFields DEF Core, CoreRow

\* What rows say is what rows can say.
LEMMA CoresTyped ==
  ASSUME NEW rows \in Seq(Row), NEW a \in Cores(rows)
  PROVE  a \in CoreRow /\ a.market \in Markets /\ a.sid \in Nat /\ a.seq \in Nat
         /\ a.change \in Int /\ a.book \in Nat
<1>1. PICK i \in 1..Len(rows) : a = Core(rows[i])
  BY DEF Cores
<1>2. rows[i] \in Row
  BY ElementOfSeq
<1>3. a \in CoreRow
  BY <1>1, <1>2, CoreFields
<1>4. QED
  BY <1>3 DEF CoreRow

\* The beginning of some rows says no more than they do.
LEMMA CoresBegin ==
  ASSUME NEW h \in Seq(Row), NEW q \in Seq(Row), Begins(q, h)
  PROVE  Cores(q) \subseteq Cores(h) /\ (Whole(h) => Whole(q))
<1>1. Len(h) \in Nat /\ Len(q) \in Nat /\ Len(q) <= Len(h)
  BY LenProperties DEF Begins
<1>2. \A i \in 1..Len(q) : i \in 1..Len(h) /\ q[i] = h[i]
  BY <1>1 DEF Begins
<1>3. QED
  BY <1>2 DEF Cores, Whole

\* One row more says one thing more, and a print nothing.
LEMMA CoresAppend ==
  ASSUME NEW h \in Seq(Row), NEW row \in Row, row.payload
  PROVE  /\ Cores(Append(h, row)) \subseteq Cores(h) \cup {Core(row)}
         /\ row.type = "trade" => Cores(Append(h, row)) \subseteq Cores(h)
         /\ Whole(h) => Whole(Append(h, row))
<1>1. PICK a \in Seq(Row) : a = Append(h, row)
  BY AppendProperties
<1>2. Len(h) \in Nat /\ Len(a) = Len(h) + 1 /\ a[Len(h) + 1] = row
      /\ \A i \in 1..Len(h) : a[i] = h[i]
  BY <1>1, LenProperties, AppendProperties
<1>3. \A i \in 1..Len(a) : i = Len(h) + 1 \/ i \in 1..Len(h)
  BY <1>2
<1>4. QED
  BY <1>1, <1>2, <1>3 DEF Cores, Whole

\* Two lots of rows say what each of them says.
LEMMA CoresConcat ==
  ASSUME NEW s \in Seq(Row), NEW b \in Seq(Row)
  PROVE  /\ Cores(s \o b) = Cores(s) \cup Cores(b)
         /\ Whole(s \o b) <=> Whole(s) /\ Whole(b)
<1>1. PICK h \in Seq(Row) : h = s \o b
  BY ConcatProperties
<1>2. PICK m \in Nat, n \in Nat : m = Len(s) /\ n = Len(b)
  BY LenProperties
<1>3. Len(h) = m + n /\ \A i \in 1..(m + n) : h[i] = IF i <= m THEN s[i] ELSE b[i - m]
  BY <1>1, <1>2, ConcatProperties
<1>4. \A i \in 1..m : i \in 1..Len(h) /\ h[i] = s[i]
  BY <1>3
<1>5. \A i \in 1..n : m + i \in 1..Len(h) /\ h[m + i] = b[i]
  <2> TAKE i \in 1..n
  <2>1. m + i \in 1..(m + n) /\ ~(m + i <= m) /\ (m + i) - m = i
    OBVIOUS
  <2>2. QED
    BY <1>3, <2>1
<1>6. \A i \in 1..Len(h) : \/ i \in 1..m /\ h[i] = s[i]
                           \/ i - m \in 1..n /\ h[i] = b[i - m]
  BY <1>3
<1>7. Cores(h) \subseteq Cores(s) \cup Cores(b)
  BY <1>2, <1>6 DEF Cores
<1>8. Cores(s) \subseteq Cores(h)
  BY <1>2, <1>4 DEF Cores
<1>9. Cores(b) \subseteq Cores(h)
  BY <1>2, <1>5 DEF Cores
<1>10. Whole(h) <=> Whole(s) /\ Whole(b)
  <2>1. ASSUME Whole(h) PROVE Whole(s) /\ Whole(b)
    <3>1. \A i \in 1..m : s[i].payload \/ s[i].type = "delta"
      BY <1>4, <2>1 DEF Whole
    <3>2. \A i \in 1..n : b[i].payload \/ b[i].type = "delta"
      BY <1>5, <2>1 DEF Whole
    <3>3. QED
      BY <1>2, <3>1, <3>2 DEF Whole
  <2>2. ASSUME Whole(s), Whole(b) PROVE Whole(h)
    BY <1>2, <1>6, <2>2 DEF Whole
  <2>3. QED
    BY <2>1, <2>2
<1>11. QED
  BY <1>1, <1>7, <1>8, <1>9, <1>10

\* What the exchange sends is heard, once or twice or not at all.
LEMMA EmitSaid ==
  ASSUME tape \in Seq(Row), Sound(rec), Whole(Heard), NEW m, NEW type, NEW change, NEW price,
         NEW book, NEW f, Emit(m, type, change, price, book, f),
         RowOf(m, type, change, price, book) \in Row
  PROVE  LET row == RowOf(m, type, change, price, book)
         IN /\ Cores(Heard') \subseteq Cores(Heard) \cup {Core(row)}
            /\ type = "trade" => Cores(Heard') \subseteq Cores(Heard)
            /\ Whole(Heard')
<1>1. PICK row \in Row : row = RowOf(m, type, change, price, book)
  OBVIOUS
<1>2. row.payload /\ row.type = type
  BY <1>1 DEF RowOf
<1>3. Heard \in Seq(Row) /\ Append(Heard, row) \in Seq(Row)
      /\ Append(Append(Heard, row), row) \in Seq(Row)
  <2>1. rec.buffer \in Seq(Row)
    BY ProcessFields DEF Sound
  <2>2. QED
    BY <2>1, ConcatProperties, AppendProperties DEF Heard
<1>4. ASSUME NEW h \in Seq(Row), Whole(h), Cores(h) \subseteq Cores(Heard) \cup {Core(row)},
             type = "trade" => Cores(h) \subseteq Cores(Heard), Hears(h)
      PROVE  /\ Cores(Heard') \subseteq Cores(Heard) \cup {Core(row)}
             /\ type = "trade" => Cores(Heard') \subseteq Cores(Heard)
             /\ Whole(Heard')
  <2>1. Heard' \in Seq(Row) /\ Begins(Heard', h)
    BY <1>4 DEF Hears
  <2>2. Cores(Heard') \subseteq Cores(h) /\ Whole(Heard')
    BY <1>4, <2>1, CoresBegin
  <2>3. QED
    BY <1>4, <2>2
<1>5. PICK once \in Seq(Row) : once = Append(Heard, row)
  BY <1>3
<1>6. /\ Whole(once) /\ Cores(once) \subseteq Cores(Heard) \cup {Core(row)}
      /\ type = "trade" => Cores(once) \subseteq Cores(Heard)
  BY <1>2, <1>3, <1>5, CoresAppend
<1>7. CASE HandleOne(row)
  <2>1. Hears(once)
    BY <1>5, <1>7, HearsOne
  <2>2. QED
    BY <1>1, <1>4, <1>6, <2>1
<1>8. CASE HandleTwice(row)
  <2>1. PICK twice \in Seq(Row) : twice = Append(once, row)
    BY <1>3, <1>5
  <2>2. Hears(twice)
    BY <1>5, <1>8, <2>1, HearsTwice
  <2>3. /\ Whole(twice) /\ Cores(twice) \subseteq Cores(once) \cup {Core(row)}
        /\ type = "trade" => Cores(twice) \subseteq Cores(once)
    BY <1>2, <1>6, <2>1, CoresAppend
  <2>4. /\ Cores(twice) \subseteq Cores(Heard) \cup {Core(row)}
        /\ type = "trade" => Cores(twice) \subseteq Cores(Heard)
    BY <1>6, <2>3
  <2>5. QED
    BY <1>1, <1>4, <2>2, <2>3, <2>4
<1>9. CASE UNCHANGED <<rec, tape, gaps>>
  BY <1>1, <1>9 DEF Heard
<1>10. HandleOne(row) \/ UNCHANGED <<rec, tape, gaps>> \/ HandleTwice(row)
  BY <1>1 DEF Emit
<1>11. QED
  BY <1>7, <1>8, <1>9, <1>10

\* Hearing no more keeps the invariant, as long as the subscription and the
\* books that were told stay.
LEMMA SaidLess ==
  ASSUME RecorderInv, BooksInv, RecorderInv', Whole(Heard'), Cores(Heard') \subseteq Cores(Heard),
         rec'.state = "up" => feed'.up,
         \/ feed'.conn > feed.conn
         \/ /\ feed'.conn = feed.conn /\ feed'.sent["book"] = feed.sent["book"]
            /\ rec'.state = "up" =>
                 /\ rec.state = "up" /\ rec'.watched = rec.watched /\ feed'.owed = feed.owed
                 /\ \A q \in rec.watched : q \notin feed.owed => feed'.book[q] = feed.book[q]
  PROVE  BooksInv'
<1>1. feed.conn \in Nat /\ feed'.conn \in Nat
  BY ExchangeFields DEF RecorderInv
<1>2. Heard \in Seq(Row)
  <2>1. tape \in Seq(Row) /\ rec.buffer \in Seq(Row)
    BY ProcessFields DEF RecorderInv
  <2>2. QED
    BY <2>1, ConcatProperties DEF Heard
<1>3. \A a, b \in Cores(Heard') : Follows(a, b)
  BY DEF BooksInv
<1>4. ASSUME NEW a \in Cores(Heard') PROVE HeardOf(a, feed', rec')
  <2>1. a \in Cores(Heard) /\ a.sid \in Nat /\ HeardOf(a, feed, rec)
    BY <1>2, CoresTyped DEF BooksInv
  <2>2. CASE feed'.conn > feed.conn
    <3>1. a.seq > 0 /\ a.sid <= 2 * feed.conn
      BY <2>1 DEF HeardOf
    <3>2. a.sid <= 2 * feed'.conn /\ a.sid # 2 * feed'.conn
      BY <1>1, <2>1, <2>2, <3>1
    <3>3. QED
      BY <3>1, <3>2 DEF HeardOf
  <2>3. CASE /\ feed'.conn = feed.conn /\ feed'.sent["book"] = feed.sent["book"]
             /\ rec'.state = "up" =>
                  /\ rec.state = "up" /\ rec'.watched = rec.watched /\ feed'.owed = feed.owed
                  /\ \A q \in rec.watched : q \notin feed.owed => feed'.book[q] = feed.book[q]
    BY <2>1, <2>3 DEF HeardOf
  <2>4. QED
    BY <2>2, <2>3
<1>5. QED
  BY <1>3, <1>4 DEF BooksInv

\* One message of a book, heard or not.
LEMMA SaidMore ==
  ASSUME RecorderInv, BooksInv, RecorderInv', Whole(Heard'), NEW row \in Row,
         Cores(Heard') \subseteq Cores(Heard) \cup {Core(row)},
         rec.state = "up" /\ rec'.state = "up" /\ feed'.up /\ rec'.watched = rec.watched,
         feed'.conn = feed.conn, feed'.owed \subseteq feed.owed,
         feed'.sent["book"] = feed.sent["book"] + 1,
         row.sid = 2 * feed.conn /\ row.seq = feed.sent["book"] + 1,
         row.market \in rec.watched /\ row.market \notin feed'.owed,
         row.book = feed'.book[row.market],
         \A q \in Markets : q # row.market => feed'.book[q] = feed.book[q],
         row.type = "delta" => row.market \notin feed.owed
                               /\ row.book = feed.book[row.market] + row.change
  PROVE  BooksInv'
<1>1. PICK n \in Nat, c \in Nat : n = feed.sent["book"] /\ c = feed.conn
  BY ExchangeFields DEF RecorderInv, Channels
<1>2. Heard \in Seq(Row) /\ Heard' \in Seq(Row)
  <2>1. tape \in Seq(Row) /\ rec.buffer \in Seq(Row) /\ tape' \in Seq(Row) /\ rec'.buffer \in Seq(Row)
    BY ProcessFields DEF RecorderInv
  <2>2. QED
    BY <2>1, ConcatProperties DEF Heard
<1>3. PICK x \in CoreRow : /\ x = Core(row) /\ x.market = row.market /\ x.type = row.type
                           /\ x.sid = row.sid /\ x.seq = row.seq /\ x.change = row.change
                           /\ x.book = row.book
  BY CoreFields
<1>4. x.sid = 2 * c /\ x.seq = n + 1
  BY <1>1, <1>3
<1>5. \A a \in Cores(Heard') : a = x \/ a \in Cores(Heard)
  BY <1>3
<1>6. \A a \in Cores(Heard) : /\ a.sid \in Nat /\ a.seq \in Nat /\ a.market \in Markets
                              /\ a.book \in Nat /\ a.change \in Int
                              /\ HeardOf(a, feed, rec)
  BY <1>2, CoresTyped DEF BooksInv
<1>7. ASSUME NEW a \in Cores(Heard'), NEW b \in Cores(Heard') PROVE Follows(a, b)
  <2> SUFFICES ASSUME a.market = b.market, a.sid = b.sid, b.seq = a.seq + 1, b.type = "delta"
               PROVE  b.book = a.book + b.change
    BY DEF Follows
  <2>1. CASE a \in Cores(Heard) /\ b \in Cores(Heard)
    BY <2>1 DEF BooksInv, Follows
  <2>2. CASE a \in Cores(Heard) /\ b = x
    <3>1. a.sid = 2 * feed.conn /\ a.seq = feed.sent["book"]
      BY <1>1, <1>4, <1>6, <2>2
    <3>2. a.book = feed.book[a.market]
      BY <1>6, <2>2, <3>1 DEF HeardOf
    <3>3. QED
      BY <1>3, <2>2, <3>2
  <2>3. CASE a = x /\ b \in Cores(Heard)
    <3>1. b.sid = 2 * feed.conn /\ b.seq = n + 2 /\ b.seq <= n
      BY <1>1, <1>4, <1>6, <2>3 DEF HeardOf
    <3>2. QED
      BY <3>1
  <2>4. CASE a = x /\ b = x
    BY <1>4, <2>4
  <2>5. QED
    BY <1>5, <2>1, <2>2, <2>3, <2>4
<1>8. ASSUME NEW a \in Cores(Heard') PROVE HeardOf(a, feed', rec')
  <2>1. CASE a = x
    <3>1. a.seq > 0 /\ a.sid <= 2 * feed'.conn /\ a.seq <= feed'.sent["book"]
      BY <1>1, <1>4, <2>1
    <3>2. QED
      BY <1>3, <2>1, <3>1 DEF HeardOf
  <2>2. CASE a \in Cores(Heard)
    <3>1. a.seq > 0 /\ a.sid <= 2 * feed'.conn
      BY <1>6, <2>2 DEF HeardOf
    <3>2. ASSUME a.sid = 2 * feed'.conn
          PROVE  /\ a.seq <= n /\ a.market \in rec'.watched /\ a.market \notin feed'.owed
      BY <1>1, <1>6, <2>2, <3>2 DEF HeardOf
    <3>3. ASSUME a.sid = 2 * feed'.conn
          PROVE  a.seq <= feed'.sent["book"] /\ a.seq # feed'.sent["book"]
      BY <1>1, <1>6, <2>2, <3>2, <3>3
    <3>4. QED
      BY <3>1, <3>2, <3>3 DEF HeardOf
  <2>3. QED
    BY <1>5, <2>1, <2>2
<1>9. QED
  BY <1>7, <1>8 DEF BooksInv

\* What is left of a thinned tape was on it.
LEMMA WithoutTakes ==
  ASSUME NEW rows \in Seq(Row), NEW gone
  PROVE  \A n \in 1..Len(Without(rows, gone)) : \E i \in 1..Len(rows) : Without(rows, gone)[n] = rows[i]
<1>1. PICK kept : kept = {i \in DOMAIN rows : i \notin gone}
  OBVIOUS
<1>2. PICK c : c = Cardinality(kept)
  OBVIOUS
<1>3. kept \in SUBSET Nat /\ IsFiniteSet(kept) /\ kept \subseteq 1..Len(rows)
  <2>1. DOMAIN rows = 1..Len(rows) /\ Len(rows) \in Nat
    BY LenProperties
  <2>2. IsFiniteSet(DOMAIN rows)
    BY <2>1, FS_Interval
  <2>3. kept \subseteq DOMAIN rows
    BY <1>1
  <2>4. QED BY <2>1, <2>2, <2>3, FS_Subset
<1>4. c \in Nat /\ \A n \in 1..c : \E i \in kept : Cardinality({j \in kept : j <= i}) = n
  BY <1>2, <1>3, Renumbered
<1>5. \A n \in 1..c : (CHOOSE i \in kept : Cardinality({j \in kept : j <= i}) = n) \in kept
  BY <1>4
<1>6. Without(rows, gone) =
        [n \in 1..c |-> rows[CHOOSE i \in kept : Cardinality({j \in kept : j <= i}) = n]]
  BY <1>1, <1>2 DEF Without
<1>7. PICK w : w = Without(rows, gone)
  OBVIOUS
<1>8. w \in Seq(Row)
  BY <1>7, WithoutTyped
<1>9. DOMAIN w = 1..c /\ Len(w) = c
  BY <1>4, <1>6, <1>7, <1>8, LenProperties
<1>10. \A n \in 1..c : \E i \in 1..Len(rows) : w[n] = rows[i]
  BY <1>3, <1>5, <1>6, <1>7
<1>11. QED
  BY <1>7, <1>9, <1>10

\* What sending a message does to the numbers of the books' subscription.
LEMMA EmitSent ==
  ASSUME NEW f \in Exchange, NEW m, NEW type, NEW change, NEW price, NEW book,
         Emit(m, type, change, price, book, f)
  PROVE  feed'.sent["book"] = IF type = "trade" THEN f.sent["book"] ELSE f.sent["book"] + 1
<1>1. PICK old \in [Channels -> Nat] : old = f.sent
  BY ExchangeFields
<1>2. PICK c \in Channels : c = ChannelOf(type) /\ (c = "book" <=> type # "trade")
  BY DEF ChannelOf, Channels
<1>3. PICK sent : sent = [old EXCEPT ![c] = @ + 1]
  OBVIOUS
<1>4. "book" \in Channels
  BY DEF Channels
<1>5. sent["book"] = IF type = "trade" THEN old["book"] ELSE old["book"] + 1
  BY <1>2, <1>3, <1>4
<1>6. feed' = [f EXCEPT !.sent = sent]
  BY <1>1, <1>2, <1>3 DEF Emit, Exchange
<1>7. feed'.sent = sent
  BY <1>6 DEF Exchange
<1>8. QED
  BY <1>1, <1>5, <1>7

\* Every step of the exchange and the recorder keeps what was heard of the
\* books true.
LEMMA BooksStep ==
  ASSUME RecorderInv, BooksInv, RecorderNext
  PROVE  BooksInv'
<1>1. /\ now \in Nat /\ tape \in Seq(Row) /\ Sound(rec) /\ feed \in Exchange /\ rec \in Process
      /\ Whole(Heard) /\ (rec.state = "up" => feed.up)
  BY DEF RecorderInv, BooksInv, Sound
<1>2. RecorderInv'
  BY RecorderStepKeeps
<1>3. /\ feed' \in Exchange /\ rec' \in Process
  BY <1>2 DEF RecorderInv
<1>4. Recording
  BY <1>1 DEF RecorderInv, Recording
<1>5. Heard \in Seq(Row)
  <2>1. rec.buffer \in Seq(Row)
    BY <1>1, ProcessFields
  <2>2. QED
    BY <1>1, <2>1, ConcatProperties DEF Heard
<1>6. ASSUME UNCHANGED <<rec, tape>>
      PROVE  Whole(Heard') /\ Cores(Heard') \subseteq Cores(Heard)
  BY <1>1, <1>6 DEF Heard
<1>7. ASSUME Hears(Heard)
      PROVE  Whole(Heard') /\ Cores(Heard') \subseteq Cores(Heard)
  BY <1>1, <1>5, <1>7, CoresBegin DEF Hears
<1>8. ASSUME NEW m \in Markets, NEW type \in RowTypes, NEW change \in Int,
             NEW price \in PrintPrices \cup {0}, NEW book \in Nat, NEW f \in Exchange,
             Emit(m, type, change, price, book, f), now' = now,
             NEW row, row = RowOf(m, type, change, price, book)
      PROVE  /\ rec'.state = rec.state /\ rec'.watched = rec.watched
             /\ feed'.conn = f.conn /\ feed'.owed = f.owed /\ feed'.book = f.book
             /\ feed'.up = f.up
             /\ type = "trade" => feed'.sent["book"] = f.sent["book"]
             /\ Whole(Heard')
             /\ Cores(Heard') \subseteq Cores(Heard) \cup {Core(row)}
             /\ type = "trade" => Cores(Heard') \subseteq Cores(Heard)
             /\ row \in Row
  <2>1. RowOf(m, type, change, price, book) \in Row
    BY <1>1, SentRow
  <2>2. /\ rec'.state = rec.state /\ rec'.watched = rec.watched
        /\ feed'.conn = f.conn /\ feed'.owed = f.owed /\ feed'.book = f.book /\ feed'.up = f.up
    BY <1>1, <1>4, <1>8, Emitting, ZenonT(30)
  <2>3. feed'.sent["book"] = IF type = "trade" THEN f.sent["book"] ELSE f.sent["book"] + 1
    BY <1>8, EmitSent
  <2>4. /\ Cores(Heard') \subseteq Cores(Heard) \cup {Core(RowOf(m, type, change, price, book))}
        /\ type = "trade" => Cores(Heard') \subseteq Cores(Heard)
        /\ Whole(Heard')
    BY <1>1, <1>8, <2>1, EmitSaid
  <2>5. QED
    BY <1>8, <2>1, <2>2, <2>3, <2>4
<1>9. ASSUME NEW m \in Markets, NEW type \in RowTypes, type # "trade", NEW change \in Int,
             NEW book \in Nat, NEW row, row = RowOf(m, type, change, 0, book)
      PROVE  /\ row.market = m /\ row.type = type /\ row.change = change /\ row.book = book
             /\ row.sid = 2 * feed.conn /\ row.seq = feed.sent["book"] + 1
  <2>1. PICK c \in Nat : c = feed.conn
    BY <1>1, ExchangeFields
  <2>2. Sid(c, "book") = 2 * c
    BY DEF Sid
  <2>3. ChannelOf(type) = "book"
    BY <1>9 DEF ChannelOf
  <2>4. QED
    BY <1>9, <2>1, <2>2, <2>3 DEF RowOf
<1>10. ASSUME NEW m \in Markets, Snapshot(m) PROVE BooksInv'
  <2>1. PICK book \in Nat : book = feed.book[m]
    BY <1>1, ExchangeFields
  <2>2. PICK f : f = [feed EXCEPT !.owed = @ \ {m}]
    OBVIOUS
  <2>3. Emit(m, "snapshot", 0, 0, book, f) /\ now' = now /\ rec.state = "up" /\ feed.up /\ m \in feed.owed
    BY <1>10, <2>1, <2>2 DEF Snapshot, Listening
  <2>4. /\ f \in Exchange /\ f.conn = feed.conn /\ f.owed = feed.owed \ {m} /\ f.book = feed.book
        /\ f.up = feed.up /\ f.sent = feed.sent
    BY <1>1, <2>2 DEF Exchange
  <2>5. "snapshot" \in RowTypes /\ "snapshot" # "trade" /\ 0 \in Int /\ 0 \in PrintPrices \cup {0}
    BY DEF RowTypes
  <2>6. PICK row : row = RowOf(m, "snapshot", 0, 0, book)
    OBVIOUS
  <2>7. /\ rec'.state = rec.state /\ rec'.watched = rec.watched
        /\ feed'.conn = f.conn /\ feed'.owed = f.owed /\ feed'.book = f.book /\ feed'.up = f.up
        /\ Whole(Heard') /\ Cores(Heard') \subseteq Cores(Heard) \cup {Core(row)} /\ row \in Row
    <3>1. f \in Exchange
      BY <2>4
    <3>2. QED
      BY <1>8, <2>3, <2>5, <2>6, <3>1, SMTT(30)
  <2>8. /\ row.market = m /\ row.type = "snapshot" /\ row.book = book
        /\ row.sid = 2 * feed.conn /\ row.seq = feed.sent["book"] + 1
    BY <1>9, <2>5, <2>6
  <2>9. m \in rec.watched
    BY <2>3 DEF RecorderInv, Hungup
  <2>10. feed'.sent["book"] = feed.sent["book"] + 1
    BY <2>3, <2>4, <2>5, EmitSent
  <2>11. QED
    BY <1>2, <2>1, <2>3, <2>4, <2>7, <2>8, <2>9, <2>10, SaidMore
<1>11. ASSUME NEW m \in Moving, NEW c \in {-1, 1}, BookChanges(m, c) PROVE BooksInv'
  <2>1. m \in Markets /\ "delta" \in RowTypes /\ "delta" # "trade" /\ c \in Int /\ 0 \in PrintPrices \cup {0}
    BY Constants DEF RowTypes
  <2>2. PICK level \in Nat : level = feed.book[m] + c
    <3>1. MaxBook \in Nat /\ feed.book[m] + c \in 0..MaxBook
      BY <1>11, Constants DEF BookChanges
    <3>2. QED
      BY <3>1
  <2>3. PICK f : f = [feed EXCEPT !.book[m] = level, !.moves = @ + 1]
    OBVIOUS
  <2>4. PICK books \in [Markets -> Nat], moves \in Nat :
          books = [feed.book EXCEPT ![m] = level] /\ moves = feed.moves + 1
    <3>1. PICK old \in [Markets -> Nat], n \in Nat : old = feed.book /\ n = feed.moves
      BY <1>1, ExchangeFields
    <3>2. [old EXCEPT ![m] = level] \in [Markets -> Nat] /\ n + 1 \in Nat
      BY <2>1
    <3>3. QED
      BY <3>1, <3>2
  <2>5. books[m] = level /\ \A q \in Markets : q # m => books[q] = feed.book[q]
    <3>1. PICK old \in [Markets -> Nat] : old = feed.book
      BY <1>1, ExchangeFields
    <3>2. QED
      BY <2>1, <2>4, <3>1
  <2>6. /\ f \in Exchange /\ f.conn = feed.conn /\ f.owed = feed.owed /\ f.book = books
        /\ f.up = feed.up /\ f.sent = feed.sent
    <3>1. f = [feed EXCEPT !.book = books, !.moves = moves]
      BY <1>1, <2>3, <2>4 DEF Exchange
    <3>2. QED
      BY <1>1, <3>1 DEF Exchange
  <2>7. /\ IF Listening /\ m \in rec.watched \ feed.owed
           THEN Emit(m, "delta", c, 0, level, f)
           ELSE feed' = f /\ UNCHANGED <<rec, tape, gaps, faults>>
        /\ now' = now
    BY <1>11, <2>2, <2>3 DEF BookChanges
  <2>8. CASE Listening /\ m \in rec.watched \ feed.owed
    <3>1. rec.state = "up" /\ feed.up /\ m \in rec.watched /\ m \notin feed.owed
          /\ Emit(m, "delta", c, 0, level, f)
      BY <2>7, <2>8 DEF Listening
    <3>2. PICK row : row = RowOf(m, "delta", c, 0, level)
      OBVIOUS
    <3>3. /\ rec'.state = rec.state /\ rec'.watched = rec.watched
          /\ feed'.conn = f.conn /\ feed'.owed = f.owed /\ feed'.book = f.book /\ feed'.up = f.up
          /\ Whole(Heard') /\ Cores(Heard') \subseteq Cores(Heard) \cup {Core(row)} /\ row \in Row
      <4>1. f \in Exchange /\ now' = now /\ Emit(m, "delta", c, 0, level, f)
        BY <2>6, <2>7, <3>1
      <4>2. QED
        BY <1>8, <2>1, <3>2, <4>1, ZenonT(30)
    <3>4. /\ row.market = m /\ row.type = "delta" /\ row.book = level /\ row.change = c
          /\ row.sid = 2 * feed.conn /\ row.seq = feed.sent["book"] + 1
      BY <1>9, <2>1, <3>2
    <3>5. /\ rec'.state = "up" /\ feed'.up /\ feed'.conn = feed.conn /\ feed'.owed = feed.owed
          /\ feed'.sent["book"] = feed.sent["book"] + 1
      BY <2>1, <2>6, <3>1, <3>3, EmitSent
    <3>6. row.book = feed'.book[row.market] /\ row.book = feed.book[row.market] + row.change
      BY <2>2, <2>5, <2>6, <3>3, <3>4
    <3>7. \A q \in Markets : q # row.market => feed'.book[q] = feed.book[q]
      BY <2>5, <2>6, <3>3, <3>4
    <3>8. row.market \in rec.watched /\ row.market \notin feed.owed
      BY <3>1, <3>4
    <3>9. QED
      BY <1>2, <3>1, <3>3, <3>4, <3>5, <3>6, <3>7, <3>8, SaidMore
  <2>9. CASE ~(Listening /\ m \in rec.watched \ feed.owed)
    <3>1. feed' = f /\ UNCHANGED <<rec, tape>>
      BY <2>7, <2>9
    <3>2. rec.state = "up" => m \notin rec.watched \ feed.owed
      BY <1>1, <2>9 DEF Listening
    <3>3. rec'.state = "up" => \A q \in rec.watched : q \notin feed.owed => feed'.book[q] = feed.book[q]
      <4>1. rec.watched \subseteq Markets
        BY <1>1, ProcessFields
      <4>2. QED
        BY <2>5, <2>6, <3>1, <3>2, <4>1
    <3>4. Whole(Heard') /\ Cores(Heard') \subseteq Cores(Heard)
      BY <1>6, <3>1
    <3>5. QED
      BY <1>1, <1>2, <2>6, <3>1, <3>3, <3>4, SaidLess
  <2>10. QED
    BY <2>8, <2>9
<1>12. ASSUME NEW m \in Moving, NEW p \in PrintPrices, Trades(m, p) PROVE BooksInv'
  <2>1. m \in Markets /\ "trade" \in RowTypes /\ 0 \in Int /\ p \in PrintPrices \cup {0} /\ 0 \in Nat
    BY Constants DEF RowTypes
  <2>2. PICK f : f = [feed EXCEPT !.moves = @ + 1]
    OBVIOUS
  <2>3. /\ f \in Exchange /\ f.conn = feed.conn /\ f.owed = feed.owed /\ f.book = feed.book
        /\ f.up = feed.up /\ f.sent = feed.sent
    <3>1. PICK moves \in Nat : moves = feed.moves + 1
      BY <1>1, ExchangeFields
    <3>2. f = [feed EXCEPT !.moves = moves]
      BY <2>2, <3>1
    <3>3. QED
      BY <1>1, <3>2 DEF Exchange
  <2>4. /\ \/ Emit(m, "trade", 0, p, 0, f)
           \/ feed' = f /\ UNCHANGED <<rec, tape, gaps, faults>>
        /\ now' = now
    BY <1>12, <2>2 DEF Trades
  <2>5. CASE Emit(m, "trade", 0, p, 0, f)
    <3>1. PICK row : row = RowOf(m, "trade", 0, p, 0)
      OBVIOUS
    <3>2. /\ rec'.state = rec.state /\ rec'.watched = rec.watched
          /\ feed'.conn = f.conn /\ feed'.owed = f.owed /\ feed'.book = f.book /\ feed'.up = f.up
          /\ feed'.sent["book"] = f.sent["book"]
          /\ Whole(Heard') /\ Cores(Heard') \subseteq Cores(Heard)
      BY <1>8, <2>1, <2>3, <2>4, <2>5, <3>1
    <3>3. QED
      BY <1>1, <1>2, <2>3, <3>2, SaidLess
  <2>6. CASE feed' = f /\ UNCHANGED <<rec, tape, gaps, faults>>
    <3>1. Whole(Heard') /\ Cores(Heard') \subseteq Cores(Heard)
      BY <1>6, <2>6
    <3>2. QED
      BY <1>1, <1>2, <2>3, <2>6, <3>1, SaidLess
  <2>7. QED
    BY <2>4, <2>5, <2>6
<1>13. ASSUME rec'.buffer = <<>>, tape' = tape
       PROVE  Whole(Heard') /\ Cores(Heard') \subseteq Cores(Heard)
  <2>1. Heard' = tape
    BY <1>1, <1>13, ConcatEmptySeq DEF Heard
  <2>2. rec.buffer \in Seq(Row)
    BY <1>1, ProcessFields
  <2>3. QED
    BY <1>1, <2>1, <2>2, CoresConcat DEF Heard
<1>14. ASSUME Hangup PROVE feed'.conn = feed.conn /\ feed'.sent = feed.sent
  <2>1. feed' = [feed EXCEPT !.up = FALSE, !.owed = {}]
    BY <1>14 DEF Hangup
  <2>2. QED
    BY <1>1, <2>1 DEF Exchange
<1>15. CASE StartRecorder
  <2>1. tape' = tape /\ feed' = feed /\ rec'.buffer = <<>> /\ rec'.state # "up"
    <3>1. /\ NoRecorder.buffer = <<>> /\ Started.buffer = <<>>
          /\ [NoRecorder EXCEPT !.state = "done", !.exit = 1].buffer = <<>>
      BY DEF NoRecorder, Started
    <3>2. QED
      BY <1>15, <3>1, Starting DEF StartRecorder
  <2>2. QED
    BY <1>2, <1>13, <2>1, SaidLess
<1>16. CASE Connect
  <2>1. /\ tape' = tape /\ rec' = [rec EXCEPT !.state = "up"]
        /\ feed' = [feed EXCEPT !.conn = @ + 1, !.up = TRUE, !.owed = rec.watched,
                                !.sent = NoneSeen]
    BY <1>16 DEF Connect
  <2>2. rec'.buffer = rec.buffer
    BY <1>1, <2>1 DEF Process
  <2>3. Heard' = Heard
    BY <2>1, <2>2 DEF Heard
  <2>4. feed'.up /\ feed'.conn > feed.conn
    <3>1. PICK c \in Nat : c = feed.conn
      BY <1>1, ExchangeFields
    <3>2. feed'.up /\ feed'.conn = c + 1
      BY <1>1, <2>1, <3>1 DEF Exchange
    <3>3. QED
      BY <3>1, <3>2
  <2>5. QED
    BY <1>1, <1>2, <2>3, <2>4, SaidLess
<1>17. ASSUME NEW ok \in BOOLEAN, NEW r, r = Flush(rec, ok) PROVE r \in Process /\ r.buffer = <<>>
  BY <1>1, <1>17, Flushing DEF Sound
<1>18. CASE Disconnect
  <2>1. PICK ok \in BOOLEAN :
          AppendBatch(rec, ok) /\ rec' = [Flush(rec, ok) EXCEPT !.state = "down", !.last = NoneSeen]
    BY <1>18 DEF Disconnect
  <2>2. PICK r : r = Flush(rec, ok)
    OBVIOUS
  <2>3. rec'.buffer = <<>> /\ rec'.state # "up"
    BY <1>17, <2>1, <2>2 DEF Process
  <2>4. gaps' = gaps /\ Hangup
    BY <1>18 DEF Disconnect
  <2>5. Hears(Heard)
    BY <1>1, <2>1, <2>3, <2>4, HearsNothing
  <2>6. QED
    BY <1>2, <1>7, <1>14, <2>3, <2>4, <2>5, SaidLess
<1>19. CASE Finish
  <2>1. PICK ok \in BOOLEAN :
          /\ AppendBatch(rec, ok)
          /\ rec' = [Flush(rec, ok) EXCEPT !.state = "done",
                       !.exit = IF Flush(rec, ok).stats.written = 0 THEN 1 ELSE 0]
    BY <1>19 DEF Finish
  <2>2. PICK r : r = Flush(rec, ok)
    OBVIOUS
  <2>3. rec'.buffer = <<>> /\ rec'.state # "up"
    <3>1. PICK exit : exit = IF r.stats.written = 0 THEN 1 ELSE 0
      OBVIOUS
    <3>2. rec' = [r EXCEPT !.state = "done", !.exit = exit]
      BY <2>1, <2>2, <3>1
    <3>3. QED
      BY <1>17, <2>2, <3>2 DEF Process
  <2>4. gaps' = gaps /\ Hangup
    BY <1>19 DEF Finish
  <2>5. Hears(Heard)
    BY <1>1, <2>1, <2>3, <2>4, HearsNothing
  <2>6. QED
    BY <1>2, <1>7, <1>14, <2>3, <2>4, <2>5, SaidLess
<1>20. CASE KillRecorder
  <2>1. tape' = tape /\ Hangup /\ rec' = NoRecorder
    BY <1>20 DEF KillRecorder
  <2>2. rec'.buffer = <<>> /\ rec'.state # "up"
    BY <2>1 DEF NoRecorder
  <2>3. QED
    BY <1>2, <1>13, <1>14, <2>1, <2>2, SaidLess
<1>21. CASE Tick
  <2>1. UNCHANGED <<feed, rec, tape>>
    BY <1>21 DEF Tick
  <2>2. Whole(Heard') /\ Cores(Heard') \subseteq Cores(Heard)
    BY <1>6, <2>1
  <2>3. QED
    BY <1>1, <1>2, <2>1, <2>2, SaidLess
<1>22. QED
  BY <1>10, <1>11, <1>12, <1>15, <1>16, <1>18, <1>19, <1>20, <1>21 DEF RecorderNext

\* Maintenance leaves less said, and every payload but those of deltas.
LEMMA CareSaid ==
  ASSUME tape \in Seq(Row), CareNext, Whole(tape)
  PROVE  tape' \in Seq(Row) /\ Whole(tape') /\ Cores(tape') \subseteq Cores(tape)
<1>1. Len(tape) \in Nat /\ DOMAIN tape = 1..Len(tape) /\ \A i \in 1..Len(tape) : tape[i] \in Row
  BY LenProperties, ElementOfSeq
<1>2. CASE CompactBatch
  <2>1. PICK batch : /\ batch \in Batches({i \in DOMAIN tape : Compactable(tape[i])})
                     /\ tape' = [i \in DOMAIN tape |->
                          IF i \in batch THEN [tape[i] EXCEPT !.payload = FALSE] ELSE tape[i]]
    BY <1>2 DEF CompactBatch
  <2>2. batch \subseteq {i \in DOMAIN tape : Compactable(tape[i])}
    BY <2>1 DEF Batches, kSubset
  <2>3. tape' \in Seq(Row)
    BY <2>1, CompactedTyped
  <2>4. Len(tape') = Len(tape)
    BY <1>1, <2>1, <2>3, LenProperties
  <2>5. PICK gone \in BOOLEAN : gone = FALSE
    OBVIOUS
  <2>6. ASSUME NEW i \in 1..Len(tape)
        PROVE  /\ Core(tape'[i]) = Core(tape[i]) /\ tape'[i].type = tape[i].type
               /\ tape'[i].payload \/ tape'[i].type = "delta"
    <3>1. PICK row \in Row : row = tape[i]
      BY <1>1
    <3>2. tape'[i] = IF i \in batch THEN [row EXCEPT !.payload = gone] ELSE row
      BY <1>1, <2>1, <2>5, <3>1
    <3>3. row.payload \/ row.type = "delta"
      BY <3>1 DEF Whole
    <3>4. CASE i \in batch
      <4>1. PICK thin : thin = [row EXCEPT !.payload = gone]
        OBVIOUS
      <4>2. /\ thin.market = row.market /\ thin.type = row.type /\ thin.sid = row.sid
            /\ thin.seq = row.seq /\ thin.change = row.change /\ thin.book = row.book
        BY <4>1 DEF Row
      <4>3. Core(thin) = Core(row)
        BY <4>2 DEF Core
      <4>4. row.type = "delta"
        <5>1. row.type \notin {"trade", "snapshot"}
          BY <2>2, <3>1, <3>4 DEF Compactable
        <5>2. QED
          BY <5>1, RowFields DEF RowTypes
      <4>5. QED
        BY <3>1, <3>2, <3>4, <4>1, <4>2, <4>3, <4>4
    <3>5. CASE i \notin batch
      BY <3>1, <3>2, <3>3, <3>5
    <3>6. QED
      BY <3>4, <3>5
  <2>7. QED
    BY <2>3, <2>4, <2>6 DEF Whole, Cores
<1>3. CASE PruneBatch
  <2>1. PICK batch : tape' = Without(tape, batch)
    BY <1>3 DEF PruneBatch
  <2>2. tape' \in Seq(Row)
    BY <2>1, WithoutTyped
  <2>3. \A n \in 1..Len(tape') : \E i \in 1..Len(tape) : tape'[n] = tape[i]
    BY <2>1, WithoutTakes
  <2>4. QED
    BY <2>2, <2>3 DEF Whole, Cores
<1>4. QED
  BY <1>2, <1>3 DEF CareNext

\* Every step of the tape and its users keeps it.
LEMMA BooksInvStep ==
  ASSUME RecorderInv, BooksInv, [Next]_vars
  PROVE  BooksInv'
<1>1. RecorderInv'
  BY RecorderInvStep
<1>2. tape \in Seq(Row) /\ rec.buffer \in Seq(Row)
  BY ProcessFields DEF RecorderInv
<1>3. Heard = tape \o rec.buffer /\ Whole(tape) /\ Whole(rec.buffer)
      /\ Cores(Heard) = Cores(tape) \cup Cores(rec.buffer)
  BY <1>2, CoresConcat DEF Heard, BooksInv
<1>4. CASE RecorderStep
  BY <1>4, BooksStep DEF RecorderStep
<1>5. CASE Maintenance
  <2>1. CareNext /\ UNCHANGED <<rec, feed>>
    BY <1>5 DEF Maintenance, CareNext, CompactBatch, PruneBatch
  <2>2. tape' \in Seq(Row) /\ Whole(tape') /\ Cores(tape') \subseteq Cores(tape)
    BY <1>2, <1>3, <2>1, CareSaid
  <2>3. PICK t \in Seq(Row), b \in Seq(Row) : t = tape' /\ b = rec.buffer
    BY <1>2, <2>2
  <2>4. Heard' = t \o b
    BY <2>1, <2>3 DEF Heard
  <2>5. Whole(t \o b) /\ Cores(t \o b) = Cores(t) \cup Cores(b)
    BY <1>3, <2>2, <2>3, CoresConcat
  <2>6. Whole(Heard') /\ Cores(Heard') \subseteq Cores(Heard)
    BY <1>3, <2>2, <2>3, <2>4, <2>5
  <2>7. rec.state = "up" => feed.up
    BY DEF BooksInv
  <2>8. QED
    BY <1>1, <2>1, <2>6, <2>7, SaidLess
<1>6. CASE ShadowNext
  <2>1. UNCHANGED <<feed, rec, tape>>
    BY <1>6 DEF ShadowNext, Place, Resolve, ResolveBegin, ResolveLook, ResolveWalk,
                ResolveCommit, ResolveFails, recorderVars
  <2>2. QED
    BY <2>1 DEF BooksInv, Heard
<1>7. CASE UNCHANGED vars
  <2>1. UNCHANGED <<feed, rec, tape>>
    BY <1>7 DEF vars, recorderVars
  <2>2. QED
    BY <2>1 DEF BooksInv, Heard
<1>8. QED
  BY <1>4, <1>5, <1>6, <1>7 DEF Next

\* Nothing is heard of a book yet.
LEMMA BooksInvInitially ==
  ASSUME Init
  PROVE  BooksInv
<1>1. tape = <<>> /\ rec.buffer = <<>> /\ rec.state = "down"
  BY DEF Init, RecorderInit, Started, NoRecorder
<1>2. <<>> \in Seq(Row) /\ Len(<<>>) = 0
  BY EmptySeq
<1>3. Heard = <<>>
  BY <1>1, <1>2, ConcatEmptySeq DEF Heard
<1>4. Whole(Heard) /\ Cores(Heard) = {}
  BY <1>2, <1>3 DEF Whole, Cores
<1>5. QED
  BY <1>1, <1>4 DEF BooksInv

\* Whatever was lost, sent twice, dropped or pruned, any two messages of a book
\* on the tape that follow each other differ by the change.
THEOREM BooksInvariant == Spec => []BooksInv
<1>1. Init => BooksInv
  BY BooksInvInitially
<1>2. RecorderInv /\ BooksInv /\ [Next]_vars => BooksInv'
  BY BooksInvStep
<1>3. QED
  BY <1>1, <1>2, RecorderInvariant, PTL DEF Spec

\* The tape follows, and only deltas on it are without their payload.
LEMMA TapeFollows ==
  ASSUME RecorderInv, BooksInv
  PROVE  tape \in Seq(Row) /\ Chained(tape) /\ Whole(tape)
<1>1. tape \in Seq(Row) /\ rec.buffer \in Seq(Row)
  BY ProcessFields DEF RecorderInv
<1>2. Cores(tape) \subseteq Cores(Heard) /\ Whole(tape)
  BY <1>1, CoresConcat DEF Heard, BooksInv
<1>3. \A i \in 1..Len(tape) : tape[i] \in Row
  BY <1>1, ElementOfSeq
<1>4. ASSUME NEW i \in 1..Len(tape), NEW j \in 1..Len(tape),
             tape[i].type # "trade", tape[j].type # "trade"
      PROVE  tape[i].seq > 0 /\ Follows(tape[i], tape[j])
  <2>1. PICK a \in Cores(Heard), b \in Cores(Heard) : a = Core(tape[i]) /\ b = Core(tape[j])
    BY <1>2, <1>4 DEF Cores
  <2>2. Follows(a, b) /\ a.seq > 0
    BY DEF BooksInv, HeardOf
  <2>3. /\ a.market = tape[i].market /\ a.sid = tape[i].sid /\ a.seq = tape[i].seq
        /\ a.book = tape[i].book
    BY <1>3, <2>1, CoreFields
  <2>4. /\ b.market = tape[j].market /\ b.sid = tape[j].sid /\ b.seq = tape[j].seq
        /\ b.book = tape[j].book /\ b.type = tape[j].type /\ b.change = tape[j].change
    BY <1>3, <2>1, CoreFields
  <2>5. QED
    BY <2>2, <2>3, <2>4 DEF Follows
<1>5. QED
  BY <1>1, <1>2, <1>4 DEF Chained

\* "A silent error costs the meaning of every number computed from it": every
\* book the replay emits is the exchange's book at that row.
THEOREM ReplayIsSound == Spec => []ReplaySound
<1>1. RecorderInv /\ BooksInv => ReplaySound
  <2> SUFFICES ASSUME RecorderInv, BooksInv, NEW m \in Markets
               PROVE  EmitsBooks(Emitted(m))
    BY DEF ReplaySound, EmitsBooks
  <2>1. QED
    BY TapeFollows, ReplayEmitsBooks DEF Emitted
<1>2. QED
  BY <1>1, RecorderInvariant, BooksInvariant, PTL

-----------------------------------------------------------------------------
(***************************************************************************)
(* A compacted tape replays to what the whole one replays to.              *)
(***************************************************************************)

\* Two rows that a replay cannot tell apart.
Alike(a, b) ==
  /\ a.type = b.type /\ a.sid = b.sid /\ a.seq = b.seq /\ a.change = b.change /\ a.book = b.book
  /\ Readable(a) /\ Readable(b)

\* Two replays that read the same.
Twins(x, y) ==
  /\ x.engine = y.engine /\ x.refusals = y.refusals /\ Len(x.states) = Len(y.states)
  /\ \A i \in 1..Len(x.states) : /\ x.states[i][1].seq = y.states[i][1].seq
                                 /\ x.states[i][2] = y.states[i][2]

\* They do the same to an engine.
LEMMA AlikeApplied ==
  ASSUME NEW a, NEW b, Alike(a, b), NEW e
  PROVE  ApplyRow(e, a) = ApplyRow(e, b)
<1>1. PICK c : c = CheckSequence(e, a) /\ c = CheckSequence(e, b)
  BY DEF Alike, CheckSequence
<1>2. PICK d : d = ApplyDelta(c, a) /\ d = ApplyDelta(c, b)
  BY DEF Alike, ApplyDelta
<1>3. PICK changed : changed = IF IsRefused(c) THEN Refused
                               ELSE IF a.type = "snapshot"
                                    THEN [c EXCEPT !.base = TRUE, !.level = a.book]
                                    ELSE d
  OBVIOUS
<1>4. ApplyRow(e, a) = IF IsRefused(changed) THEN Refused ELSE [changed EXCEPT !.seq = a.seq]
  BY <1>1, <1>2, <1>3 DEF ApplyRow, Alike
<1>5. ApplyRow(e, b) = IF IsRefused(changed) THEN Refused ELSE [changed EXCEPT !.seq = b.seq]
  BY <1>1, <1>2, <1>3 DEF ApplyRow, Alike
<1>6. QED
  BY <1>4, <1>5 DEF Alike

\* The states of a replay that emits one more.
LEMMA Emits ==
  ASSUME NEW s \in Seq(Row \X Int), NEW a \in Row, NEW level \in Int
  PROVE  /\ Len(Append(s, <<a, level>>)) = Len(s) + 1 /\ Len(s) \in Nat
         /\ Append(s, <<a, level>>)[Len(s) + 1] = <<a, level>>
         /\ \A i \in 1..Len(s) : Append(s, <<a, level>>)[i] = s[i]
<1>1. PICK x \in Row \X Int : x = <<a, level>>
  OBVIOUS
<1>2. Len(s) \in Nat
  BY LenProperties
<1>3. Len(Append(s, x)) = Len(s) + 1 /\ Append(s, x)[Len(s) + 1] = x
      /\ \A i \in 1..Len(s) : Append(s, x)[i] = s[i]
  BY <1>2, AppendProperties
<1>4. QED
  BY <1>1, <1>2, <1>3

\* Rows alike keep twins twins.
LEMMA TwinsStep ==
  ASSUME NEW x \in ReplayRun, NEW y \in ReplayRun, Twins(x, y),
         NEW a \in Row, NEW b \in Row, Alike(a, b),
         a.type # "trade" /\ ~IsRefused(ApplyRow(x.engine, a)) => ApplyRow(x.engine, a) \in Engine
  PROVE  Twins(ReplayStep(x, a), ReplayStep(y, b))
<1>1. PICK p, q : p = ReplayStep(x, a) /\ q = ReplayStep(y, b)
  OBVIOUS
<1>2. CASE a.type = "trade"
  <2>1. b.type = "trade"
    BY <1>2 DEF Alike
  <2>2. p = [x EXCEPT !.prints = @ + 1] /\ q = [y EXCEPT !.prints = @ + 1]
    BY <1>1, <1>2, <2>1 DEF ReplayStep
  <2>3. /\ p.engine = x.engine /\ p.refusals = x.refusals /\ p.states = x.states
        /\ q.engine = y.engine /\ q.refusals = y.refusals /\ q.states = y.states
    BY <2>2 DEF ReplayRun
  <2>4. QED
    BY <1>1, <2>3 DEF Twins
<1>3. CASE a.type # "trade"
  <2>1. PICK next : next = ApplyRow(x.engine, a) /\ next = ApplyRow(y.engine, b)
    BY AlikeApplied DEF Twins
  <2>2. b.type # "trade"
    BY <1>3 DEF Alike
  <2>3. CASE IsRefused(next)
    <3>1. /\ p = [x EXCEPT !.engine = NewReplay, !.refusals = @ + 1]
          /\ q = [y EXCEPT !.engine = NewReplay, !.refusals = @ + 1]
      BY <1>1, <1>3, <2>1, <2>2, <2>3 DEF ReplayStep
    <3>2. /\ p.engine = NewReplay /\ p.refusals = x.refusals + 1 /\ p.states = x.states
          /\ q.engine = NewReplay /\ q.refusals = y.refusals + 1 /\ q.states = y.states
      BY <3>1 DEF ReplayRun
    <3>3. QED
      BY <1>1, <3>2 DEF Twins
  <2>4. CASE ~IsRefused(next)
    <3>1. next \in Engine /\ next.level \in Int
      BY <1>3, <2>1, <2>4 DEF Engine
    <3>2. PICK s, u : s = Append(x.states, <<a, next.level>>) /\ u = Append(y.states, <<b, next.level>>)
      OBVIOUS
    <3>3. /\ p = [x EXCEPT !.engine = next, !.applied = @ + 1, !.states = s]
          /\ q = [y EXCEPT !.engine = next, !.applied = @ + 1, !.states = u]
      BY <1>1, <1>3, <2>1, <2>2, <2>4, <3>2 DEF ReplayStep, ReplayRun
    <3>4. /\ p.engine = next /\ p.refusals = x.refusals /\ p.states = s
          /\ q.engine = next /\ q.refusals = y.refusals /\ q.states = u
      BY <3>3 DEF ReplayRun
    <3>5. PICK n \in Nat : n = Len(x.states) /\ n = Len(y.states)
      <4>1. x.states \in Seq(Row \X Int)
        BY DEF ReplayRun
      <4>2. QED
        BY <4>1, LenProperties DEF Twins
    <3>6. /\ Len(s) = n + 1 /\ s[n + 1] = <<a, next.level>> /\ \A i \in 1..n : s[i] = x.states[i]
          /\ Len(u) = n + 1 /\ u[n + 1] = <<b, next.level>> /\ \A i \in 1..n : u[i] = y.states[i]
      <4>1. x.states \in Seq(Row \X Int) /\ y.states \in Seq(Row \X Int)
        BY DEF ReplayRun
      <4>2. PICK level \in Int : level = next.level
        BY <3>1
      <4>3. /\ Len(s) = n + 1 /\ s[n + 1] = <<a, level>> /\ \A i \in 1..n : s[i] = x.states[i]
        <5>1. PICK old \in Seq(Row \X Int) : old = x.states
          BY <4>1
        <5>2. s = Append(old, <<a, level>>) /\ Len(old) = n
          BY <3>2, <3>5, <4>2, <5>1
        <5>3. QED
          BY <5>1, <5>2, Emits
      <4>4. /\ Len(u) = n + 1 /\ u[n + 1] = <<b, level>> /\ \A i \in 1..n : u[i] = y.states[i]
        <5>1. PICK old \in Seq(Row \X Int) : old = y.states
          BY <4>1
        <5>2. u = Append(old, <<b, level>>) /\ Len(old) = n
          BY <3>2, <3>5, <4>2, <5>1
        <5>3. QED
          BY <5>1, <5>2, Emits
      <4>5. QED
        BY <4>2, <4>3, <4>4
    <3>7. ASSUME NEW i \in 1..(n + 1) PROVE s[i][1].seq = u[i][1].seq /\ s[i][2] = u[i][2]
      <4>1. CASE i = n + 1
        BY <3>6, <4>1 DEF Alike
      <4>2. CASE i # n + 1
        <5>1. i \in 1..n
          BY <4>2
        <5>2. QED
          BY <3>5, <3>6, <5>1 DEF Twins
      <4>3. QED
        BY <4>1, <4>2
    <3>8. x.refusals = y.refusals
      BY DEF Twins
    <3>9. QED
      BY <1>1, <3>4, <3>6, <3>7, <3>8 DEF Twins
  <2>5. QED
    BY <2>3, <2>4
<1>4. QED
  BY <1>2, <1>3

\* Two chained tapes, alike row by row, replay alike.
LEMMA ReplaysAlike ==
  ASSUME NEW thin \in Seq(Row), NEW whole \in Seq(Row), Len(thin) = Len(whole),
         Chained(thin), Chained(whole), NEW m,
         \A i \in 1..Len(thin) : thin[i].market = whole[i].market /\ Alike(thin[i], whole[i])
  PROVE  Twins(ReplayRows(thin, LoadRows(thin, m)), ReplayRows(whole, LoadRows(whole, m)))
<1>1. PICK n \in Nat : n = Len(thin) /\ n = Len(whole) /\ DOMAIN thin = 1..n /\ DOMAIN whole = 1..n
  BY LenProperties
<1>2. \A i \in 1..n : thin[i] \in Row /\ whole[i] \in Row
  BY <1>1, ElementOfSeq
<1>3. PICK source : source = LoadRows(thin, m) /\ source = LoadRows(whole, m)
  BY <1>1 DEF LoadRows
<1>4. PICK T : /\ T[0] = NewRun
               /\ \A i \in 1..n : T[i] = Replayed(T[i - 1], thin, source, i)
               /\ ReplayRows(thin, source) = T[n]
  BY <1>1, ReplayIs, ZenonT(30)
<1>5. PICK W : /\ W[0] = NewRun
               /\ \A i \in 1..n : W[i] = Replayed(W[i - 1], whole, source, i)
               /\ ReplayRows(whole, source) = W[n]
  BY <1>1, ReplayIs
<1>6. \A i \in 0..n : T[i] \in ReplayRun /\ Holds(T[i].engine, thin, m)
  BY <1>1, <1>3, <1>4, ReplayStays
<1>7. \A i \in 0..n : W[i] \in ReplayRun
  BY <1>1, <1>3, <1>5, ReplayStays
<1> DEFINE Bad == {i \in 0..n : ~Twins(T[i], W[i])}
<1>8. Bad = {}
  <2>1. SUFFICES ASSUME Bad # {} PROVE FALSE
    OBVIOUS
  <2>2. PICK k \in Bad : \A j \in Bad : k <= j
    <3>1. Bad \in SUBSET Nat
      OBVIOUS
    <3> HIDE DEF Bad
    <3>2. QED
      BY <2>1, <3>1, Smallest
  <2>3. k \in 0..n /\ ~Twins(T[k], W[k])
    BY <2>2
  <2>4. k # 0
    BY <1>4, <1>5, <2>3 DEF Twins
  <2>5. k \in 1..n /\ k - 1 \in 0..n /\ ~(k <= k - 1)
    BY <2>3, <2>4
  <2>6. Twins(T[k - 1], W[k - 1])
    BY <2>2, <2>5
  <2> HIDE DEF Bad
  <2>7. PICK x \in ReplayRun, y \in ReplayRun : x = T[k - 1] /\ y = W[k - 1]
    BY <1>6, <1>7, <2>5
  <2>8. T[k] = Replayed(x, thin, source, k) /\ W[k] = Replayed(y, whole, source, k)
    BY <1>4, <1>5, <2>5, <2>7
  <2>9. CASE k \in source
    <3>1. T[k] = ReplayStep(x, thin[k]) /\ W[k] = ReplayStep(y, whole[k])
      BY <2>8, <2>9 DEF Replayed
    <3>2. thin[k].market = m
      BY <1>3, <2>9 DEF LoadRows
    <3>3. x.engine \in Engine /\ Holds(x.engine, thin, m)
      <4>1. Holds(x.engine, thin, m)
        BY <1>6, <2>5, <2>7
      <4>2. QED
        BY <4>1 DEF ReplayRun
    <3>4. thin[k].type # "trade" /\ ~IsRefused(ApplyRow(x.engine, thin[k]))
            => ApplyRow(x.engine, thin[k]) \in Engine
      BY <1>1, <2>5, <3>2, <3>3, Applying
    <3>5. PICK a \in Row, b \in Row : a = thin[k] /\ b = whole[k] /\ Alike(a, b)
      BY <1>1, <1>2, <2>5
    <3>6. Twins(ReplayStep(x, a), ReplayStep(y, b))
      BY <2>6, <2>7, <3>4, <3>5, TwinsStep
    <3>7. QED
      BY <2>3, <3>1, <3>5, <3>6
  <2>10. CASE k \notin source
    BY <2>3, <2>6, <2>7, <2>8, <2>10 DEF Replayed
  <2>11. QED
    BY <2>9, <2>10
<1>9. Twins(T[n], W[n])
  BY <1>8
<1>10. QED
  BY <1>3, <1>4, <1>5, <1>9

\* "The payload is redundant once outside the replay window": the tape with its
\* nulled payloads replays to what the uncompacted tape replays to.
THEOREM CompactionIsTransparent == Spec => []CompactionTransparent
<1>1. RecorderInv /\ BooksInv => CompactionTransparent
  <2> SUFFICES ASSUME RecorderInv, BooksInv PROVE CompactionTransparent
    OBVIOUS
  <2>1. tape \in Seq(Row) /\ Chained(tape) /\ Whole(tape)
    BY TapeFollows
  <2>2. PICK n \in Nat : n = Len(tape) /\ DOMAIN tape = 1..n
    BY <2>1, LenProperties
  <2>3. \A i \in 1..n : tape[i] \in Row
    BY <2>1, <2>2, ElementOfSeq
  <2>4. PICK yes \in BOOLEAN : yes = TRUE
    OBVIOUS
  <2>5. PICK whole : whole = Restored /\ whole = [i \in 1..n |-> [tape[i] EXCEPT !.payload = yes]]
    BY <2>2, <2>4 DEF Restored
  <2>6. ASSUME NEW i \in 1..n
        PROVE  /\ whole[i] \in Row /\ whole[i].market = tape[i].market /\ Alike(tape[i], whole[i])
    <3>1. PICK row \in Row : row = tape[i]
      BY <2>3
    <3>2. PICK full : full = [row EXCEPT !.payload = yes]
      OBVIOUS
    <3>3. /\ full \in Row /\ full.market = row.market /\ full.type = row.type /\ full.sid = row.sid
          /\ full.seq = row.seq /\ full.change = row.change /\ full.book = row.book
          /\ full.payload = yes
      BY <3>2 DEF Row
    <3>4. whole[i] = full
      BY <2>5, <3>1, <3>2
    <3>5. Readable(row) /\ Readable(full)
      BY <2>1, <2>2, <2>4, <3>1, <3>3 DEF Whole, Readable
    <3>6. QED
      BY <3>1, <3>3, <3>4, <3>5 DEF Alike
  <2>7. whole \in Seq(Row) /\ Len(whole) = n
    <3>1. whole \in [1..n -> Row]
      BY <2>5, <2>6
    <3>2. whole \in Seq(Row)
      BY <3>1, SeqDef
    <3>3. QED
      BY <2>5, <3>2, LenProperties
  <2>8. Chained(whole)
    <3>1. \A i \in 1..n : /\ whole[i].market = tape[i].market /\ whole[i].type = tape[i].type
                          /\ whole[i].sid = tape[i].sid /\ whole[i].seq = tape[i].seq
                          /\ whole[i].change = tape[i].change /\ whole[i].book = tape[i].book
      BY <2>6 DEF Alike
    <3>2. ASSUME NEW i \in 1..n, NEW j \in 1..n, whole[i].type # "trade", whole[j].type # "trade"
          PROVE  whole[i].seq > 0 /\ Follows(whole[i], whole[j])
      <4>1. tape[i].seq > 0 /\ Follows(tape[i], tape[j])
        BY <2>1, <2>2, <3>1, <3>2 DEF Chained
      <4>2. QED
        BY <3>1, <4>1 DEF Follows
    <3>3. QED
      BY <2>7, <3>2 DEF Chained
  <2>9. ASSUME NEW m \in Markets
        PROVE  LET Books(s) == [i \in DOMAIN s |-> <<s[i][1].seq, s[i][2]>>]
                   full == ReplayRows(Restored, LoadRows(Restored, m))
                   thin == ReplayRows(tape, LoadRows(tape, m))
               IN Books(thin.states) = Books(full.states) /\ thin.refusals = full.refusals
    <3>1. PICK thin, full : /\ thin = ReplayRows(tape, LoadRows(tape, m))
                            /\ full = ReplayRows(whole, LoadRows(whole, m))
      OBVIOUS
    <3>2. Twins(thin, full)
      BY <2>1, <2>2, <2>6, <2>7, <2>8, <3>1, ReplaysAlike
    <3>3. thin \in ReplayRun /\ full \in ReplayRun
      BY <2>1, <2>7, <2>8, <3>1, ReplayEmitsBooks
    <3>4. PICK s \in Seq(Row \X Int), u \in Seq(Row \X Int) : s = thin.states /\ u = full.states
      BY <3>3 DEF ReplayRun
    <3>5. DOMAIN s = DOMAIN u /\ \A i \in DOMAIN s : s[i][1].seq = u[i][1].seq /\ s[i][2] = u[i][2]
      BY <3>2, <3>4, LenProperties DEF Twins
    <3>6. [i \in DOMAIN s |-> <<s[i][1].seq, s[i][2]>>] = [i \in DOMAIN u |-> <<u[i][1].seq, u[i][2]>>]
      BY <3>5
    <3>7. QED
      BY <2>5, <3>1, <3>2, <3>4, <3>6 DEF Twins
  <2>10. QED
    BY <2>9 DEF CompactionTransparent
<1>2. QED
  BY <1>1, RecorderInvariant, BooksInvariant, PTL
=============================================================================
