---------------------- MODULE JsonlAsyncStorageProofs ----------------------
(***************************************************************************)
(* What holds of JsonlAsyncStorage for any number of clients, any queue    *)
(* capacity and batch size, with failing writes and timeouts.  Within one  *)
(* run of the process it implements Storage; over any number of crashes    *)
(* and restarts replay is in offset order and pages through everything,    *)
(* and what flush and close vouched for is in an undamaged file.           *)
(***************************************************************************)
EXTENDS JsonlAsyncStorage, TLAPS

Events == [offset : Nat, payload : Nat]
Locals == [batch : Seq(Events), accepted : Nat, committed : Nat,
           last_try : BOOLEAN, closing : BOOLEAN, goal : SUBSET Nat]
Labels == {"idle", "append", "accepted", "committed", "queued", "wait", "sync", "drain",
           "write", "commit", "count", "join", "shut", "exited"}

Types ==
  /\ queue \in Seq(Events) /\ committed_events \in Seq(Events)
  /\ next_offset \in Nat /\ accepted \in Nat /\ committed \in Nat
  /\ payloads \in Nat /\ restarts \in Nat /\ failures \in Nat /\ acked \subseteq Nat
  /\ pc \in [Threads -> Labels]
  /\ local \in [Threads -> Locals]

\* A line is not empty: a fragment, or what was written behind one cut short.
Fragments == Events \cup {Torn}
Lines == Seq(Fragments) \ {<<>>}
FileType ==
  /\ lines \in Seq(Lines)
  /\ unterminated \in BOOLEAN /\ (unterminated => lines # <<>>)

\* No offset is in the file twice.
OffsetAt(i) == lines[i][1].offset
DistinctOffsets == \A i, j \in Parsed : i # j => OffsetAt(i) # OffsetAt(j)

\* The queue holds the last offsets handed out, the file only earlier ones.
FirstQueued == next_offset - Len(queue)
QueueOffsets ==
  /\ FirstQueued \in Nat
  /\ \A i \in DOMAIN queue : queue[i].offset = FirstQueued + i - 1
  /\ \A i \in Parsed : OffsetAt(i) < FirstQueued

\* A batch about to be written is in order, and none of its offsets is queued, in
\* the file or in another batch.
Batch(t) == local[t].batch
BatchOffsets(t) ==
  pc[t] = "write" =>
    /\ Batch(t) # <<>>
    /\ InOrder(Batch(t))
    /\ \A k \in DOMAIN Batch(t) :
         /\ Batch(t)[k].offset < FirstQueued
         /\ \A i \in Parsed : OffsetAt(i) # Batch(t)[k].offset
    /\ \A u \in Threads : u # t /\ pc[u] = "write" =>
         \A k \in DOMAIN Batch(t), l \in DOMAIN Batch(u) : Batch(t)[k].offset # Batch(u)[l].offset

FileInv ==
  /\ FileType
  /\ DistinctOffsets
  /\ up => QueueOffsets /\ \A t \in Threads : BatchOffsets(t)

\* The flags and what is known before the storage is first opened.
Flags ==
  /\ closed \in BOOLEAN /\ is_open \in BOOLEAN
  /\ up \in BOOLEAN /\ start_flusher_thread \in BOOLEAN
  /\ ~up => lines = <<>> /\ ~start_flusher_thread /\ restarts = 0

\* Everything accepted, in the order it was accepted.
Log == committed_events \o InFlight(Flusher) \o queue

\* A client never drains or writes when there is a flusher; what it knows while it
\* holds queue_mutex_ or has joined the flusher.
ClientInv(c) ==
  /\ pc[c] \notin {"drain", "write", "commit", "count", "exited"}
  /\ ~local[c].closing
  /\ pc[c] = "append" => queue_owner = c /\ payloads < MaxEvents
  /\ pc[c] = "shut" => pc[Flusher] = "exited"

\* The flusher never holds an empty batch, and ends after closed_ with nothing queued.
FlusherInv ==
  /\ pc[Flusher] \in {"idle", "write", "commit", "count", "exited"}
  /\ pc[Flusher] \in {"write", "commit"} => local[Flusher].batch # <<>>
  /\ pc[Flusher] = "exited" => closed /\ queue = <<>> /\ queue_owner = NoOne
  /\ ~is_open => pc[Flusher] = "exited"

WithFlusher == FlusherInv /\ \A c \in Clients : ClientInv(c)

\* Within the first run offsets are places in the log.
Numbered == next_offset = Len(Log)

StorageInv == Types /\ FileInv /\ Flags /\ (start_flusher_thread => WithFlusher /\ Numbered)

-----------------------------------------------------------------------------
(* Sequences *)

\* A sequence is the function of its elements.
LEMMA Elements ==
  ASSUME NEW S, NEW s \in Seq(S)
  PROVE  /\ Len(s) \in Nat /\ DOMAIN s = 1..Len(s)
         /\ s \in [1..Len(s) -> S] /\ \A i \in 1..Len(s) : s[i] \in S
  OBVIOUS

\* The empty sequence is the one of length 0.
LEMMA Empty ==
  ASSUME NEW S
  PROVE  /\ <<>> \in Seq(S) /\ Len(<<>>) = 0
         /\ \A s \in Seq(S) : s = <<>> <=> Len(s) = 0
  OBVIOUS

\* Sequences with the same elements are the same.
LEMMA SameElements ==
  ASSUME NEW S, NEW a \in Seq(S), NEW b \in Seq(S), Len(a) = Len(b),
         \A i \in 1..Len(a) : a[i] = b[i]
  PROVE  a = b
  OBVIOUS

\* A sequence over a set is one over a larger set.
LEMMA Wider ==
  ASSUME NEW S, NEW T, S \subseteq T, NEW s \in Seq(S)
  PROVE  s \in Seq(T)
  OBVIOUS

\* Where the elements of a concatenation come from.
LEMMA Joined ==
  ASSUME NEW S, NEW a \in Seq(S), NEW b \in Seq(S)
  PROVE  /\ a \o b \in Seq(S) /\ Len(a \o b) = Len(a) + Len(b)
         /\ Len(a) \in Nat /\ Len(b) \in Nat
         /\ \A i \in 1..Len(a) : (a \o b)[i] = a[i]
         /\ \A i \in 1..Len(b) : (a \o b)[Len(a) + i] = b[i]
  OBVIOUS

\* Concatenation can be bracketed in either way.
LEMMA Brackets ==
  ASSUME NEW S, NEW a \in Seq(S), NEW b \in Seq(S), NEW c \in Seq(S)
  PROVE  (a \o b) \o c = a \o (b \o c)
  OBVIOUS

\* Concatenation with nothing.
LEMMA WithEmpty ==
  ASSUME NEW S, NEW a \in Seq(S)
  PROVE  a \o <<>> = a /\ <<>> \o a = a
  OBVIOUS

\* An element put at the end.
LEMMA Appended ==
  ASSUME NEW S, NEW s \in Seq(S), NEW e \in S
  PROVE  /\ Append(s, e) \in Seq(S) /\ Len(Append(s, e)) = Len(s) + 1
         /\ Append(s, e)[Len(s) + 1] = e
         /\ \A i \in 1..Len(s) : Append(s, e)[i] = s[i]
         /\ <<e>> \in Seq(S) /\ Append(s, e) = s \o <<e>>
  OBVIOUS

\* All elements but the first.
LEMMA Tails ==
  ASSUME NEW S, NEW s \in Seq(S), s # <<>>
  PROVE  /\ Tail(s) \in Seq(S) /\ Len(Tail(s)) = Len(s) - 1
         /\ \A i \in 1..(Len(s) - 1) : Tail(s)[i] = s[i + 1]
  OBVIOUS

\* The first n elements.
LEMMA Prefix ==
  ASSUME NEW S, NEW s \in Seq(S), NEW n \in 0..Len(s)
  PROVE  /\ SubSeq(s, 1, n) \in Seq(S) /\ Len(SubSeq(s, 1, n)) = n
         /\ \A i \in 1..n : SubSeq(s, 1, n)[i] = s[i]
  OBVIOUS

\* What is left behind the first n elements.
LEMMA Suffix ==
  ASSUME NEW S, NEW s \in Seq(S), NEW n \in 0..Len(s)
  PROVE  /\ SubSeq(s, n + 1, Len(s)) \in Seq(S) /\ Len(SubSeq(s, n + 1, Len(s))) = Len(s) - n
         /\ \A i \in 1..(Len(s) - n) : SubSeq(s, n + 1, Len(s))[i] = s[n + i]
  OBVIOUS

\* What drain_batch takes and what it leaves make up the queue.
LEMMA BatchAndRest ==
  ASSUME Types, queue # <<>>
  PROVE  LET n == Least(BatchSize, Len(queue))
         IN /\ NextBatch \in Seq(Events) /\ NextBatch # <<>>
            /\ SubSeq(queue, n + 1, Len(queue)) \in Seq(Events)
            /\ NextBatch \o SubSeq(queue, n + 1, Len(queue)) = queue
<1> DEFINE n == Least(BatchSize, Len(queue))
           rest == SubSeq(queue, n + 1, Len(queue))
<1>1. queue \in Seq(Events) /\ Len(queue) \in Nat /\ Len(queue) # 0
  BY Empty, Elements, Zenon DEF Types
<1>2. n \in 1..Len(queue)
  BY <1>1, ConfigAssumption DEF Least
<1> HIDE DEF n
<1>3. NextBatch = SubSeq(queue, 1, n)
  BY Zenon DEF NextBatch, n
<1>4. /\ NextBatch \in Seq(Events) /\ Len(NextBatch) = n
      /\ \A i \in 1..n : NextBatch[i] = queue[i]
  BY <1>1, <1>2, <1>3, Prefix
<1>5. /\ rest \in Seq(Events) /\ Len(rest) = Len(queue) - n
      /\ \A i \in 1..(Len(queue) - n) : rest[i] = queue[n + i]
  BY <1>1, <1>2, Suffix
<1> HIDE DEF rest
<1>6. NextBatch # <<>>
  BY <1>2, <1>4, Empty
<1>7. NextBatch \o rest = queue
  <2>1. /\ NextBatch \o rest \in Seq(Events) /\ Len(NextBatch \o rest) = Len(queue)
        /\ \A i \in 1..n : (NextBatch \o rest)[i] = queue[i]
        /\ \A i \in 1..(Len(queue) - n) : (NextBatch \o rest)[n + i] = queue[n + i]
    <3>1. NextBatch \in Seq(Events) /\ rest \in Seq(Events)
      BY <1>4, <1>5, Zenon
    <3>2. /\ NextBatch \o rest \in Seq(Events) /\ Len(NextBatch \o rest) = Len(NextBatch) + Len(rest)
          /\ \A i \in 1..Len(NextBatch) : (NextBatch \o rest)[i] = NextBatch[i]
          /\ \A i \in 1..Len(rest) : (NextBatch \o rest)[Len(NextBatch) + i] = rest[i]
      BY <3>1, Joined
    <3> QED
      BY <1>1, <1>2, <1>4, <1>5, <3>2
  <2>2. ASSUME NEW i \in 1..Len(queue) PROVE (NextBatch \o rest)[i] = queue[i]
    <3>1. i \in 1..n \/ (i - n \in 1..(Len(queue) - n) /\ n + (i - n) = i)
      BY <1>1, <1>2
    <3> QED
      BY <2>1, <3>1, Zenon
  <2> QED
    BY <1>1, <2>1, <2>2, SameElements, ZenonT(30)
<1> QED
  BY <1>4, <1>5, <1>6, <1>7, Zenon DEF n, rest

\* The batch in the flusher's hands is a sequence of events, and so is Log.
LEMMA LogType ==
  ASSUME Types
  PROVE  /\ InFlight(Flusher) \in Seq(Events) /\ Log \in Seq(Events)
         /\ Len(Log) = Len(committed_events) + Len(InFlight(Flusher)) + Len(queue)
<1>1. local[Flusher] \in Locals
  BY Zenon DEF Types, Threads
<1>2. local[Flusher].batch \in Seq(Events)
  BY <1>1, Zenon DEF Locals
<1>3. InFlight(Flusher) \in Seq(Events)
  BY <1>2, Empty, Zenon DEF InFlight
<1>4. committed_events \in Seq(Events) /\ queue \in Seq(Events)
  BY Zenon DEF Types
<1>5. /\ committed_events \o InFlight(Flusher) \in Seq(Events)
      /\ Len(committed_events \o InFlight(Flusher)) = Len(committed_events) + Len(InFlight(Flusher))
  BY <1>3, <1>4, Joined, Zenon
<1> QED
  BY <1>3, <1>4, <1>5, Joined DEF Log
-----------------------------------------------------------------------------
(* The file *)

\* A line that parses is an event.
LEMMA ParsedLines ==
  ASSUME FileType
  PROVE  /\ Parsed \subseteq 1..Len(lines) /\ Len(lines) \in Nat
         /\ \A i \in Parsed : lines[i] \in Seq(Fragments) /\ lines[i][1] \in Events
<1>1. Len(lines) \in Nat /\ DOMAIN lines = 1..Len(lines) /\ \A i \in 1..Len(lines) : lines[i] \in Lines
  BY Elements, Zenon DEF FileType
<1>2. Parsed \subseteq 1..Len(lines)
  BY <1>1, Zenon DEF Parsed
<1>3. ASSUME NEW i \in Parsed PROVE lines[i] \in Seq(Fragments) /\ lines[i][1] \in Events
  <2>1. lines[i] \in Seq(Fragments) /\ Len(lines[i]) = 1 /\ lines[i][1] # Torn
    BY <1>1, <1>2, Zenon DEF Parsed, Parses, Lines
  <2>2. lines[i][1] \in Fragments
    BY <2>1, Elements
  <2> QED
    BY <2>1, <2>2, Zenon DEF Fragments
<1> QED
  BY <1>1, <1>2, <1>3, Zenon

\* load_existing_file lists the lines that parse by offset, each once; the first
\* free offset is above them all.
LEMMA Loading ==
  ASSUME FileType, NEW events \in LoadedEvents
  PROVE  /\ events \in Seq(Events)
         /\ DistinctOffsets => InOrder(events)
         /\ FirstFreeOffset(events) \in Nat
         /\ \A i \in DOMAIN events : events[i].offset < FirstFreeOffset(events)
         /\ \A i \in Parsed : OffsetAt(i) < FirstFreeOffset(events)
         /\ PayloadsOf(events) = Stored
         /\ lines = <<>> => events = <<>>
<1>0. Len(lines) \in Nat
  BY ParsedLines, Zenon
<1>1. PICK n \in Nat : \E o \in [1..n -> Parsed] :
        ByOffset(o) /\ events = [k \in 1..n |-> lines[o[k]][1]]
  BY <1>0 DEF LoadedEvents
<1>2. PICK order \in [1..n -> Parsed] : ByOffset(order) /\ events = [k \in 1..n |-> lines[order[k]][1]]
  BY <1>1, Zenon
<1>3. \A k \in 1..n : order[k] \in Parsed /\ events[k] = lines[order[k]][1] /\ events[k] \in Events
  BY <1>2, ParsedLines, Zenon
<1>4. events \in Seq(Events) /\ Len(events) = n /\ DOMAIN events = 1..n
  BY <1>2, <1>3
<1>5. \A k \in 1..n : events[k].offset \in Nat /\ events[k].offset = OffsetAt(order[k])
  BY <1>3, Zenon DEF Events, OffsetAt
<1>6. /\ \A i \in Parsed : \E k \in 1..n : order[k] = i
      /\ \A i, j \in 1..n : i < j => order[i] # order[j] /\ events[i].offset <= events[j].offset
  <2>1. DOMAIN order = 1..n
    BY <1>2, Zenon
  <2> QED
    BY <1>2, <1>3, <2>1, Zenon DEF ByOffset
<1>7. ASSUME DistinctOffsets PROVE InOrder(events)
  <2> SUFFICES ASSUME NEW i \in 1..n, NEW j \in 1..n, i < j PROVE events[i].offset < events[j].offset
    BY <1>4, Zenon DEF InOrder
  <2>1. events[i].offset # events[j].offset
    BY <1>3, <1>5, <1>6, <1>7 DEF DistinctOffsets
  <2> QED
    BY <1>5, <1>6, <2>1
<1>8. FirstFreeOffset(events) \in Nat /\ \A i \in 1..n : events[i].offset < FirstFreeOffset(events)
  <2>1. CASE n = 0
    BY <1>4, <2>1 DEF FirstFreeOffset
  <2>2. CASE n # 0
    <3>1. events # <<>> /\ n \in 1..n
      BY <1>4, <2>2
    <3>2. FirstFreeOffset(events) = events[n].offset + 1
      BY <1>4, <3>1, Zenon DEF FirstFreeOffset
    <3>3. ASSUME NEW i \in 1..n PROVE events[i].offset <= events[n].offset
      BY <1>5, <1>6, <3>1
    <3> QED
      BY <1>5, <3>1, <3>2, <3>3
  <2> QED
    BY <2>1, <2>2, Zenon
<1>9. ASSUME NEW k \in Parsed PROVE OffsetAt(k) < FirstFreeOffset(events)
  BY <1>5, <1>6, <1>8
<1>10. PayloadsOf(events) = Stored
  <2>1. PayloadsOf(events) = {events[k].payload : k \in 1..n}
    BY <1>4, Zenon DEF PayloadsOf, SeqRange
  <2>2. \A k \in 1..n : events[k].payload = lines[order[k]][1].payload
    BY <1>3, Zenon
  <2> QED
    BY <1>3, <1>6, <2>1, <2>2 DEF Stored
<1>11. ASSUME lines = <<>> PROVE events = <<>>
  <2>1. Parsed = {}
    BY <1>11, ParsedLines, Empty
  <2>2. n = 0
    BY <1>3, <2>1
  <2> QED
    BY <1>4, <2>2, Empty, Zenon
<1> QED
  BY <1>4, <1>7, <1>8, <1>9, <1>10, <1>11, Zenon

\* Fragments written to lines of their own.
LEMMA Singles ==
  ASSUME NEW s \in Seq(Fragments)
  PROVE  LET fresh == [i \in 1..Len(s) |-> <<s[i]>>]
         IN /\ fresh \in Seq(Lines) /\ Len(fresh) = Len(s)
            /\ \A i \in 1..Len(s) : fresh[i] = <<s[i]>>
<1>1. Len(s) \in Nat /\ \A i \in 1..Len(s) : s[i] \in Fragments
  BY Elements, Zenon
<1>2. \A x \in Fragments : <<x>> \in Lines
  BY DEF Lines
<1> QED
  BY <1>1, <1>2

\* The place of the last line that a write leaves alone.
Kept == IF unterminated THEN Len(lines) - 1 ELSE Len(lines)

\* What a write makes of the file: the lines up to Kept stay, an unterminated one
\* goes on with the first fragment, every other fragment is a line of its own.
LEMMA WrittenIs ==
  ASSUME FileType, NEW f \in Seq(Fragments), f # <<>>
  PROVE  /\ Written(f) \in Seq(Lines) /\ Len(Written(f)) = Kept + Len(f)
         /\ Kept \in Nat /\ Kept <= Len(lines) /\ Len(f) \in Nat \ {0} /\ Len(lines) \in Nat
         /\ \A i \in 1..Kept : Written(f)[i] = lines[i]
         /\ unterminated => Len(Written(f)[Kept + 1]) # 1 /\ Kept + 1 = Len(lines)
         /\ \A k \in 1..Len(f) : k > 1 \/ ~unterminated => Written(f)[Kept + k] = <<f[k]>>
<1> DEFINE n == Len(lines)
           m == Len(f)
           fresh(s) == [i \in 1..Len(s) |-> <<s[i]>>]
<1>1. n \in Nat /\ lines \in Seq(Lines) /\ \A i \in 1..n : lines[i] \in Lines
  BY Elements, Zenon DEF FileType
<1>2. m \in Nat \ {0} /\ \A k \in 1..m : f[k] \in Fragments
  BY Elements, Empty
<1>3. \A x \in Fragments : <<x>> \in Lines
  BY DEF Lines
<1>4. CASE ~unterminated
  <2>1. Written(f) = lines \o fresh(f) /\ Kept = n
    BY <1>4, Zenon DEF Written, Kept
  <2>2. fresh(f) \in Seq(Lines) /\ Len(fresh(f)) = m
    BY <1>2, <1>3
  <2>3. \A k \in 1..m : fresh(f)[k] = <<f[k]>>
    BY <1>2, Zenon
  <2> HIDE DEF fresh, n, m
  <2>4. /\ lines \o fresh(f) \in Seq(Lines) /\ Len(lines \o fresh(f)) = n + m
        /\ \A i \in 1..n : (lines \o fresh(f))[i] = lines[i]
        /\ \A k \in 1..m : (lines \o fresh(f))[n + k] = fresh(f)[k]
    <3>1. /\ lines \o fresh(f) \in Seq(Lines)
          /\ Len(lines \o fresh(f)) = Len(lines) + Len(fresh(f))
          /\ \A i \in 1..Len(lines) : (lines \o fresh(f))[i] = lines[i]
          /\ \A k \in 1..Len(fresh(f)) : (lines \o fresh(f))[Len(lines) + k] = fresh(f)[k]
      <4>1. PICK g \in Seq(Lines) : g = fresh(f)
        BY <2>2, Zenon
      <4>2. /\ lines \o g \in Seq(Lines) /\ Len(lines \o g) = Len(lines) + Len(g)
            /\ \A i \in 1..Len(lines) : (lines \o g)[i] = lines[i]
            /\ \A k \in 1..Len(g) : (lines \o g)[Len(lines) + k] = g[k]
        BY <1>1, Joined, SMT
      <4> QED
        BY <4>1, <4>2, Zenon
    <3> QED
      BY <2>2, <3>1, Zenon DEF n
  <2>5. \A i \in 1..n : Written(f)[i] = lines[i]
    BY <1>1, <1>2, <2>1, <2>4, Zenon
  <2>6. \A k \in 1..m : Written(f)[n + k] = <<f[k]>>
    BY <2>1, <2>3, <2>4, ZenonT(60)
  <2> QED
    BY <1>1, <1>2, <1>4, <2>1, <2>4, <2>5, <2>6 DEF n, m
<1>5. CASE unterminated
  <2> DEFINE last == <<Append(lines[n], Head(f))>>
             rest == fresh(Tail(f))
             front == SubSeq(lines, 1, n - 1)
  <2>1. n # 0 /\ n \in 1..n
    BY <1>1, <1>5, Empty DEF FileType
  <2>2. Written(f) = (front \o last) \o rest /\ Kept = n - 1
    BY <1>5, Zenon DEF Written, Kept
  <2>3. lines[n] \in Seq(Fragments) /\ Len(lines[n]) \in Nat \ {0}
    BY <1>1, <2>1, Empty, Elements DEF Lines
  <2>4. Head(f) \in Fragments /\ Head(f) = f[1]
    BY <1>2
  <2>5. /\ Append(lines[n], Head(f)) \in Seq(Fragments)
        /\ Len(Append(lines[n], Head(f))) = Len(lines[n]) + 1
    BY <2>3, <2>4, Appended
  <2>6. Append(lines[n], Head(f)) \in Lines /\ Len(Append(lines[n], Head(f))) # 1
    BY <2>3, <2>5, Empty DEF Lines
  <2>7. last \in Seq(Lines) /\ Len(last) = 1 /\ last[1] = Append(lines[n], Head(f))
    BY <2>6
  <2>8. /\ Tail(f) \in Seq(Fragments) /\ Len(Tail(f)) = m - 1
        /\ \A k \in 1..(m - 1) : Tail(f)[k] = f[k + 1]
    BY <1>2, Tails, Zenon
  <2>9. rest \in Seq(Lines) /\ Len(rest) = m - 1 /\ \A k \in 1..(m - 1) : rest[k] = <<f[k + 1]>>
    <3>1. /\ rest \in Seq(Lines) /\ Len(rest) = Len(Tail(f))
          /\ \A k \in 1..Len(Tail(f)) : rest[k] = <<Tail(f)[k]>>
      BY <2>8, Singles, Zenon
    <3> QED
      BY <2>8, <3>1, Zenon
  <2>10. /\ front \in Seq(Lines) /\ Len(front) = n - 1
         /\ \A i \in 1..(n - 1) : front[i] = lines[i]
    <3>1. n - 1 \in 0..n
      BY <1>1, <2>1
    <3> QED
      BY <1>1, <3>1, Prefix, ZenonT(60)
  <2> HIDE DEF last, rest, front, n, m
  <2>11. /\ front \o last \in Seq(Lines) /\ Len(front \o last) = n
         /\ \A i \in 1..(n - 1) : (front \o last)[i] = front[i]
         /\ (front \o last)[n] = last[1]
    <3>1. Len(front) + Len(last) = n /\ (n - 1) + 1 = n
      BY <1>1, <2>1, <2>7, <2>10
    <3>2. /\ front \o last \in Seq(Lines) /\ Len(front \o last) = Len(front) + Len(last)
          /\ \A i \in 1..Len(front) : (front \o last)[i] = front[i]
          /\ \A i \in 1..Len(last) : (front \o last)[Len(front) + i] = last[i]
      <4>1. front \in Seq(Lines) /\ last \in Seq(Lines)
        BY <2>7, <2>10, Zenon
      <4> QED
        BY <4>1, Joined, SMT
    <3>3. 1 \in 1..Len(last)
      BY <2>7
    <3> QED
      BY <2>7, <2>10, <3>1, <3>2, <3>3, ZenonT(30)
  <2>12. /\ Written(f) \in Seq(Lines) /\ Len(Written(f)) = n + (m - 1)
         /\ \A i \in 1..n : Written(f)[i] = (front \o last)[i]
         /\ \A i \in 1..(m - 1) : Written(f)[n + i] = rest[i]
    <3>1. /\ (front \o last) \o rest \in Seq(Lines)
          /\ Len((front \o last) \o rest) = Len(front \o last) + Len(rest)
          /\ \A i \in 1..Len(front \o last) : ((front \o last) \o rest)[i] = (front \o last)[i]
          /\ \A i \in 1..Len(rest) : ((front \o last) \o rest)[Len(front \o last) + i] = rest[i]
      <4>1. front \o last \in Seq(Lines) /\ rest \in Seq(Lines)
        BY <2>9, <2>11, Zenon
      <4> QED
        BY <4>1, Joined, SMT
    <3> QED
      BY <2>2, <2>9, <2>11, <3>1, ZenonT(60)
  <2>13. ASSUME NEW i \in 1..(n - 1) PROVE Written(f)[i] = lines[i]
    <3>1. i \in 1..n
      BY <1>1, <2>1
    <3> QED
      BY <2>10, <2>11, <2>12, <3>1, Zenon
  <2>14. Written(f)[n] = Append(lines[n], Head(f))
    BY <2>1, <2>7, <2>11, <2>12, ZenonT(60)
  <2>15. ASSUME NEW k \in 1..m, k > 1 PROVE Written(f)[n - 1 + k] = <<f[k]>>
    <3>1. n + (k - 1) = n - 1 + k /\ k - 1 \in 1..(m - 1) /\ (k - 1) + 1 = k
      BY <1>1, <1>2, <2>1, <2>15
    <3> QED
      BY <2>9, <2>12, <3>1
  <2>16. n - 1 \in Nat /\ n - 1 <= n /\ n + (m - 1) = (n - 1) + m /\ (n - 1) + 1 = n
    BY <1>1, <1>2, <2>1
  <2> QED
    BY <1>1, <1>2, <1>5, <2>2, <2>6, <2>12, <2>13, <2>14, <2>15, <2>16, ZenonT(30) DEF n, m
<1> QED
  BY <1>4, <1>5, ZenonT(60) DEF FileType

\* What reaches the file of a batch: its events one after the other, but for
\* fragments that were cut short.
FromBatch(f, b) ==
  /\ f \in Seq(Fragments)
  /\ \A k \in 1..Len(f) : f[k] # Torn => k \in 1..Len(b) /\ f[k] = b[k]

\* The file has only whole lines.
Whole == ~unterminated /\ \A i \in DOMAIN lines : Parses(lines[i])

\* No event is a fragment cut short.
LEMMA EventsAreWhole == \A e \in Events : e # Torn /\ e \in Fragments
  BY TornAssumption, Zenon DEF Events, Fragments

\* Writing from a batch: a line that parses afterwards was there or is an event of
\* the batch; if the whole file parses, all of it did and nothing is lost.
LEMMA FileStep ==
  ASSUME FileType, NEW b \in Seq(Events), NEW f, FromBatch(f, b), lines' = Written(f),
         unterminated' \in BOOLEAN, f = <<>> => unterminated' = unterminated
  PROVE  /\ FileType'
         /\ \A i \in Parsed' :
              \/ i \in Parsed /\ lines'[i] = lines[i]
              \/ \E k \in 1..Len(b) : i = Kept + k /\ lines'[i] = <<b[k]>>
         /\ Whole' => Whole /\ \A i \in Parsed : i \in Parsed' /\ lines'[i] = lines[i]
         /\ Whole' /\ f = b => \A k \in 1..Len(b) : \E i \in Parsed' : lines'[i] = <<b[k]>>
<1>1. Len(b) \in Nat /\ \A k \in 1..Len(b) : b[k] \in Events
  BY Elements, Zenon
<1>2. CASE f = <<>>
  <2>1. UNCHANGED <<lines, unterminated>>
    BY <1>2, Zenon DEF Written
  <2>2. FileType' /\ Parsed' = Parsed
    BY <2>1, Zenon DEF FileType, Parsed
  <2>3. Whole' => Whole
    BY <2>1, Zenon DEF Whole
  <2>4. f = b => 1..Len(b) = {}
    BY <1>1, <1>2
  <2> QED
    BY <2>1, <2>2, <2>3, <2>4, Zenon
<1>3. CASE f # <<>>
  <2>1. f \in Seq(Fragments)
    BY Zenon DEF FromBatch
  <2>2. /\ lines' \in Seq(Lines) /\ Len(lines') = Kept + Len(f)
        /\ Kept \in Nat /\ Kept <= Len(lines) /\ Len(f) \in Nat \ {0} /\ Len(lines) \in Nat
        /\ \A i \in 1..Kept : lines'[i] = lines[i]
        /\ unterminated => Len(lines'[Kept + 1]) # 1 /\ Kept + 1 = Len(lines)
        /\ \A k \in 1..Len(f) : k > 1 \/ ~unterminated => lines'[Kept + k] = <<f[k]>>
    BY <1>3, <2>1, WrittenIs, Zenon
  <2>3. DOMAIN lines' = 1..(Kept + Len(f)) /\ DOMAIN lines = 1..Len(lines)
    BY <2>2, Elements, Zenon DEF FileType
  <2>4. FileType'
    BY <2>2, Empty DEF FileType
  <2>5. ASSUME unterminated PROVE Kept + 1 \in DOMAIN lines' /\ ~Parses(lines'[Kept + 1])
    <3>1. Kept \in Nat /\ Len(f) \in Nat \ {0} /\ Len(lines'[Kept + 1]) # 1
      BY <2>2, <2>5, Zenon
    <3>2. Kept + 1 \in 1..(Kept + Len(f))
      BY <3>1
    <3> QED
      BY <2>3, <3>1, <3>2, Zenon DEF Parses
  <2>6. ASSUME NEW i \in Parsed'
        PROVE  \/ i \in Parsed /\ lines'[i] = lines[i]
               \/ \E k \in 1..Len(b) : i = Kept + k /\ lines'[i] = <<b[k]>>
    <3>1. i \in 1..(Kept + Len(f)) /\ Parses(lines'[i])
      BY <2>3, Zenon DEF Parsed
    <3>2. CASE i <= Kept
      <4>1. Kept \in Nat /\ Len(lines) \in Nat /\ Len(f) \in Nat /\ Kept <= Len(lines)
        BY <2>2, Zenon
      <4>2. i \in 1..Kept /\ i \in 1..Len(lines)
        BY <3>1, <3>2, <4>1
      <4>3. lines'[i] = lines[i]
        BY <2>2, <4>2, Zenon
      <4> QED
        BY <2>3, <3>1, <4>2, <4>3, Zenon DEF Parsed
    <3>3. CASE ~(i <= Kept)
      <4>1. PICK k \in 1..Len(f) : i = Kept + k
        <5>1. i - Kept \in 1..Len(f) /\ i = Kept + (i - Kept)
          BY <2>2, <3>1, <3>3
        <5> QED
          BY <5>1, Zenon
      <4>2. k > 1 \/ ~unterminated
        BY <2>2, <2>5, <3>1, <4>1
      <4>3. lines'[i] = <<f[k]>>
        BY <2>2, <4>1, <4>2, Zenon
      <4>4. f[k] # Torn
        BY <3>1, <4>3 DEF Parses
      <4> QED
        BY <4>1, <4>3, <4>4, Zenon DEF FromBatch
    <3> QED
      BY <3>2, <3>3, Zenon
  <2>7. ASSUME Whole' PROVE ~unterminated
    BY <2>5, <2>7, Zenon DEF Whole
  <2>8. ASSUME Whole' PROVE Whole /\ \A i \in Parsed : i \in Parsed' /\ lines'[i] = lines[i]
    <3>1. ~unterminated /\ Kept = Len(lines)
      BY <2>7, <2>8, Zenon DEF Kept
    <3>2. ASSUME NEW i \in DOMAIN lines
          PROVE  i \in DOMAIN lines' /\ lines'[i] = lines[i] /\ Parses(lines[i])
      <4>0. Kept \in Nat /\ Len(f) \in Nat /\ i \in 1..Kept
        BY <2>2, <2>3, <3>1, Zenon
      <4>1. i \in 1..Kept /\ i \in 1..(Kept + Len(f))
        BY <4>0
      <4>2. lines'[i] = lines[i] /\ i \in DOMAIN lines'
        BY <2>2, <2>3, <4>1, ZenonT(60)
      <4>3. Parses(lines'[i])
        BY <2>8, <4>2, Zenon DEF Whole
      <4> QED
        BY <4>2, <4>3, Zenon
    <3> QED
      BY <3>1, <3>2, Zenon DEF Whole, Parsed
  <2>9. ASSUME Whole', f = b, NEW k \in 1..Len(b) PROVE \E i \in Parsed' : lines'[i] = <<b[k]>>
    <3>1. lines'[Kept + k] = <<b[k]>> /\ Kept + k \in DOMAIN lines'
      <4>1. ~unterminated /\ k \in 1..Len(f) /\ b[k] = f[k]
        BY <2>7, <2>9, Zenon
      <4>2. Kept + k \in 1..(Kept + Len(f))
        BY <2>2, <4>1
      <4> QED
        BY <2>2, <2>3, <4>1, <4>2, ZenonT(60)
    <3>2. Kept + k \in Parsed'
      BY <2>9, <3>1, Zenon DEF Whole, Parsed
    <3> QED
      BY <3>1, <3>2, Zenon
  <2> QED
    BY <2>4, <2>6, <2>8, <2>9, ZenonT(60)
<1> QED
  BY <1>2, <1>3, ZenonT(60)

\* A write that is cut short writes from its batch.
LEMMA CutFromBatch ==
  ASSUME FileType, NEW b \in Seq(Events), b # <<>>, WriteCut(b)
  PROVE  \E f : /\ FromBatch(f, b) /\ lines' = Written(f)
                /\ unterminated' \in BOOLEAN /\ (f = <<>> => unterminated' = unterminated)
<1>1. PICK cut \in Cuts(b) :
        /\ lines' = Written(cut.fragments)
        /\ unterminated' = IF cut.fragments = <<>> THEN unterminated ELSE cut.open
  BY Zenon DEF WriteCut
<1>2. Len(b) \in Nat \ {0} /\ \A k \in 1..Len(b) : b[k] \in Events
  BY Elements, Empty
<1>3. PICK k \in 0..(Len(b) - 1) :
        \/ cut = [fragments |-> SubSeq(b, 1, k), open |-> FALSE]
        \/ cut = [fragments |-> SubSeq(b, 1, k) \o <<Torn>>, open |-> TRUE]
        \/ cut = [fragments |-> SubSeq(b, 1, k + 1), open |-> TRUE]
  BY <1>1, Zenon DEF Cuts
<1>4. ASSUME NEW n \in 0..Len(b) PROVE FromBatch(SubSeq(b, 1, n), b) /\ Len(SubSeq(b, 1, n)) = n
  <2>1. /\ SubSeq(b, 1, n) \in Seq(Events) /\ Len(SubSeq(b, 1, n)) = n
        /\ \A i \in 1..n : SubSeq(b, 1, n)[i] = b[i]
    BY Prefix, Zenon
  <2>2. SubSeq(b, 1, n) \in Seq(Fragments)
    BY <2>1, Wider, Zenon DEF Fragments
  <2> QED
    BY <1>2, <2>1, <2>2 DEF FromBatch
<1>5. k \in 0..Len(b) /\ k + 1 \in 0..Len(b)
  BY <1>2
<1>6. FromBatch(SubSeq(b, 1, k) \o <<Torn>>, b)
  <2> DEFINE s == SubSeq(b, 1, k)
  <2>1. s \in Seq(Fragments) /\ Len(s) = k /\ \A i \in 1..k : s[i] # Torn => i \in 1..Len(b) /\ s[i] = b[i]
    BY <1>4, <1>5, Zenon DEF FromBatch
  <2>2. <<Torn>> \in Seq(Fragments) /\ Len(<<Torn>>) = 1 /\ <<Torn>>[1] = Torn
    BY DEF Fragments
  <2> HIDE DEF s
  <2>3. /\ s \o <<Torn>> \in Seq(Fragments) /\ Len(s \o <<Torn>>) = k + 1
        /\ \A i \in 1..k : (s \o <<Torn>>)[i] = s[i]
        /\ (s \o <<Torn>>)[k + 1] = Torn
    <3>1. s \in Seq(Fragments) /\ <<Torn>> \in Seq(Fragments)
      BY <2>1, <2>2, Zenon
    <3>2. /\ s \o <<Torn>> \in Seq(Fragments) /\ Len(s \o <<Torn>>) = Len(s) + Len(<<Torn>>)
          /\ \A i \in 1..Len(s) : (s \o <<Torn>>)[i] = s[i]
          /\ \A i \in 1..Len(<<Torn>>) : (s \o <<Torn>>)[Len(s) + i] = <<Torn>>[i]
      BY <3>1, Joined
    <3>3. 1 \in 1..Len(<<Torn>>)
      BY <2>2
    <3>4. (s \o <<Torn>>)[Len(s) + 1] = Torn
      BY <2>2, <3>2, <3>3, Zenon
    <3> QED
      BY <2>1, <2>2, <3>2, <3>4, Zenon
  <2>4. \A i \in 1..(k + 1) : i \in 1..k \/ i = k + 1
    OBVIOUS
  <2> QED
    BY <2>1, <2>3, <2>4, Zenon DEF FromBatch, s
<1>7. FromBatch(cut.fragments, b) /\ cut.open \in BOOLEAN
  <2>1. FromBatch(SubSeq(b, 1, k), b) /\ FromBatch(SubSeq(b, 1, k + 1), b)
    BY <1>4, <1>5, Zenon
  <2>2. CASE cut = [fragments |-> SubSeq(b, 1, k), open |-> FALSE]
    BY <2>1, <2>2, Zenon
  <2>3. CASE cut = [fragments |-> SubSeq(b, 1, k) \o <<Torn>>, open |-> TRUE]
    BY <1>6, <2>3, Zenon
  <2>4. CASE cut = [fragments |-> SubSeq(b, 1, k + 1), open |-> TRUE]
    BY <2>1, <2>4, Zenon
  <2> QED
    BY <1>3, <2>2, <2>3, <2>4, Zenon
<1> QED
  BY <1>1, <1>7, Zenon DEF FileType

\* A batch that is written as it is.
LEMMA BatchFromBatch ==
  ASSUME NEW b \in Seq(Events)
  PROVE  FromBatch(b, b)
<1>1. b \in Seq(Fragments)
  BY Wider, Zenon DEF Fragments
<1> QED
  BY <1>1, Zenon DEF FromBatch
-----------------------------------------------------------------------------
(* Types *)

\* The first opening finds no file: nothing is loaded.
LEMMA OpensEmpty ==
  ASSUME Flags, FileType, Open
  PROVE  queue' = <<>> /\ committed_events' = <<>> /\ next_offset' = 0
<1>1. PICK events \in LoadedEvents : committed_events' = events /\ next_offset' = FirstFreeOffset(events)
  BY Zenon DEF Open
<1>2. events = <<>>
  BY Loading, Zenon DEF Flags, Open
<1> QED
  BY <1>1, <1>2, Zenon DEF Open, FirstFreeOffset

\* The locals of a thread that has not started are locals.
LEMMA NoLocalsType == NoLocals \in Locals
  BY Empty, Zenon DEF NoLocals, Locals

\* A step that moves one thread on and sets its locals keeps pc and local typed.
LEMMA ThreadTypes ==
  ASSUME Types, NEW t \in Threads, NEW label \in Labels, Goto(t, label)
  PROVE  pc' \in [Threads -> Labels]
  BY Zenon DEF Types, Goto

\* Every action keeps the types.
LEMMA TypesNext ==
  ASSUME Types, FileType, Next
  PROVE  Types'
<1> USE DEF queueVars, commitVars, fileVars, toldVars, boundVars, openVars
<1>0. \A c \in Clients : c \in Threads
  BY Zenon DEF Threads
<1>00. Flusher \in Threads
  BY Zenon DEF Threads
<1>1. CASE Open
  <2>1. pc' \in [Threads -> Labels]
    BY <1>1, Zenon DEF Open, Labels
  <2>2. local' \in [Threads -> Locals]
    BY <1>1, NoLocalsType, Zenon DEF Open
  <2>0. PICK events \in LoadedEvents :
          /\ next_offset' = FirstFreeOffset(events) /\ committed_events' = events
          /\ accepted' = Len(events) /\ committed' = Len(events) /\ acked' = PayloadsOf(events)
    BY <1>1, Zenon DEF Open
  <2>3. events \in Seq(Events) /\ Len(events) \in Nat
    BY Loading, Elements, Zenon
  <2>4. queue' \in Seq(Events) /\ committed_events' \in Seq(Events)
    BY <1>1, <2>0, <2>3, Empty, Zenon DEF Open
  <2>5. next_offset' \in Nat /\ accepted' \in Nat /\ committed' \in Nat
    BY <2>0, <2>3, Loading, Zenon
  <2>6. payloads' = payloads /\ restarts' = restarts /\ failures' = failures
    BY <1>1, Zenon DEF Open
  <2>7. acked' \subseteq Nat
    <3>1. SeqRange(events) \subseteq Events
      BY <2>3, Elements DEF SeqRange
    <3>2. \A e \in Events : e.payload \in Nat
      BY Zenon DEF Events
    <3> QED
      BY <2>0, <3>1, <3>2, Zenon DEF PayloadsOf
  <2> QED
    BY <2>1, <2>2, <2>4, <2>5, <2>6, <2>7, Zenon DEF Types
<1>2. ASSUME NEW c \in Clients, AppendCheck(c) PROVE Types'
  BY <1>2, <1>0, ThreadTypes, Zenon DEF Types, AppendCheck, Labels
<1>3. ASSUME NEW c \in Clients, Flush(c) PROVE Types'
  <2>1. local[c] \in Locals
    BY <1>0, Zenon DEF Types
  <2>2. local' \in [Threads -> Locals]
    BY <1>3, <1>0, <2>1, ZenonT(60) DEF Types, Flush, Locals
  <2>3. pc' \in [Threads -> Labels]
    BY <1>3, <1>0, ThreadTypes, Zenon DEF Flush, Labels
  <2> QED
    BY <1>3, <2>2, <2>3, Zenon DEF Types, Flush
<1>4. ASSUME NEW c \in Clients, Close(c) PROVE Types'
  <2>1. local[c] \in Locals
    BY <1>0, Zenon DEF Types
  <2>2. local' \in [Threads -> Locals]
    <3>1. CASE start_flusher_thread
      BY <1>4, <3>1, Zenon DEF Types, Close
    <3>2. CASE ~start_flusher_thread
      <4>1. local' = [local EXCEPT ![c].closing = TRUE, ![c].last_try = FALSE]
        BY <1>4, <3>2, Zenon DEF Close
      <4> QED
        BY <4>1, <1>0, <2>1, ZenonT(60) DEF Types, Locals
    <3> QED
      BY <3>1, <3>2, Zenon
  <2>3. pc' \in [Threads -> Labels]
    BY <1>4, <1>0, ThreadTypes, Zenon DEF Close, Labels
  <2> QED
    BY <1>4, <2>2, <2>3, Zenon DEF Types, Close
<1>5. ASSUME NEW c \in Clients, AppendPush(c) PROVE Types'
  <2>1. [offset |-> next_offset, payload |-> payloads] \in Events
    BY Zenon DEF Types, Events
  <2>2. queue' \in Seq(Events)
    BY <1>5, <2>1, Appended, Zenon DEF Types, AppendPush
  <2> QED
    BY <1>5, <2>2, <1>0, ThreadTypes DEF Types, AppendPush, Labels
<1>6. ASSUME NEW c \in Clients, LoadAccepted(c) PROVE Types'
  BY <1>6, <1>0, ThreadTypes, ZenonT(60) DEF Types, LoadAccepted, Labels, Locals
<1>7. ASSUME NEW c \in Clients, LoadCommitted(c) PROVE Types'
  BY <1>7, <1>0, ThreadTypes, ZenonT(60) DEF Types, LoadCommitted, Labels, Locals
<1>8. ASSUME NEW c \in Clients, LoadQueued(c) PROVE Types'
  BY <1>8, <1>0, ThreadTypes, Zenon DEF Types, LoadQueued, ReturnFlush, Labels
<1>9. ASSUME NEW c \in Clients, Wake(c) PROVE Types'
  <2>1. local[c] \in Locals
    BY <1>0, Zenon DEF Types
  <2>2. local' \in [Threads -> Locals]
    <3>1. Timeouts \in BOOLEAN
      BY ConfigAssumption, Zenon
    <3>2. PICK timeout \in BOOLEAN : local' = [local EXCEPT ![c].last_try = timeout]
      BY <1>9, <3>1, Zenon DEF Wake
    <3> QED
      BY <3>2, <1>0, <2>1, ZenonT(60) DEF Types, Locals
  <2>3. pc' \in [Threads -> Labels]
    BY <1>9, <1>0, ThreadTypes, Zenon DEF Wake, Labels
  <2> QED
    BY <1>9, <2>2, <2>3, Zenon DEF Types, Wake
<1>10. ASSUME NEW c \in Clients, Sync(c) \/ GiveUp(c) PROVE Types'
  BY <1>10, <1>0, ThreadTypes, ZenonT(60) DEF Types, Sync, GiveUp, ReturnFlush, Labels
<1>11. ASSUME NEW t \in Threads, DrainBatch(t) PROVE Types'
  <2>1. queue' \in Seq(Events) /\ NextBatch \in Seq(Events)
    BY <1>11, BatchAndRest, Zenon DEF DrainBatch
  <2> QED
    BY <1>11, <2>1, ThreadTypes, ZenonT(60) DEF Types, DrainBatch, Labels, Locals
<1>12. ASSUME NEW c \in Clients, SleepHere(c) PROVE Types'
  BY <1>12, <1>0, ThreadTypes, Zenon DEF Types, SleepHere, Labels
<1>13. ASSUME NEW t \in Threads, WriteLines(t) \/ WriteFails(t) PROVE Types'
  <2>1. pc' \in [Threads -> Labels]
    BY <1>13, ThreadTypes, Zenon DEF WriteLines, WriteFails, Labels
  <2>2. failures' \in Nat
    <3>1. failures' = failures \/ failures' = failures + 1
      BY <1>13, Zenon DEF WriteLines, WriteFails
    <3> QED
      BY <3>1 DEF Types
  <2> QED
    BY <1>13, <2>1, <2>2, ZenonT(60) DEF Types, WriteLines, WriteFails
<1>14. ASSUME NEW t \in Threads, CommitEvents(t) PROVE Types'
  <2>1. committed_events' \in Seq(Events)
    BY <1>14, Joined, Zenon DEF Types, CommitEvents, Locals
  <2> QED
    BY <1>14, <2>1, ThreadTypes, Zenon DEF Types, CommitEvents, Labels
<1>15. ASSUME NEW t \in Threads, CountCommitted(t) PROVE Types'
  <2>1. committed' \in Nat
    BY <1>15, Elements, SMTT(60) DEF Types, CountCommitted, Locals
  <2> QED
    BY <1>15, <2>1, ThreadTypes, Empty, ZenonT(60) DEF Types, CountCommitted, Labels, Locals
<1>16. ASSUME NEW c \in Clients, Join(c) PROVE Types'
  BY <1>16, <1>0, ThreadTypes, Zenon DEF Types, Join, Labels
<1>17. ASSUME NEW c \in Clients, Shut(c) PROVE Types'
  BY <1>17, <1>0, ThreadTypes, ZenonT(60) DEF Types, Shut, Labels, Locals
<1>18. CASE FlusherExit
  BY <1>18, <1>00, ThreadTypes, Zenon DEF Types, FlusherExit, Labels
<1>19. CASE ReplayPage
  BY <1>19, Zenon DEF Types, ReplayPage
<1>20. CASE Down
  BY <1>20 DEF Types, Down
<1>21. CASE FlusherStep
  BY <1>21, <1>00, <1>11, <1>13, <1>14, <1>15, <1>18, Zenon DEF FlusherStep, FlusherDrain
<1>22. ASSUME NEW c \in Clients, ClientStep(c) PROVE Types'
  BY <1>22, <1>0, <1>5, <1>6, <1>7, <1>8, <1>9, <1>10, <1>11, <1>12, <1>13, <1>14, <1>15,
     <1>16, <1>17, SMTT(60) DEF ClientStep, DrainHere
<1> QED
  BY <1>1, <1>2, <1>3, <1>4, <1>19, <1>20, <1>21, <1>22, Zenon DEF Next, Exit, Crash
-----------------------------------------------------------------------------
(* Offsets in the file, in the queue and in batches *)

\* Before the storage is opened there is no file.
LEMMA FileStart == Init => FileInv
<1> SUFFICES ASSUME Init PROVE FileInv
  BY Zenon
<1>1. FileType
  BY Empty, ZenonT(60) DEF Init, FileType
<1>2. Parsed = {} /\ ~up
  BY Empty DEF Init, Parsed
<1> QED
  BY <1>1, <1>2, Zenon DEF FileInv, DistinctOffsets

\* A step that leaves the file, the queue and the batches to be written alone.
LEMMA FileFrame ==
  ASSUME FileInv, UNCHANGED <<lines, unterminated, queue, next_offset>>, up' => up,
         \A t \in Threads : pc'[t] = "write" => pc[t] = "write" /\ local'[t].batch = local[t].batch
  PROVE  FileInv'
<1>1. Parsed' = Parsed /\ \A i : OffsetAt(i)' = OffsetAt(i)
  BY Zenon DEF Parsed, OffsetAt
<1>2. FileType' /\ DistinctOffsets'
  BY <1>1, Zenon DEF FileInv, FileType, DistinctOffsets
<1>3. FirstQueued' = FirstQueued
  BY Zenon DEF FirstQueued
<1>4. ASSUME up' PROVE QueueOffsets'
  <2>1. QueueOffsets
    BY <1>4, Zenon DEF FileInv
  <2> QED
    BY <1>1, <1>3, <2>1, Zenon DEF QueueOffsets
<1>5. ASSUME up', NEW t \in Threads PROVE BatchOffsets(t)'
  <2>1. SUFFICES ASSUME pc'[t] = "write" PROVE BatchOffsets(t)'
    BY Zenon DEF BatchOffsets
  <2>2. BatchOffsets(t) /\ pc[t] = "write" /\ Batch(t)' = Batch(t)
    BY <1>5, <2>1, Zenon DEF FileInv, Batch
  <2>3. \A u \in Threads : pc'[u] = "write" => pc[u] = "write" /\ Batch(u)' = Batch(u)
    BY Zenon DEF Batch
  <2>4. Batch(t) # <<>> /\ InOrder(Batch(t))
    BY <2>2, Zenon DEF BatchOffsets
  <2>5. ASSUME NEW k \in DOMAIN Batch(t)
        PROVE  Batch(t)[k].offset < FirstQueued /\ \A i \in Parsed : OffsetAt(i) # Batch(t)[k].offset
    BY <2>2, Zenon DEF BatchOffsets
  <2>6. ASSUME NEW u \in Threads, u # t, pc'[u] = "write",
               NEW k \in DOMAIN Batch(t), NEW l \in DOMAIN Batch(u)'
        PROVE  Batch(t)[k].offset # Batch(u)'[l].offset
    BY <2>2, <2>3, <2>6, ZenonT(60) DEF BatchOffsets
  <2> QED
    BY <1>1, <1>3, <2>2, <2>4, <2>5, <2>6, ZenonT(120) DEF BatchOffsets
<1> QED
  BY <1>2, <1>4, <1>5, Zenon DEF FileInv

\* Opening the storage: the first free offset is above all that are in the file.
LEMMA FileOpen ==
  ASSUME FileInv, Open
  PROVE  FileInv'
<1> USE DEF queueVars, commitVars, fileVars, toldVars, boundVars, openVars
<1>0. FileType
  BY Zenon DEF FileInv
<1>1. UNCHANGED <<lines, unterminated>> /\ queue' = <<>>
  BY Zenon DEF Open
<1>9. PICK events \in LoadedEvents : next_offset' = FirstFreeOffset(events)
  BY Zenon DEF Open
<1>2. Parsed' = Parsed /\ \A i : OffsetAt(i)' = OffsetAt(i)
  BY <1>1, Zenon DEF Parsed, OffsetAt
<1>3. FileType' /\ DistinctOffsets'
  BY <1>1, <1>2, Zenon DEF FileInv, FileType, DistinctOffsets
<1>4. /\ FirstFreeOffset(events) \in Nat
      /\ \A i \in Parsed : OffsetAt(i) < FirstFreeOffset(events)
  BY <1>0, Loading, Zenon
<1>5. FirstQueued' = FirstFreeOffset(events)
  BY <1>1, <1>4, <1>9, Empty DEF FirstQueued
<1>6. QueueOffsets'
  BY <1>1, <1>2, <1>4, <1>5, Empty DEF QueueOffsets
<1>7. ASSUME NEW t \in Threads PROVE BatchOffsets(t)'
  <2>1. pc'[t] # "write"
    BY Zenon DEF Open
  <2> QED
    BY <2>1, Zenon DEF BatchOffsets
<1> QED
  BY <1>3, <1>6, <1>7, Zenon DEF FileInv

\* append puts the next offset at the end of the queue.
LEMMA FilePush ==
  ASSUME Types, FileInv, NEW c \in Clients, AppendPush(c)
  PROVE  FileInv'
<1> USE DEF queueVars, commitVars, fileVars, toldVars, boundVars, openVars
<1> DEFINE e == [offset |-> next_offset, payload |-> payloads]
           n == Len(queue)
<1>1. /\ UNCHANGED <<lines, unterminated, local, up>> /\ up
      /\ queue' = Append(queue, e) /\ next_offset' = next_offset + 1 /\ Goto(c, "idle")
  BY Zenon DEF AppendPush
<1>2. e \in Events /\ e.offset = next_offset /\ next_offset \in Nat /\ queue \in Seq(Events)
  BY Zenon DEF Types, Events
<1> HIDE DEF e
<1>3. /\ n \in Nat /\ DOMAIN queue = 1..n /\ Len(queue') = n + 1 /\ DOMAIN queue' = 1..(n + 1)
      /\ \A i \in 1..n : queue'[i] = queue[i]
      /\ queue'[n + 1] = e
  <2>1. n \in Nat /\ DOMAIN queue = 1..n
    BY <1>2, Elements, Zenon
  <2>2. /\ queue' \in Seq(Events) /\ Len(queue') = n + 1
        /\ \A i \in 1..n : queue'[i] = queue[i]
        /\ queue'[n + 1] = e
    BY <1>1, <1>2, Appended
  <2>3. DOMAIN queue' = 1..(n + 1)
    BY <2>2, Elements, Zenon
  <2> QED
    BY <2>1, <2>2, <2>3, Zenon
<1>4. FirstQueued' = FirstQueued /\ FirstQueued = next_offset - n
  BY <1>1, <1>2, <1>3 DEF FirstQueued
<1>5. Parsed' = Parsed /\ \A i : OffsetAt(i)' = OffsetAt(i)
  BY <1>1, Zenon DEF Parsed, OffsetAt
<1>6. QueueOffsets
  BY <1>1, Zenon DEF FileInv
<1>7. QueueOffsets'
  <2>1. ASSUME NEW i \in 1..(n + 1) PROVE queue'[i].offset = FirstQueued + i - 1
    <3>1. CASE i \in 1..n
      BY <1>3, <1>6, <3>1, Zenon DEF QueueOffsets
    <3>2. CASE i = n + 1
      <4>1. queue'[i].offset = next_offset
        BY <1>2, <1>3, <3>2, Zenon
      <4> QED
        BY <1>2, <1>3, <1>4, <3>2, <4>1
    <3> QED
      BY <1>3, <3>1, <3>2
  <2> QED
    BY <1>3, <1>4, <1>5, <1>6, <2>1, Zenon DEF QueueOffsets
<1>8. \A t \in Threads : pc'[t] = "write" => pc[t] = "write" /\ Batch(t)' = Batch(t)
  BY <1>1, Zenon DEF Goto, Types, Batch
<1>9. ASSUME NEW t \in Threads PROVE BatchOffsets(t)'
  <2>1. SUFFICES ASSUME pc'[t] = "write" PROVE BatchOffsets(t)'
    BY Zenon DEF BatchOffsets
  <2>2. BatchOffsets(t) /\ pc[t] = "write" /\ Batch(t)' = Batch(t)
    BY <1>1, <1>8, <2>1, Zenon DEF FileInv
  <2>4. Batch(t) # <<>> /\ InOrder(Batch(t))
    BY <2>2, Zenon DEF BatchOffsets
  <2>5. ASSUME NEW k \in DOMAIN Batch(t)
        PROVE  Batch(t)[k].offset < FirstQueued /\ \A i \in Parsed : OffsetAt(i) # Batch(t)[k].offset
    BY <2>2, Zenon DEF BatchOffsets
  <2>6. ASSUME NEW u \in Threads, u # t, pc'[u] = "write",
               NEW k \in DOMAIN Batch(t), NEW l \in DOMAIN Batch(u)'
        PROVE  Batch(t)[k].offset # Batch(u)'[l].offset
    BY <1>8, <2>2, <2>6, Zenon DEF BatchOffsets
  <2> QED
    BY <1>4, <1>5, <2>2, <2>4, <2>5, <2>6, ZenonT(30) DEF BatchOffsets
<1>10. FileType' /\ DistinctOffsets'
  BY <1>1, <1>5, Zenon DEF FileInv, FileType, DistinctOffsets
<1> QED
  BY <1>7, <1>9, <1>10, Zenon DEF FileInv

\* Draining takes the oldest offsets from the queue.
LEMMA FileDrain ==
  ASSUME Types, FileInv, up, NEW t \in Threads, pc[t] # "write", DrainBatch(t), UNCHANGED up
  PROVE  FileInv'
<1> USE DEF queueVars, commitVars, fileVars, toldVars, boundVars, openVars
<1> DEFINE L == Len(queue)
           n == Least(BatchSize, Len(queue))
           q == queue
           first == FirstQueued
<1>1. /\ UNCHANGED <<lines, unterminated, next_offset>> /\ queue # <<>> /\ Goto(t, "write")
      /\ local' = [local EXCEPT ![t].batch = SubSeq(queue, 1, n)]
      /\ queue' = SubSeq(queue, n + 1, L)
  BY Zenon DEF DrainBatch, NextBatch
<1>2. queue \in Seq(Events) /\ L \in Nat \ {0} /\ next_offset \in Nat /\ DOMAIN queue = 1..L
  BY <1>1, Empty, Elements DEF Types
<1>3. n \in 1..L
  BY <1>2, ConfigAssumption DEF Least
<1>4. /\ SubSeq(queue, 1, n) \in Seq(Events) /\ Len(SubSeq(queue, 1, n)) = n
      /\ \A i \in 1..n : SubSeq(queue, 1, n)[i] = queue[i]
  <2>1. n \in 0..L
    BY <1>2, <1>3
  <2> QED
    BY <1>2, <2>1, Prefix, Zenon
<1>5. /\ queue' \in Seq(Events) /\ Len(queue') = L - n
      /\ \A i \in 1..(L - n) : queue'[i] = queue[n + i]
  <2>1. n \in 0..L
    BY <1>2, <1>3
  <2> QED
    BY <1>1, <1>2, <2>1, Suffix, Zenon
<1> HIDE DEF n, L
<1>6. DOMAIN queue' = 1..(L - n) /\ DOMAIN SubSeq(queue, 1, n) = 1..n
  BY <1>4, <1>5, Elements, Zenon
<1>7. QueueOffsets
  BY Zenon DEF FileInv
<1>8. first \in Nat /\ first = next_offset - L /\ FirstQueued' = first + n
  BY <1>1, <1>2, <1>3, <1>5, <1>7, SMTT(30) DEF FirstQueued, QueueOffsets, L
<1>9. \A i \in 1..L : queue[i].offset = first + i - 1
  BY <1>2, <1>7, Zenon DEF QueueOffsets
<1>10. \A i \in Parsed : OffsetAt(i) < first
  BY <1>7, Zenon DEF QueueOffsets
<1>11. Parsed' = Parsed /\ \A i : OffsetAt(i)' = OffsetAt(i)
  BY <1>1, Zenon DEF Parsed, OffsetAt
<1>12. \A i \in Parsed : OffsetAt(i) \in Nat
  BY ParsedLines, Zenon DEF FileInv, OffsetAt, Events
<1> HIDE DEF first
<1>13. QueueOffsets'
  <2>1. ASSUME NEW i \in 1..(L - n) PROVE queue'[i].offset = (first + n) + i - 1
    <3>1. n + i \in 1..L /\ first + (n + i) - 1 = (first + n) + i - 1
      BY <1>2, <1>3, <1>8
    <3> QED
      BY <1>5, <1>9, <3>1, Zenon
  <2>2. \A i \in Parsed : OffsetAt(i) < first + n
    BY <1>2, <1>3, <1>8, <1>10, <1>12
  <2>3. first + n \in Nat
    BY <1>2, <1>3, <1>8
  <2> QED
    BY <1>6, <1>8, <1>11, <2>1, <2>2, <2>3, Zenon DEF QueueOffsets
<1> DEFINE b == SubSeq(queue, 1, n)
<1>14. \A k \in 1..n : b[k].offset = first + k - 1
  BY <1>2, <1>3, <1>4, <1>9
<1>15. Batch(t)' = b /\ DOMAIN b = 1..n
  BY <1>1, <1>6, ZenonT(30) DEF Types, Batch, Locals
<1>16. ASSUME NEW u \in Threads, u # t
       PROVE  pc'[u] = pc[u] /\ Batch(u)' = Batch(u)
  BY <1>1, <1>16, Zenon DEF Types, Goto, Batch
<1>17. ASSUME NEW u \in Threads, pc[u] = "write"
       PROVE  /\ Batch(u) # <<>> /\ InOrder(Batch(u))
              /\ \A k \in DOMAIN Batch(u) :
                   Batch(u)[k].offset < first /\ \A i \in Parsed : OffsetAt(i) # Batch(u)[k].offset
              /\ \A v \in Threads : v # u /\ pc[v] = "write" =>
                   \A k \in DOMAIN Batch(u), l \in DOMAIN Batch(v) : Batch(u)[k].offset # Batch(v)[l].offset
              /\ \A k \in DOMAIN Batch(u) : Batch(u)[k].offset \in Nat
  <2>1. BatchOffsets(u)
    BY Zenon DEF FileInv
  <2>2. Batch(u) \in Seq(Events)
    BY Zenon DEF Types, Locals, Batch
  <2>3. \A k \in DOMAIN Batch(u) : Batch(u)[k] \in Events
    BY <2>2, Elements, Zenon
  <2>4. \A e \in Events : e.offset \in Nat
    BY Zenon DEF Events
  <2> QED
    BY <1>17, <2>1, <2>3, <2>4, Zenon DEF BatchOffsets, first
<1>18. ASSUME NEW u \in Threads, u # t, pc[u] = "write", NEW k \in 1..n, NEW l \in DOMAIN Batch(u)
       PROVE  b[k].offset # Batch(u)[l].offset
  <2>1. Batch(u)[l].offset < first /\ Batch(u)[l].offset \in Nat
    BY <1>17, <1>18, Zenon
  <2>2. \A x \in Nat : x < first => x # first + k - 1
    BY <1>8
  <2>3. b[k].offset = first + k - 1
    BY <1>14, Zenon
  <2> QED
    BY <2>1, <2>2, <2>3, Zenon
<1> HIDE DEF b
<1>19. BatchOffsets(t)'
  <2>1. b # <<>>
    BY <1>3, <1>2, <1>15, Empty
  <2>2. InOrder(b)
    BY <1>2, <1>3, <1>8, <1>14, <1>15 DEF InOrder
  <2>3. ASSUME NEW k \in 1..n
        PROVE  b[k].offset < first + n /\ \A i \in Parsed : OffsetAt(i) # b[k].offset
    BY <1>2, <1>3, <1>8, <1>10, <1>12, <1>14
  <2>4. ASSUME NEW u \in Threads, u # t, pc'[u] = "write", NEW k \in 1..n, NEW l \in DOMAIN Batch(u)'
        PROVE  b[k].offset # Batch(u)'[l].offset
    BY <1>16, <1>18, <2>4, Zenon
  <2> QED
    BY <1>8, <1>11, <1>15, <2>1, <2>2, <2>3, <2>4, Zenon DEF BatchOffsets
<1>20. ASSUME NEW u \in Threads, u # t PROVE BatchOffsets(u)'
  <2>1. SUFFICES ASSUME pc'[u] = "write" PROVE BatchOffsets(u)'
    BY Zenon DEF BatchOffsets
  <2>2. pc[u] = "write" /\ Batch(u)' = Batch(u)
    BY <1>16, <1>20, <2>1, Zenon
  <2>3. Batch(u) # <<>> /\ InOrder(Batch(u))
    BY <1>17, <2>2, Zenon
  <2>4. ASSUME NEW k \in DOMAIN Batch(u)
        PROVE  Batch(u)[k].offset < first + n /\ \A i \in Parsed : OffsetAt(i) # Batch(u)[k].offset
    <3>1. /\ Batch(u)[k].offset < first /\ Batch(u)[k].offset \in Nat
          /\ \A i \in Parsed : OffsetAt(i) # Batch(u)[k].offset
      BY <1>17, <2>2, Zenon
    <3> QED
      BY <1>2, <1>3, <1>8, <3>1
  <2>5. ASSUME NEW v \in Threads, v # u, pc'[v] = "write",
               NEW k \in DOMAIN Batch(u), NEW l \in DOMAIN Batch(v)'
        PROVE  Batch(u)[k].offset # Batch(v)'[l].offset
    <3>1. CASE v = t
      BY <1>15, <1>18, <1>20, <2>2, <2>5, <3>1, Zenon
    <3>2. CASE v # t
      BY <1>16, <1>17, <2>2, <2>5, <3>2
    <3> QED
      BY <3>1, <3>2, Zenon
  <2> QED
    BY <1>8, <1>11, <2>2, <2>3, <2>4, <2>5, ZenonT(30) DEF BatchOffsets
<1>21. FileType' /\ DistinctOffsets'
  BY <1>1, <1>11, Zenon DEF FileInv, FileType, DistinctOffsets
<1> QED
  BY <1>13, <1>19, <1>20, <1>21, Zenon DEF FileInv

\* What a thread writes from its batch has offsets that neither the file nor another
\* batch has.
LEMMA FileWritten ==
  ASSUME Types, FileInv, up, NEW t \in Threads, pc[t] = "write",
         NEW f, FromBatch(f, Batch(t)), lines' = Written(f),
         unterminated' \in BOOLEAN, f = <<>> => unterminated' = unterminated
  PROVE  /\ FileType' /\ DistinctOffsets'
         /\ \A i \in Parsed' : OffsetAt(i)' < FirstQueued
         /\ \A u \in Threads : u # t /\ pc[u] = "write" =>
              \A k \in DOMAIN Batch(u), i \in Parsed' : OffsetAt(i)' # Batch(u)[k].offset
<1> DEFINE b == Batch(t)
<1>1. b \in Seq(Events) /\ DOMAIN b = 1..Len(b) /\ Len(b) \in Nat
  <2>1. b \in Seq(Events)
    BY Zenon DEF Types, Locals, Batch
  <2> QED
    BY <2>1, Elements, Zenon
<1>2. FileType /\ DistinctOffsets /\ QueueOffsets /\ BatchOffsets(t)
  BY Zenon DEF FileInv
<1>3. /\ FileType'
      /\ \A i \in Parsed' :
           \/ i \in Parsed /\ lines'[i] = lines[i]
           \/ \E k \in 1..Len(b) : i = Kept + k /\ lines'[i] = <<b[k]>>
  BY <1>1, <1>2, FileStep, Zenon
<1>4. ASSUME NEW i \in Parsed'
      PROVE  \/ i \in Parsed /\ OffsetAt(i)' = OffsetAt(i)
             \/ \E k \in DOMAIN b : i = Kept + k /\ OffsetAt(i)' = b[k].offset
  BY <1>1, <1>3 DEF OffsetAt
<1>5. /\ InOrder(b)
      /\ \A k \in DOMAIN b :
           /\ b[k].offset < FirstQueued
           /\ \A i \in Parsed : OffsetAt(i) # b[k].offset
      /\ \A u \in Threads : u # t /\ pc[u] = "write" =>
           \A k \in DOMAIN b, l \in DOMAIN Batch(u) : b[k].offset # Batch(u)[l].offset
  BY <1>2, Zenon DEF BatchOffsets
<1>6. \A k \in DOMAIN b : b[k].offset \in Nat
  <2>1. \A k \in DOMAIN b : b[k] \in Events
    BY <1>1, Elements, Zenon
  <2> QED
    BY <2>1, Zenon DEF Events
<1>7. Kept \in Nat
  BY <1>2, Elements, Empty, SMTT(30) DEF Kept, FileType
<1> HIDE DEF b
<1>8. DistinctOffsets'
  <2> SUFFICES ASSUME NEW i \in Parsed', NEW j \in Parsed', i # j PROVE OffsetAt(i)' # OffsetAt(j)'
    BY Zenon DEF DistinctOffsets
  <2>1. CASE i \in Parsed /\ j \in Parsed /\ OffsetAt(i)' = OffsetAt(i) /\ OffsetAt(j)' = OffsetAt(j)
    BY <1>2, <2>1, Zenon DEF DistinctOffsets
  <2>2. ASSUME NEW k \in DOMAIN b, NEW l \in DOMAIN b, i = Kept + k, j = Kept + l,
               OffsetAt(i)' = b[k].offset, OffsetAt(j)' = b[l].offset
        PROVE  OffsetAt(i)' # OffsetAt(j)'
    <3>1. k # l /\ k \in Nat /\ l \in Nat
      BY <1>1, <2>2
    <3>2. k < l \/ l < k
      BY <3>1, SMTT(30)
    <3>3. b[k].offset < b[l].offset \/ b[l].offset < b[k].offset
      BY <1>5, <3>2, Zenon DEF InOrder
    <3> QED
      BY <1>6, <2>2, <3>3
  <2> QED
    BY <1>4, <1>5, <2>1, <2>2
<1>9. ASSUME NEW i \in Parsed' PROVE OffsetAt(i)' < FirstQueued
  BY <1>2, <1>4, <1>5, Zenon DEF QueueOffsets
<1>10. ASSUME NEW u \in Threads, u # t, pc[u] = "write", NEW k \in DOMAIN Batch(u), NEW i \in Parsed'
       PROVE  OffsetAt(i)' # Batch(u)[k].offset
  <2>1. BatchOffsets(u)
    BY Zenon DEF FileInv
  <2>2. \A j \in Parsed : OffsetAt(j) # Batch(u)[k].offset
    BY <1>10, <2>1, ZenonT(30) DEF BatchOffsets
  <2> QED
    BY <1>4, <1>5, <1>10, <2>2, Zenon
<1> QED
  BY <1>3, <1>8, <1>9, <1>10, Zenon

\* Writing a batch, whole or cut short: the file grows from the thread's batch.
LEMMA WriteSteps ==
  ASSUME Types, FileInv, NEW t \in Threads, WriteLines(t) \/ WriteFails(t)
  PROVE  /\ FileInv'
         /\ \E f : /\ FromBatch(f, Batch(t)) /\ lines' = Written(f)
                   /\ unterminated' \in BOOLEAN /\ (f = <<>> => unterminated' = unterminated)
                   /\ WriteLines(t) => f = IF good /\ is_open THEN Batch(t) ELSE <<>>
<1> USE DEF queueVars, commitVars, fileVars, toldVars, boundVars, openVars
<1>1. /\ up /\ pc[t] = "write" /\ Goto(t, "commit")
      /\ UNCHANGED <<queue, next_offset, local, up>>
  BY Zenon DEF WriteLines, WriteFails
<1>2. Batch(t) \in Seq(Events) /\ Batch(t) # <<>> /\ FileType
  <2>1. BatchOffsets(t)
    BY <1>1, Zenon DEF FileInv
  <2>2. Batch(t) # <<>>
    BY <1>1, <2>1, Zenon DEF BatchOffsets
  <2> QED
    BY <2>2, Zenon DEF Types, Locals, Batch, FileInv
<1>3. ASSUME WriteFails(t)
      PROVE  \E f : /\ FromBatch(f, Batch(t)) /\ lines' = Written(f)
                    /\ unterminated' \in BOOLEAN /\ (f = <<>> => unterminated' = unterminated)
  <2>1. WriteCut(Batch(t))
    BY <1>3, Zenon DEF WriteFails, Batch
  <2> QED
    BY <1>2, <2>1, CutFromBatch, Zenon
<1>4. ASSUME WriteLines(t)
      PROVE  LET f == IF good /\ is_open THEN Batch(t) ELSE <<>>
             IN /\ FromBatch(f, Batch(t)) /\ lines' = Written(f)
                /\ unterminated' \in BOOLEAN /\ (f = <<>> => unterminated' = unterminated)
  <2>1. CASE good /\ is_open
    <3>1. lines' = Written(Batch(t)) /\ unterminated' = (unterminated /\ ~(good /\ is_open))
      BY <1>4, <2>1, Zenon DEF WriteLines, Batch
    <3>2. unterminated' = FALSE
      BY <2>1, <3>1, Zenon
    <3> QED
      BY <1>2, <2>1, <3>1, <3>2, BatchFromBatch, Zenon
  <2>2. CASE ~(good /\ is_open)
    <3>1. lines' = lines /\ unterminated' = (unterminated /\ ~(good /\ is_open))
      BY <1>4, <2>2, Zenon DEF WriteLines
    <3>2. unterminated' = unterminated
      BY <1>2, <2>2, <3>1, Zenon DEF FileType
    <3>3. Written(<<>>) = lines
      BY Zenon DEF Written
    <3>4. FromBatch(<<>>, Batch(t))
      BY Empty DEF FromBatch
    <3>5. unterminated' \in BOOLEAN
      BY <1>2, <3>2, Zenon DEF FileType
    <3> QED
      BY <2>2, <3>1, <3>2, <3>3, <3>4, <3>5, Zenon
  <2> QED
    BY <2>1, <2>2, Zenon
<1>6. PICK f : /\ FromBatch(f, Batch(t)) /\ lines' = Written(f)
               /\ unterminated' \in BOOLEAN /\ (f = <<>> => unterminated' = unterminated)
               /\ WriteLines(t) => f = IF good /\ is_open THEN Batch(t) ELSE <<>>
  <2>1. CASE WriteLines(t)
    BY <1>4, <2>1, Zenon
  <2>2. CASE ~WriteLines(t)
    <3>1. PICK f : /\ FromBatch(f, Batch(t)) /\ lines' = Written(f)
                   /\ unterminated' \in BOOLEAN /\ (f = <<>> => unterminated' = unterminated)
      BY <1>3, <2>2, ZenonT(30)
    <3> QED
      BY <2>2, <3>1, Zenon
  <2> QED
    BY <2>1, <2>2, Zenon
<1>7. /\ FileType' /\ DistinctOffsets'
      /\ \A i \in Parsed' : OffsetAt(i)' < FirstQueued
      /\ \A u \in Threads : u # t /\ pc[u] = "write" =>
           \A k \in DOMAIN Batch(u), i \in Parsed' : OffsetAt(i)' # Batch(u)[k].offset
  BY <1>1, <1>6, FileWritten, Zenon
<1>8. FirstQueued' = FirstQueued /\ \A u : Batch(u)' = Batch(u)
  BY <1>1, Zenon DEF FirstQueued, Batch
<1>9. QueueOffsets'
  <2>1. QueueOffsets
    BY <1>1, Zenon DEF FileInv
  <2> QED
    BY <1>1, <1>7, <1>8, <2>1, Zenon DEF QueueOffsets
<1>10. ASSUME NEW u \in Threads PROVE BatchOffsets(u)'
  <2>1. SUFFICES ASSUME pc'[u] = "write" PROVE BatchOffsets(u)'
    BY Zenon DEF BatchOffsets
  <2>2. \A v \in Threads : pc'[v] = "write" => v # t /\ pc[v] = "write"
    BY <1>1, Zenon DEF Types, Goto
  <2>3. BatchOffsets(u) /\ u # t /\ pc[u] = "write"
    BY <1>1, <2>1, <2>2, Zenon DEF FileInv
  <2>4. Batch(u) # <<>> /\ InOrder(Batch(u))
    BY <2>3, Zenon DEF BatchOffsets
  <2>5. ASSUME NEW k \in DOMAIN Batch(u)
        PROVE  Batch(u)[k].offset < FirstQueued /\ \A i \in Parsed' : OffsetAt(i)' # Batch(u)[k].offset
    BY <1>7, <2>3, <2>5, Zenon DEF BatchOffsets
  <2>6. ASSUME NEW v \in Threads, v # u, pc'[v] = "write",
               NEW k \in DOMAIN Batch(u), NEW l \in DOMAIN Batch(v)
        PROVE  Batch(u)[k].offset # Batch(v)[l].offset
    BY <2>2, <2>3, <2>6, Zenon DEF BatchOffsets
  <2> QED
    BY <1>8, <2>4, <2>5, <2>6, ZenonT(60) DEF BatchOffsets
<1> QED
  BY <1>6, <1>7, <1>9, <1>10, Zenon DEF FileInv

\* A crash may cut a write short, and ends all batches.
LEMMA FileCrash ==
  ASSUME Types, FileInv, Crash
  PROVE  FileInv' /\ \/ UNCHANGED <<lines, unterminated>>
                     \/ \E t \in Threads : \E f :
                          /\ pc[t] = "write" /\ FromBatch(f, Batch(t)) /\ lines' = Written(f)
                          /\ unterminated' \in BOOLEAN /\ (f = <<>> => unterminated' = unterminated)
<1> USE DEF queueVars, commitVars, fileVars, toldVars, boundVars, openVars
<1>1. up /\ up' = FALSE /\ UNCHANGED <<queue, next_offset, pc, local>>
  BY Zenon DEF Crash, Down
<1>2. CASE UNCHANGED <<lines, unterminated>>
  <2>1. FileInv'
    BY <1>1, <1>2, FileFrame, Zenon
  <2> QED
    BY <1>2, <2>1, Zenon
<1>3. ASSUME NEW t \in Threads, pc[t] = "write", WriteCut(local[t].batch)
      PROVE  FileInv' /\ \E f : /\ FromBatch(f, Batch(t)) /\ lines' = Written(f)
                                /\ unterminated' \in BOOLEAN
                                /\ f = <<>> => unterminated' = unterminated
  <2>1. Batch(t) \in Seq(Events) /\ Batch(t) # <<>> /\ FileType
    <3>1. BatchOffsets(t)
      BY <1>1, Zenon DEF FileInv
    <3>2. Batch(t) # <<>>
      BY <1>3, <3>1, Zenon DEF BatchOffsets
    <3> QED
      BY <3>2, Zenon DEF Types, Locals, Batch, FileInv
  <2>2. PICK f : /\ FromBatch(f, Batch(t)) /\ lines' = Written(f)
                 /\ unterminated' \in BOOLEAN /\ (f = <<>> => unterminated' = unterminated)
    <3>1. WriteCut(Batch(t))
      BY <1>3, ZenonT(30) DEF Batch
    <3> QED
      BY <2>1, <3>1, CutFromBatch, Zenon
  <2>3. FileType' /\ DistinctOffsets'
    BY <1>1, <1>3, <2>2, FileWritten, Zenon
  <2> QED
    BY <1>1, <2>2, <2>3, Zenon DEF FileInv
<1> QED
  BY <1>2, <1>3, Zenon DEF Crash

\* No step puts an offset into the file twice, or one that is still to be written.
LEMMA FileInvNext ==
  ASSUME Types, FileInv, [Next]_vars
  PROVE  FileInv'
<1> USE DEF queueVars, commitVars, fileVars, toldVars, boundVars, openVars
<1> DEFINE Frame == /\ UNCHANGED <<lines, unterminated, queue, next_offset>> /\ (up' => up)
                    /\ \A t \in Threads : pc'[t] = "write" =>
                         pc[t] = "write" /\ local'[t].batch = local[t].batch
           Same == UNCHANGED <<lines, unterminated, queue, next_offset, up>>
<1>1. ASSUME Same, NEW t \in Threads, NEW label, label # "write", Goto(t, label),
             \A u \in Threads : local'[u].batch = local[u].batch \/ u = t
      PROVE  Frame
  BY <1>1, Zenon DEF Types, Goto
<1>2. ASSUME Frame PROVE FileInv'
  BY <1>2, FileFrame, Zenon
<1>3. CASE UNCHANGED vars
  BY <1>2, <1>3, Zenon DEF vars
<1>4. CASE Open
  BY <1>4, FileOpen, Zenon
<1>5. ASSUME NEW c \in Clients, AppendCheck(c) \/ Flush(c) \/ Close(c) PROVE Frame
  <2>1. Same /\ c \in Threads
    BY <1>5, Zenon DEF AppendCheck, Flush, Close, Threads
  <2>2. \A u \in Threads : local'[u].batch = local[u].batch \/ u = c
    BY <1>5, Zenon DEF AppendCheck, Flush, Close, Types
  <2>3. \E label : label # "write" /\ Goto(c, label)
    <3>1. Goto(c, "append") \/ Goto(c, "accepted") \/ Goto(c, "join")
      BY <1>5, Zenon DEF AppendCheck, Flush, Close
    <3> QED
      BY <3>1, Zenon
  <2> QED
    BY <1>1, <2>1, <2>2, <2>3, Zenon
<1>6. ASSUME NEW c \in Clients, LoadAccepted(c) \/ LoadCommitted(c) \/ LoadQueued(c) PROVE Frame
  <2>1. Same /\ c \in Threads
    BY <1>6, Zenon DEF LoadAccepted, LoadCommitted, LoadQueued, Threads
  <2>2. \A u \in Threads : local'[u].batch = local[u].batch \/ u = c
    BY <1>6, Zenon DEF LoadAccepted, LoadCommitted, LoadQueued, Types
  <2>3. \E label : label # "write" /\ Goto(c, label)
    <3>1. \/ Goto(c, "committed") \/ Goto(c, "queued") \/ Goto(c, "sync") \/ Goto(c, "wait")
          \/ Goto(c, "drain") \/ Goto(c, "shut") \/ Goto(c, "idle")
      BY <1>6, Zenon DEF LoadAccepted, LoadCommitted, LoadQueued, ReturnFlush
    <3> QED
      BY <3>1, Zenon
  <2> QED
    BY <1>1, <2>1, <2>2, <2>3, Zenon
<1>7. ASSUME NEW c \in Clients,
             Wake(c) \/ Sync(c) \/ SleepHere(c) \/ GiveUp(c) \/ Join(c) \/ Shut(c)
      PROVE  Frame
  <2>1. Same /\ c \in Threads
    BY <1>7, ZenonT(30) DEF Wake, Sync, SleepHere, GiveUp, Join, Shut, Threads
  <2>2. \A u \in Threads : local'[u].batch = local[u].batch \/ u = c
    <3>1. CASE Wake(c)
      <4>1. PICK timeout : local' = [local EXCEPT ![c].last_try = timeout]
        BY <3>1, Zenon DEF Wake
      <4> QED
        BY <4>1, Zenon DEF Types
    <3>2. CASE Shut(c)
      <4>1. local' = [local EXCEPT ![c].closing = FALSE]
        BY <3>2, Zenon DEF Shut
      <4> QED
        BY <4>1, Zenon DEF Types
    <3>3. CASE Sync(c) \/ SleepHere(c) \/ GiveUp(c) \/ Join(c)
      <4>1. UNCHANGED local
        BY <3>3, Zenon DEF Sync, SleepHere, GiveUp, Join
      <4> QED
        BY <4>1, Zenon
    <3> QED
      BY <1>7, <3>1, <3>2, <3>3, Zenon
  <2>3. \E label : label # "write" /\ Goto(c, label)
    <3>1. Goto(c, "accepted") \/ Goto(c, "shut") \/ Goto(c, "idle")
      BY <1>7, Zenon DEF Wake, Sync, SleepHere, GiveUp, Join, Shut, ReturnFlush
    <3> QED
      BY <3>1, Zenon
  <2> QED
    BY <1>1, <2>1, <2>2, <2>3, Zenon
<1>8. ASSUME NEW t \in Threads, CommitEvents(t) \/ CountCommitted(t) PROVE Frame
  <2>1. Same
    BY <1>8, Zenon DEF CommitEvents, CountCommitted
  <2>2. \A u \in Threads : local'[u].batch = local[u].batch \/ u = t
    BY <1>8, Zenon DEF CommitEvents, CountCommitted, Types
  <2>3. \E label : label # "write" /\ Goto(t, label)
    <3>1. Goto(t, "count") \/ Goto(t, "idle") \/ Goto(t, "accepted")
      BY <1>8, ZenonT(30) DEF CommitEvents, CountCommitted
    <3> QED
      BY <3>1, Zenon
  <2> QED
    BY <1>1, <2>1, <2>2, <2>3, Zenon
<1>9. CASE FlusherExit \/ ReplayPage \/ Exit
  <2>1. Frame
    <3>1. CASE FlusherExit
      <4>1. Same /\ Goto(Flusher, "exited") /\ UNCHANGED local /\ Flusher \in Threads
        BY <3>1, Zenon DEF FlusherExit, Threads
      <4> QED
        BY <1>1, <4>1, Zenon
    <3>2. CASE ReplayPage
      BY <3>2, Zenon DEF ReplayPage
    <3>3. CASE Exit
      BY <3>3, Zenon DEF Exit, Down
    <3> QED
      BY <1>9, <3>1, <3>2, <3>3, Zenon
  <2> QED
    BY <1>2, <2>1, Zenon
<1> HIDE DEF Frame, Same
<1>10. ASSUME NEW t \in Threads, WriteLines(t) \/ WriteFails(t) PROVE FileInv'
  BY <1>10, WriteSteps, Zenon
<1>11. ASSUME NEW t \in Threads, up, pc[t] # "write", DrainBatch(t) PROVE FileInv'
  <2>1. UNCHANGED up
    BY <1>11, Zenon DEF DrainBatch
  <2> QED
    BY <1>11, <2>1, FileDrain, Zenon
<1>12. CASE FlusherStep
  <2>1. Flusher \in Threads
    BY Zenon DEF Threads
  <2>2. CASE FlusherDrain
    <3>1. up /\ pc[Flusher] # "write" /\ DrainBatch(Flusher)
      BY <2>2, Zenon DEF FlusherDrain
    <3> QED
      BY <1>11, <2>1, <3>1, Zenon
  <2> QED
    BY <1>2, <1>8, <1>9, <1>10, <1>12, <2>1, <2>2, Zenon DEF FlusherStep
<1>13. ASSUME NEW c \in Clients, ClientStep(c) PROVE FileInv'
  <2>1. c \in Threads
    BY Zenon DEF Threads
  <2>2. CASE DrainHere(c)
    <3>1. up /\ pc[c] # "write" /\ DrainBatch(c)
      BY <2>2, Zenon DEF DrainHere
    <3> QED
      BY <1>11, <2>1, <3>1, Zenon
  <2>3. CASE AppendPush(c)
    BY <2>3, FilePush, Zenon
  <2> QED
    BY <1>2, <1>6, <1>7, <1>8, <1>10, <1>13, <2>1, <2>2, <2>3, ZenonT(60) DEF ClientStep
<1>14. CASE Crash
  BY <1>14, FileCrash, Zenon
<1> QED
  BY <1>2, <1>3, <1>4, <1>5, <1>9, <1>12, <1>13, <1>14, ZenonT(30) DEF Next
-----------------------------------------------------------------------------
(* The flags *)

\* A process that never ends is opened once, and stays open.
LEMMA FlagsNext ==
  ASSUME MaxRestarts = 0, Types, Flags, Next
  PROVE  /\ Flags'
         /\ ~Open => up /\ up' /\ UNCHANGED start_flusher_thread
<1> USE DEF queueVars, commitVars, fileVars, toldVars, boundVars, openVars
<1>1. CASE Open
  <2>1. FlusherModes \subseteq BOOLEAN
    BY ConfigAssumption, Zenon
  <2> QED
    BY <1>1, <2>1, Zenon DEF Flags, Open
<1>2. CASE Down
  BY <1>2, BoundsAssumption, SMTT(60) DEF Down, Types
<1>3. ASSUME NEW c \in Clients, Close(c) PROVE Flags' /\ up /\ up' /\ UNCHANGED start_flusher_thread
  BY <1>3, Zenon DEF Flags, Close
<1>4. ASSUME NEW c \in Clients, Shut(c) PROVE Flags' /\ up /\ up' /\ UNCHANGED start_flusher_thread
  BY <1>4, Zenon DEF Flags, Shut
<1> DEFINE Same == up /\ UNCHANGED <<up, start_flusher_thread, closed, is_open>>
<1>5. ASSUME NEW c \in Clients, AppendCheck(c) \/ AppendPush(c) \/ Flush(c) PROVE Same
  BY <1>5, Zenon DEF AppendCheck, AppendPush, Flush
<1>6. ASSUME NEW c \in Clients, LoadAccepted(c) \/ LoadCommitted(c) \/ LoadQueued(c) PROVE Same
  BY <1>6, Zenon DEF LoadAccepted, LoadCommitted, LoadQueued
<1>7. ASSUME NEW c \in Clients, Wake(c) \/ Sync(c) \/ SleepHere(c) \/ GiveUp(c) \/ Join(c) PROVE Same
  BY <1>7, Zenon DEF Wake, Sync, SleepHere, GiveUp, Join
<1>8. ASSUME NEW t \in Threads, up /\ DrainBatch(t) PROVE Same
  BY <1>8, Zenon DEF DrainBatch
<1>9. ASSUME NEW t \in Threads, WriteLines(t) \/ WriteFails(t) PROVE Same
  BY <1>9, Zenon DEF WriteLines, WriteFails
<1>10. ASSUME NEW t \in Threads, CommitEvents(t) \/ CountCommitted(t) PROVE Same
  BY <1>10, Zenon DEF CommitEvents, CountCommitted
<1>11. CASE FlusherExit \/ ReplayPage
  <2>1. Same
    BY <1>11, Zenon DEF FlusherExit, ReplayPage
  <2> QED
    BY <2>1, Zenon DEF Flags
<1>12. CASE FlusherStep
  <2>1. Flusher \in Threads
    BY Zenon DEF Threads
  <2>2. FlusherExit \/ Same
    BY <1>12, <2>1, <1>8, <1>9, <1>10, Zenon DEF FlusherStep, FlusherDrain
  <2> QED
    BY <2>2, <1>11, Zenon DEF Flags
<1>13. ASSUME NEW c \in Clients, ClientStep(c)
       PROVE  Flags' /\ up /\ up' /\ UNCHANGED start_flusher_thread
  <2>1. c \in Threads
    BY Zenon DEF Threads
  <2>2. Shut(c) \/ Same
    BY <1>13, <2>1, <1>5, <1>6, <1>7, <1>8, <1>9, <1>10, Zenon DEF ClientStep, DrainHere
  <2> QED
    BY <2>2, <1>4, Zenon DEF Flags
<1>14. ASSUME NEW c \in Clients, AppendCheck(c) \/ Flush(c)
       PROVE  Flags' /\ up /\ up' /\ UNCHANGED start_flusher_thread
  <2>1. Same
    BY <1>14, <1>5, Zenon
  <2> QED
    BY <2>1, ZenonT(60) DEF Flags
<1> HIDE DEF Same
<1> QED
  BY <1>1, <1>2, <1>3, <1>11, <1>12, <1>13, <1>14, ZenonT(60) DEF Next, Exit, Crash
-----------------------------------------------------------------------------
(* Steps with a flusher *)

\* A step that leaves the log, what replay sees and the file open is none of Storage's.
LEMMA AbstractStutters ==
  ASSUME Log' = Log, UNCHANGED <<committed_events, is_open, start_flusher_thread>>
  PROVE  UNCHANGED Abstract!vars
<1>1. (start_flusher_thread /\ ~is_open)' = (start_flusher_thread /\ ~is_open)
  BY Zenon
<1>2. (IF start_flusher_thread THEN Len(committed_events) ELSE 0)'
        = IF start_flusher_thread THEN Len(committed_events) ELSE 0
  BY Zenon
<1>3. (IF start_flusher_thread THEN Log ELSE <<>>)' = IF start_flusher_thread THEN Log ELSE <<>>
  BY Zenon
<1> QED
  BY <1>1, <1>2, <1>3, Zenon DEF Abstract!vars, Log

\* The flusher is where it was when a client moves.
LEMMA FlusherStays ==
  ASSUME Types, NEW c \in Clients, NEW label, Goto(c, label)
  PROVE  /\ pc'[Flusher] = pc[Flusher] /\ pc'[c] = label
         /\ \A d \in Clients : d # c => pc'[d] = pc[d]
  BY ThreadsAssumption, Zenon DEF Types, Goto, Threads

\* Nothing of Log moves when the flusher, its batch, the queue and what is committed stay.
LEMMA LogStays ==
  ASSUME pc'[Flusher] = pc[Flusher], local'[Flusher].batch = local[Flusher].batch,
         UNCHANGED <<queue, committed_events>>
  PROVE  InFlight(Flusher)' = InFlight(Flusher) /\ Log' = Log
<1>1. InFlight(Flusher)' = InFlight(Flusher)
  BY Zenon DEF InFlight
<1> QED
  BY <1>1, Zenon DEF Log

\* What the steps of flush and close have in common.
LEMMA ClientMoves ==
  ASSUME Types, WithFlusher, NEW c \in Clients, NEW label \in Labels, Goto(c, label),
         label \notin {"append", "drain", "write", "commit", "count", "exited"},
         label = "shut" => pc[Flusher] = "exited",
         UNCHANGED <<queue, committed_events, payloads, queue_owner>>,
         closed => closed', ~is_open' => pc[Flusher] = "exited",
         local'[Flusher].batch = local[Flusher].batch,
         \A d \in Clients : ~local'[d].closing
  PROVE  WithFlusher' /\ Log' = Log
<1>1. pc'[Flusher] = pc[Flusher] /\ pc'[c] = label
  BY FlusherStays, Zenon
<1>2. \A d \in Clients : d # c => pc'[d] = pc[d]
  BY FlusherStays, Zenon
<1>3. Log' = Log
  BY <1>1, LogStays, Zenon
<1>5. ASSUME NEW d \in Clients PROVE ClientInv(d)'
  <2>1. ClientInv(d)
    BY Zenon DEF WithFlusher
  <2>2. CASE d = c
    BY <2>2, <1>1, Zenon DEF ClientInv
  <2>3. CASE d # c
    BY <2>1, <2>3, <1>1, <1>2, Zenon DEF ClientInv
  <2> QED
    BY <2>2, <2>3, Zenon
<1>6. FlusherInv'
  BY <1>1, Zenon DEF WithFlusher, FlusherInv
<1> QED
  BY <1>3, <1>5, <1>6, Zenon DEF WithFlusher

\* flush: its steps leave the log alone.
LEMMA FlushStutters ==
  ASSUME Types, WithFlusher, start_flusher_thread, NEW c \in Clients,
         \/ Flush(c) \/ LoadAccepted(c) \/ LoadCommitted(c)
         \/ LoadQueued(c) \/ Wake(c) \/ Sync(c)
  PROVE  WithFlusher' /\ Log' = Log /\ UNCHANGED Abstract!vars
<1> USE DEF queueVars, commitVars, fileVars, toldVars, boundVars, openVars
<1>0. Types /\ WithFlusher /\ ClientInv(c) /\ FlusherInv
  BY Zenon DEF WithFlusher
<1>1. local \in [Threads -> Locals] /\ c \in Threads /\ Flusher \in Threads /\ c # Flusher
  BY <1>0, ThreadsAssumption, Zenon DEF Types, Threads
<1>2. \A d \in Clients : d \in Threads /\ ~local[d].closing
  BY <1>0, Zenon DEF WithFlusher, ClientInv, Threads
<1>3. local'[Flusher].batch = local[Flusher].batch /\ \A d \in Clients : ~local'[d].closing
  <2>1. CASE Flush(c)
    BY <2>1, <1>1, <1>2, Zenon DEF Flush, Locals
  <2>2. CASE LoadAccepted(c)
    BY <2>2, <1>1, <1>2, Zenon DEF LoadAccepted, Locals
  <2>3. CASE LoadCommitted(c)
    BY <2>3, <1>1, <1>2, Zenon DEF LoadCommitted, Locals
  <2>4. CASE Wake(c)
    <3>1. PICK timeout : local' = [local EXCEPT ![c].last_try = timeout]
      BY <2>4, Zenon DEF Wake
    <3> QED
      BY <3>1, <1>1, <1>2, Zenon DEF Locals
  <2>5. CASE LoadQueued(c) \/ Sync(c)
    BY <2>5, <1>2, Zenon DEF LoadQueued, Sync
  <2> QED
    BY <2>1, <2>2, <2>3, <2>4, <2>5, Zenon
<1>4. \E label \in {"idle", "accepted", "committed", "queued", "wait", "sync"} : Goto(c, label)
  <2>1. ~local[c].closing
    BY <1>0, Zenon DEF ClientInv
  <2>2. CASE Flush(c) \/ LoadAccepted(c) \/ LoadCommitted(c) \/ Wake(c)
    BY <2>2, Zenon DEF Flush, LoadAccepted, LoadCommitted, Wake
  <2>3. CASE Sync(c)
    BY <2>1, <2>3, Zenon DEF Sync, ReturnFlush
  <2>4. CASE LoadQueued(c)
    BY <2>1, <2>4, Zenon DEF LoadQueued, ReturnFlush
  <2> QED
    BY <2>2, <2>3, <2>4, Zenon
<1>5. UNCHANGED <<queue, next_offset, committed_events, payloads, queue_owner, closed, is_open,
                  start_flusher_thread>>
  BY Zenon DEF Flush, LoadAccepted, LoadCommitted, LoadQueued, Wake, Sync
<1>6. ~is_open' => pc[Flusher] = "exited"
  BY <1>0, <1>5, Zenon DEF FlusherInv
<1>7. PICK label \in {"idle", "accepted", "committed", "queued", "wait", "sync"} : Goto(c, label)
  BY <1>4, Zenon
<1>8. /\ label \in Labels /\ label # "shut"
      /\ label \notin {"append", "drain", "write", "commit", "count", "exited"}
  BY <1>7, Zenon DEF Labels
<1>9. UNCHANGED <<queue, committed_events, payloads, queue_owner>> /\ (closed => closed')
  BY <1>5, ZenonT(60)
<1>10. WithFlusher' /\ Log' = Log
  BY <1>0, <1>3, <1>6, <1>7, <1>8, <1>9, ClientMoves, Zenon
<1> QED
  BY <1>5, <1>10, AbstractStutters, Zenon

\* close: setting closed_ and joining the flusher are no steps of Storage, closing
\* the file is its Close, by which time everything is visible.
LEMMA CloseSteps ==
  ASSUME Types, WithFlusher, start_flusher_thread, NEW c \in Clients,
         Close(c) \/ Join(c) \/ Shut(c)
  PROVE  WithFlusher' /\ Log' = Log /\ [Abstract!Next]_(Abstract!vars)
<1> USE DEF queueVars, commitVars, fileVars, toldVars, boundVars, openVars
<1>0. Types /\ WithFlusher /\ ClientInv(c) /\ FlusherInv
  BY Zenon DEF WithFlusher
<1>1. local \in [Threads -> Locals] /\ c \in Threads /\ Flusher \in Threads /\ c # Flusher
  BY <1>0, ThreadsAssumption, Zenon DEF Types, Threads
<1>2. \A d \in Clients : d \in Threads /\ ~local[d].closing
  BY <1>0, Zenon DEF WithFlusher, ClientInv, Threads
<1>3. UNCHANGED <<queue, next_offset, committed_events, payloads, queue_owner, start_flusher_thread>>
  BY Zenon DEF Close, Join, Shut
<1>4. CASE Close(c) \/ Join(c)
  <2>1. UNCHANGED local /\ UNCHANGED is_open /\ (closed => closed')
    <3>1. CASE Close(c)
      BY <3>1, Zenon DEF Close
    <3>2. CASE Join(c)
      BY <3>2, Zenon DEF Join
    <3> QED
      BY <1>4, <3>1, <3>2, Zenon
  <2>2. local'[Flusher].batch = local[Flusher].batch /\ \A d \in Clients : ~local'[d].closing
    BY <2>1, <1>2, Zenon
  <2>3. ~is_open' => pc[Flusher] = "exited"
    BY <1>0, <2>1, Zenon DEF FlusherInv
  <2>4. PICK label \in {"join", "shut"} : Goto(c, label) /\ (label = "shut" => pc[Flusher] = "exited")
    BY <1>4, Zenon DEF Close, Join
  <2>5. /\ label \in Labels
        /\ label \notin {"append", "drain", "write", "commit", "count", "exited"}
    BY <2>4, Zenon DEF Labels
  <2>6. UNCHANGED <<queue, committed_events, payloads, queue_owner>>
    BY <1>3, Zenon
  <2>7. WithFlusher' /\ Log' = Log
    BY <1>0, <2>1, <2>2, <2>3, <2>4, <2>5, <2>6, ClientMoves, ZenonT(60)
  <2> QED
    BY <1>3, <2>1, <2>7, AbstractStutters, Zenon
<1>5. CASE Shut(c)
  <2>1. pc[c] = "shut" /\ pc[Flusher] = "exited" /\ Goto(c, "idle")
    BY <1>0, <1>5, Zenon DEF Shut, ClientInv
  <2>2. local'[Flusher].batch = local[Flusher].batch /\ \A d \in Clients : ~local'[d].closing
    BY <1>1, <1>2, <1>5, Zenon DEF Shut, Locals
  <2>3. UNCHANGED <<queue, committed_events, payloads, queue_owner>> /\ (closed => closed')
    BY <1>3, <1>5, ZenonT(60) DEF Shut
  <2>4. WithFlusher' /\ Log' = Log
    BY <1>0, <2>1, <2>2, <2>3, ClientMoves, Zenon DEF Labels
  <2>5. queue = <<>> /\ InFlight(Flusher) = <<>>
    BY <1>0, <2>1, Zenon DEF FlusherInv, InFlight
  <2>6. Len(Log) = Len(committed_events)
    BY <1>0, <2>5, LogType, Empty
  <2>7. is_open' = FALSE
    BY <1>5, Zenon DEF Shut
  <2>8. Abstract!Close
    <3>1. (start_flusher_thread /\ ~is_open)' = TRUE
      BY <1>3, <2>7, Zenon
    <3>2. (IF start_flusher_thread THEN Len(committed_events) ELSE 0)
            = Len(IF start_flusher_thread THEN Log ELSE <<>>)
      BY <2>6, Zenon
    <3>3. (IF start_flusher_thread THEN Len(committed_events) ELSE 0)'
            = IF start_flusher_thread THEN Len(committed_events) ELSE 0
      BY <1>3, Zenon
    <3>4. (IF start_flusher_thread THEN Log ELSE <<>>)' = IF start_flusher_thread THEN Log ELSE <<>>
      BY <1>3, <2>4, Zenon
    <3> QED
      BY <3>1, <3>2, <3>3, <3>4, Zenon DEF Abstract!Close, Log
  <2> QED
    BY <2>4, <2>8, Zenon DEF Abstract!Next
<1> QED
  BY <1>4, <1>5, Zenon
\* append: passing the checks is no step of Storage, pushing is Accept with the
\* next offset; nobody can have closed the file in between.
LEMMA AppendSteps ==
  ASSUME Types, WithFlusher, start_flusher_thread, NEW c \in Clients, AppendCheck(c) \/ AppendPush(c)
  PROVE  /\ WithFlusher'
         /\ AppendCheck(c) => Log' = Log
         /\ AppendPush(c) => Log' = Append(Log, [offset |-> next_offset, payload |-> payloads])
         /\ Numbered => Numbered' /\ [Abstract!Next]_(Abstract!vars)
<1> USE DEF queueVars, commitVars, fileVars, toldVars, boundVars, openVars
<1>0. Types /\ WithFlusher /\ ClientInv(c) /\ FlusherInv
  BY Zenon DEF WithFlusher
<1>1. UNCHANGED <<committed_events, closed, is_open, local, start_flusher_thread>>
  BY Zenon DEF AppendCheck, AppendPush
<1>2. c # NoOne
  BY ThreadsAssumption, Zenon
<1>3. CASE AppendCheck(c)
  <2>1. /\ ~closed /\ queue_owner = NoOne /\ queue_owner' = c /\ payloads < MaxEvents
        /\ UNCHANGED <<queue, next_offset, payloads>> /\ Goto(c, "append")
    BY <1>3, ZenonT(60) DEF AppendCheck
  <2>2. pc'[Flusher] = pc[Flusher] /\ pc'[c] = "append"
    BY <1>0, <2>1, FlusherStays, Zenon
  <2>3. \A d \in Clients : d # c => pc'[d] = pc[d]
    BY <1>0, <2>1, FlusherStays, Zenon
  <2>4. Log' = Log
    <3>1. local'[Flusher].batch = local[Flusher].batch /\ UNCHANGED <<queue, committed_events>>
      BY <1>1, <2>1, Zenon
    <3> QED
      BY <2>2, <3>1, LogStays, Zenon
  <2>5. Numbered => Numbered'
    BY <2>1, <2>4, Zenon DEF Numbered
  <2>6. ASSUME NEW d \in Clients PROVE ClientInv(d)'
    <3>1. ClientInv(d)
      BY <1>0, Zenon DEF WithFlusher
    <3>2. ~local'[d].closing
      BY <1>1, <3>1, Zenon DEF ClientInv
    <3>3. CASE d = c
      BY <3>2, <3>3, <2>1, <2>2, Zenon DEF ClientInv
    <3>4. CASE d # c
      <4>1. pc[d] # "append"
        BY <3>1, <2>1, ThreadsAssumption, Zenon DEF ClientInv
      <4> QED
        BY <3>1, <3>2, <3>4, <4>1, <2>2, <2>3, ZenonT(60) DEF ClientInv
    <3> QED
      BY <3>3, <3>4, Zenon
  <2>7. FlusherInv'
    BY <1>0, <1>1, <2>1, <2>2, Zenon DEF FlusherInv
  <2>8. WithFlusher'
    BY <2>6, <2>7, Zenon DEF WithFlusher
  <2>9. ~AppendPush(c)
    BY <1>3, Zenon DEF AppendCheck, AppendPush
  <2> QED
    BY <1>1, <2>4, <2>5, <2>8, <2>9, AbstractStutters, Zenon
<1>4. CASE AppendPush(c)
  <2> DEFINE e == [offset |-> next_offset, payload |-> payloads]
  <2>1. /\ pc[c] = "append" /\ Goto(c, "idle") /\ queue_owner' = NoOne
        /\ queue' = Append(queue, e) /\ next_offset' = next_offset + 1
    BY <1>4, ZenonT(30) DEF AppendPush
  <2>2. queue_owner = c /\ payloads < MaxEvents /\ pc[Flusher] # "exited"
    BY <1>0, <1>2, <2>1, Zenon DEF ClientInv, FlusherInv
  <2>3. pc'[Flusher] = pc[Flusher] /\ pc'[c] = "idle"
    BY <1>0, <2>1, FlusherStays, Zenon
  <2>4. \A d \in Clients : d # c => pc'[d] = pc[d]
    BY <1>0, <2>1, FlusherStays, Zenon
  <2>5. InFlight(Flusher)' = InFlight(Flusher)
    BY <1>1, <2>3, Zenon DEF InFlight
  <2>6. e \in Events
    BY <1>0, Zenon DEF Types, Events
  <2>7. Log' = Append(Log, e)
    <3> DEFINE before == committed_events \o InFlight(Flusher)
    <3>1. Log' = before \o Append(queue, e)
      BY <1>1, <2>1, <2>5, Zenon DEF Log
    <3>2. before \in Seq(Events) /\ queue \in Seq(Events)
      BY <1>0, LogType, Joined, Zenon DEF Types
    <3> HIDE DEF before, e
    <3>3. Append(queue, e) = queue \o <<e>> /\ <<e>> \in Seq(Events)
      BY <2>6, <3>2, Appended
    <3>4. before \o (queue \o <<e>>) = (before \o queue) \o <<e>>
      BY <3>2, <3>3, Brackets
    <3>5. before \o queue \in Seq(Events)
      BY <3>2, Joined, Zenon
    <3>6. Append(before \o queue, e) = (before \o queue) \o <<e>>
      BY <2>6, <3>5, Appended
    <3> QED
      BY <3>1, <3>3, <3>4, <3>6, Zenon DEF Log, before
  <2>8. Log \in Seq(Events)
    BY <1>0, LogType, Zenon
  <2>9. Numbered => Numbered'
    BY <2>1, <2>6, <2>7, <2>8, Appended, SMTT(30) DEF Numbered
  <2>10. ASSUME NEW d \in Clients PROVE ClientInv(d)'
    <3>1. ClientInv(d)
      BY <1>0, Zenon DEF WithFlusher
    <3>2. ~local'[d].closing
      BY <1>1, <3>1, Zenon DEF ClientInv
    <3>3. CASE d = c
      BY <3>2, <3>3, <2>3, Zenon DEF ClientInv
    <3>4. CASE d # c
      <4>1. pc[d] # "append"
        BY <3>1, <3>4, <2>2, Zenon DEF ClientInv
      <4> QED
        BY <3>1, <3>2, <3>4, <4>1, <2>3, <2>4, ZenonT(30) DEF ClientInv
    <3> QED
      BY <3>3, <3>4, Zenon
  <2>11. FlusherInv'
    BY <1>0, <1>1, <2>2, <2>3, Zenon DEF FlusherInv
  <2>12. WithFlusher'
    BY <2>10, <2>11, Zenon DEF WithFlusher
  <2>13. ASSUME Numbered PROVE Abstract!Accept(payloads)
    <3>1. is_open /\ is_open'
      BY <1>0, <1>1, <2>2, Zenon DEF FlusherInv
    <3>2. ~(start_flusher_thread /\ ~is_open)
      BY <3>1, Zenon
    <3>3. (start_flusher_thread /\ ~is_open)' = (start_flusher_thread /\ ~is_open)
      BY <1>1, Zenon
    <3>4. (IF start_flusher_thread THEN Log ELSE <<>>)' = Append(Log, e)
      BY <1>1, <2>7, Zenon
    <3>5. (IF start_flusher_thread THEN Log ELSE <<>>) = Log
      BY Zenon
    <3>6. (IF start_flusher_thread THEN Len(committed_events) ELSE 0)'
            = IF start_flusher_thread THEN Len(committed_events) ELSE 0
      BY <1>1, Zenon
    <3>7. e = [offset |-> Len(Log), payload |-> payloads]
      BY <2>13, Zenon DEF Numbered
    <3> HIDE DEF e
    <3> QED
      BY <3>2, <3>3, <3>4, <3>5, <3>6, <3>7, Zenon DEF Abstract!Accept, Log
  <2>14. payloads \in 0..(MaxEvents - 1)
    BY <1>0, <2>2, BoundsAssumption DEF Types
  <2>15. ~AppendCheck(c)
    BY <2>1, Zenon DEF AppendCheck
  <2> QED
    BY <2>7, <2>9, <2>12, <2>13, <2>14, <2>15, Zenon DEF Abstract!Next
<1> QED
  BY <1>3, <1>4, Zenon

\* When the flusher moves, what clients know stays true, as they wait for its end only.
LEMMA FlusherMoves ==
  ASSUME Types, WithFlusher, pc[Flusher] # "exited", NEW label, Goto(Flusher, label),
         UNCHANGED <<queue_owner, payloads>>,
         \A d \in Clients : local'[d].closing = local[d].closing
  PROVE  /\ pc'[Flusher] = label
         /\ \A d \in Clients : ClientInv(d)'
<1>1. pc'[Flusher] = label /\ \A d \in Clients : pc'[d] = pc[d]
  BY ThreadsAssumption, Zenon DEF Types, Goto, Threads
<1>2. ASSUME NEW d \in Clients PROVE ClientInv(d)'
  <2>1. ClientInv(d)
    BY Zenon DEF WithFlusher
  <2> QED
    BY <1>1, <2>1, Zenon DEF ClientInv
<1> QED
  BY <1>1, <1>2, Zenon

\* The flusher: taking a batch, writing it (or failing to), counting it and ending
\* are no steps of Storage; making it visible to replay is its Commit.
LEMMA FlusherSteps ==
  ASSUME Types, WithFlusher, start_flusher_thread, FlusherStep
  PROVE  WithFlusher' /\ Log' = Log /\ UNCHANGED next_offset /\ [Abstract!Next]_(Abstract!vars)
<1> USE DEF queueVars, commitVars, fileVars, toldVars, boundVars, openVars
<1> DEFINE batch == local[Flusher].batch
<1>0. Types /\ WithFlusher /\ FlusherInv
  BY Zenon DEF WithFlusher
<1>1. local \in [Threads -> Locals] /\ Flusher \in Threads /\ batch \in Seq(Events)
  BY <1>0, Zenon DEF Types, Threads, Locals
<1>2. \A d \in Clients : d \in Threads /\ d # Flusher
  BY ThreadsAssumption, Zenon DEF Threads
<1>3. committed_events \in Seq(Events) /\ queue \in Seq(Events)
  BY <1>0, Zenon DEF Types
<1>4. \A s \in Seq(Events) : s \o <<>> = s
  BY WithEmpty, Zenon
<1>5. /\ UNCHANGED <<next_offset, queue_owner, payloads, closed, is_open, start_flusher_thread>>
      /\ pc[Flusher] # "exited"
  BY Zenon DEF FlusherStep, FlusherDrain, DrainBatch, FlusherExit, WriteLines, WriteFails,
     CommitEvents, CountCommitted
<1>6. is_open
  BY <1>0, <1>5, Zenon DEF FlusherInv
<1>7. CASE FlusherDrain
  <2> DEFINE rest == SubSeq(queue, Least(BatchSize, Len(queue)) + 1, Len(queue))
  <2>1. /\ pc[Flusher] = "idle" /\ queue # <<>> /\ Goto(Flusher, "write")
        /\ local' = [local EXCEPT ![Flusher].batch = NextBatch]
        /\ queue' = rest /\ UNCHANGED committed_events
    BY <1>7, Zenon DEF FlusherDrain, DrainBatch
  <2>2. local'[Flusher].batch = NextBatch /\ \A d \in Clients : local'[d].closing = local[d].closing
    BY <1>1, <1>2, <2>1, Zenon DEF Locals
  <2>3. pc'[Flusher] = "write" /\ \A d \in Clients : ClientInv(d)'
    <3>1. UNCHANGED <<queue_owner, payloads>>
      BY <1>5, Zenon
    <3> QED
      BY <1>0, <1>5, <2>1, <2>2, <3>1, FlusherMoves, Zenon
  <2>4. /\ NextBatch \in Seq(Events) /\ NextBatch # <<>> /\ rest \in Seq(Events)
        /\ NextBatch \o rest = queue
    BY <1>0, <2>1, BatchAndRest, Zenon
  <2>5. InFlight(Flusher) = <<>> /\ InFlight(Flusher)' = NextBatch
    BY <2>1, <2>2, <2>3, Zenon DEF InFlight
  <2> HIDE DEF rest
  <2>6. Log' = Log
    <3>1. Log = committed_events \o queue
      BY <1>3, <1>4, <2>5, Zenon DEF Log
    <3>2. Log' = (committed_events \o NextBatch) \o rest
      BY <2>1, <2>5, Zenon DEF Log
    <3>3. (committed_events \o NextBatch) \o rest = committed_events \o (NextBatch \o rest)
      <4>1. \A s, t, u \in Seq(Events) : (s \o t) \o u = s \o (t \o u)
        BY Brackets, SMTT(60)
      <4> QED
        BY <4>1, <1>3, <2>4, ZenonT(60)
    <3> QED
      BY <3>1, <3>2, <3>3, <2>4, Zenon
  <2>7. FlusherInv'
    BY <1>5, <1>6, <2>2, <2>3, <2>4, Zenon DEF FlusherInv
  <2>8. WithFlusher'
    BY <1>0, <1>5, <2>3, <2>6, <2>7, Zenon DEF WithFlusher
  <2> QED
    BY <1>5, <2>1, <2>6, <2>8, AbstractStutters, Zenon
<1>8. CASE FlusherExit
  <2>1. /\ pc[Flusher] = "idle" /\ Goto(Flusher, "exited")
        /\ queue = <<>> /\ closed /\ queue_owner = NoOne
        /\ UNCHANGED <<queue, committed_events, local>>
    BY <1>8, Zenon DEF FlusherExit, MayExit
  <2>2. pc'[Flusher] = "exited" /\ \A d \in Clients : ClientInv(d)'
    <3>1. UNCHANGED <<queue_owner, payloads>> /\ \A d \in Clients : local'[d].closing = local[d].closing
      BY <1>5, <2>1, Zenon
    <3> QED
      BY <1>0, <1>5, <2>1, <3>1, FlusherMoves, Zenon
  <2>3. InFlight(Flusher)' = InFlight(Flusher)
    BY <2>1, <2>2, Zenon DEF InFlight
  <2>4. Log' = Log
    BY <2>1, <2>3, Zenon DEF Log
  <2>5. FlusherInv'
    BY <1>5, <1>6, <2>1, <2>2, Zenon DEF FlusherInv
  <2>6. WithFlusher'
    BY <1>0, <1>5, <2>2, <2>4, <2>5, Zenon DEF WithFlusher
  <2> QED
    BY <1>5, <2>1, <2>4, <2>6, AbstractStutters, Zenon
<1>9. CASE WriteLines(Flusher) \/ WriteFails(Flusher)
  <2>1. /\ pc[Flusher] = "write" /\ Goto(Flusher, "commit")
        /\ UNCHANGED <<queue, committed_events, local>>
    BY <1>9, ZenonT(30) DEF WriteLines, WriteFails
  <2>2. pc'[Flusher] = "commit" /\ \A d \in Clients : ClientInv(d)'
    <3>1. UNCHANGED <<queue_owner, payloads>> /\ \A d \in Clients : local'[d].closing = local[d].closing
      BY <1>5, <2>1, Zenon
    <3> QED
      BY <1>0, <1>5, <2>1, <3>1, FlusherMoves, Zenon
  <2>3. InFlight(Flusher)' = InFlight(Flusher)
    BY <2>1, <2>2, Zenon DEF InFlight
  <2>4. Log' = Log
    BY <2>1, <2>3, Zenon DEF Log
  <2>5. FlusherInv'
    BY <1>0, <1>5, <1>6, <2>1, <2>2, Zenon DEF FlusherInv
  <2>6. WithFlusher'
    BY <1>0, <1>5, <2>2, <2>4, <2>5, Zenon DEF WithFlusher
  <2> QED
    BY <1>5, <2>1, <2>4, <2>6, AbstractStutters, Zenon
<1>10. CASE CommitEvents(Flusher)
  <2>1. /\ pc[Flusher] = "commit" /\ Goto(Flusher, "count")
        /\ committed_events' = committed_events \o batch
        /\ UNCHANGED <<queue, local>>
    BY <1>10, ZenonT(30) DEF CommitEvents
  <2>2. pc'[Flusher] = "count" /\ \A d \in Clients : ClientInv(d)'
    <3>1. UNCHANGED <<queue_owner, payloads>> /\ \A d \in Clients : local'[d].closing = local[d].closing
      BY <1>5, <2>1, Zenon
    <3> QED
      BY <1>0, <1>5, <2>1, <3>1, FlusherMoves, Zenon
  <2>3. InFlight(Flusher) = batch /\ InFlight(Flusher)' = <<>> /\ batch # <<>>
    BY <1>0, <2>1, <2>2, Zenon DEF InFlight, FlusherInv
  <2> HIDE DEF batch
  <2>4. /\ committed_events \o batch \in Seq(Events)
        /\ Len(committed_events \o batch) = Len(committed_events) + Len(batch)
    BY <1>1, <1>3, Joined, Zenon
  <2>5. Log' = Log
    BY <1>4, <2>1, <2>3, <2>4, Zenon DEF Log
  <2>6. FlusherInv'
    BY <1>5, <1>6, <2>2, Zenon DEF FlusherInv
  <2>7. WithFlusher'
    BY <1>0, <1>5, <2>2, <2>5, <2>6, Zenon DEF WithFlusher
  <2>8. /\ Len(committed_events) < Len(Log)
        /\ Len(committed_events') \in (Len(committed_events) + 1)..Len(Log)
    <3>1. Len(batch) \in Nat /\ Len(batch) # 0 /\ Len(committed_events) \in Nat /\ Len(queue) \in Nat
      BY <1>1, <1>3, <2>3, Empty, Elements
    <3>2. Len(Log) = Len(committed_events) + Len(batch) + Len(queue)
      BY <1>0, <2>3, LogType, Zenon
    <3> QED
      BY <2>1, <2>4, <3>1, <3>2
  <2>9. Abstract!Commit
    <3>1. (start_flusher_thread /\ ~is_open)' = (start_flusher_thread /\ ~is_open)
      BY <1>5, Zenon
    <3>2. (IF start_flusher_thread THEN Log ELSE <<>>)' = IF start_flusher_thread THEN Log ELSE <<>>
      BY <1>5, <2>5, Zenon
    <3>3. (IF start_flusher_thread THEN Len(committed_events) ELSE 0)' = Len(committed_events')
      BY <1>5, Zenon
    <3>4. /\ (IF start_flusher_thread THEN Len(committed_events) ELSE 0) = Len(committed_events)
          /\ (IF start_flusher_thread THEN Log ELSE <<>>) = Log
      BY Zenon
    <3> QED
      BY <2>8, <3>1, <3>2, <3>3, <3>4, Zenon DEF Abstract!Commit, Log
  <2> QED
    BY <1>5, <2>5, <2>7, <2>9, Zenon DEF Abstract!Next
<1>11. CASE CountCommitted(Flusher)
  <2>1. /\ pc[Flusher] = "count" /\ Goto(Flusher, "idle")
        /\ local' = [local EXCEPT ![Flusher].batch = <<>>]
        /\ UNCHANGED <<queue, committed_events>>
    BY <1>11, Zenon DEF CountCommitted
  <2>2. \A d \in Clients : local'[d].closing = local[d].closing
    BY <1>1, <1>2, <2>1, Zenon DEF Locals
  <2>3. pc'[Flusher] = "idle" /\ \A d \in Clients : ClientInv(d)'
    <3>1. UNCHANGED <<queue_owner, payloads>>
      BY <1>5, Zenon
    <3> QED
      BY <1>0, <1>5, <2>1, <2>2, <3>1, FlusherMoves, Zenon
  <2>4. InFlight(Flusher) = <<>> /\ InFlight(Flusher)' = <<>>
    BY <2>1, <2>3, Zenon DEF InFlight
  <2>5. Log' = Log
    BY <2>1, <2>4, Zenon DEF Log
  <2>6. FlusherInv'
    BY <1>5, <1>6, <2>3, Zenon DEF FlusherInv
  <2>7. WithFlusher'
    BY <1>0, <1>5, <2>3, <2>5, <2>6, Zenon DEF WithFlusher
  <2> QED
    BY <1>5, <2>1, <2>5, <2>7, AbstractStutters, Zenon
<1> QED
  BY <1>7, <1>8, <1>9, <1>10, <1>11, Zenon DEF FlusherStep

\* A step leaves the log, the next offset and what was acknowledged alone, or
\* accepts the event with the next offset.
LogStep ==
  \/ Log' = Log /\ UNCHANGED <<next_offset, accepted, acked>>
  \/ /\ Log' = Append(Log, [offset |-> next_offset, payload |-> payloads])
     /\ next_offset' = next_offset + 1 /\ accepted' = accepted + 1
     /\ acked' = acked \cup {payloads}

\* A step while the flusher is there and the process goes on.
LEMMA FlusherRunStep ==
  ASSUME Types, WithFlusher, up, start_flusher_thread, Next, ~Down
  PROVE  /\ WithFlusher' /\ UNCHANGED <<up, start_flusher_thread>>
         /\ LogStep
         /\ Numbered => Numbered' /\ [Abstract!Next]_(Abstract!vars)
<1> USE DEF queueVars, commitVars, fileVars, toldVars, boundVars, openVars
<1>1. CASE ReplayPage
  <2>1. UNCHANGED <<queue, queue_owner, next_offset, committed_events, closed, is_open, pc,
                    local, payloads, accepted, acked, up, start_flusher_thread>>
    BY <1>1, Zenon DEF ReplayPage
  <2>2. InFlight(Flusher)' = InFlight(Flusher)
    BY <2>1, Zenon DEF InFlight
  <2>3. Log' = Log
    BY <2>1, <2>2, Zenon DEF Log
  <2>4. WithFlusher'
    BY <2>1, <2>3, Zenon DEF WithFlusher, ClientInv, FlusherInv
  <2>5. Numbered => Numbered'
    BY <2>1, <2>3, Zenon DEF Numbered
  <2> QED
    BY <2>1, <2>3, <2>4, <2>5, AbstractStutters, Zenon DEF LogStep
<1>2. CASE FlusherStep
  <2>1. WithFlusher' /\ Log' = Log /\ UNCHANGED next_offset /\ [Abstract!Next]_(Abstract!vars)
    BY <1>2, FlusherSteps, Zenon
  <2>2. UNCHANGED <<accepted, acked, up, start_flusher_thread>>
    BY <1>2, Zenon DEF FlusherStep, FlusherDrain, DrainBatch, FlusherExit, WriteLines, WriteFails,
       CommitEvents, CountCommitted
  <2> QED
    BY <2>1, <2>2, Zenon DEF Numbered, LogStep
<1>3. ASSUME NEW c \in Clients, AppendCheck(c) \/ Flush(c) \/ Close(c) \/ ClientStep(c)
      PROVE  /\ WithFlusher' /\ UNCHANGED <<up, start_flusher_thread>>
             /\ LogStep
             /\ Numbered => Numbered' /\ [Abstract!Next]_(Abstract!vars)
  <2>1. pc[c] \notin {"drain", "write", "commit", "count"}
    BY Zenon DEF WithFlusher, ClientInv
  <2>2. ~(\/ DrainHere(c) \/ SleepHere(c) \/ GiveUp(c) \/ WriteLines(c)
          \/ WriteFails(c) \/ CommitEvents(c) \/ CountCommitted(c))
    BY <2>1, Zenon DEF DrainHere, SleepHere, GiveUp, WriteLines, WriteFails,
       CommitEvents, CountCommitted
  <2>3. CASE AppendCheck(c) \/ AppendPush(c)
    <3>1. /\ WithFlusher' /\ (AppendCheck(c) => Log' = Log)
          /\ AppendPush(c) => Log' = Append(Log, [offset |-> next_offset, payload |-> payloads])
          /\ Numbered => Numbered' /\ [Abstract!Next]_(Abstract!vars)
      BY <2>3, AppendSteps, Zenon
    <3>2. UNCHANGED <<up, start_flusher_thread>>
      BY <2>3, Zenon DEF AppendCheck, AppendPush
    <3>3. LogStep
      BY <2>3, <3>1, Zenon DEF LogStep, AppendCheck, AppendPush
    <3> QED
      BY <3>1, <3>2, <3>3, Zenon
  <2>4. CASE Close(c) \/ Join(c) \/ Shut(c)
    <3>1. WithFlusher' /\ Log' = Log /\ [Abstract!Next]_(Abstract!vars)
      BY <2>4, CloseSteps, Zenon
    <3>2. UNCHANGED <<next_offset, accepted, acked, up, start_flusher_thread>>
      BY <2>4, Zenon DEF Close, Join, Shut
    <3> QED
      BY <3>1, <3>2, Zenon DEF Numbered, LogStep
  <2>5. CASE \/ Flush(c) \/ LoadAccepted(c) \/ LoadCommitted(c)
             \/ LoadQueued(c) \/ Wake(c) \/ Sync(c)
    <3>1. WithFlusher' /\ Log' = Log /\ UNCHANGED Abstract!vars
      BY <2>5, FlushStutters, Zenon
    <3>2. UNCHANGED <<next_offset, accepted, acked, up, start_flusher_thread>>
      BY <2>5, Zenon DEF Flush, LoadAccepted, LoadCommitted, LoadQueued, Wake, Sync
    <3> QED
      BY <3>1, <3>2, Zenon DEF Numbered, LogStep
  <2> QED
    BY <1>3, <2>2, <2>3, <2>4, <2>5, Zenon DEF ClientStep
<1> QED
  BY <1>1, <1>2, <1>3, Zenon DEF Next, Exit, Crash, Open
-----------------------------------------------------------------------------
(* The whole *)

\* Opening a storage whose file does not exist gives an empty log.
LEMMA OpenStutters ==
  ASSUME StorageInv, Open
  PROVE  (start_flusher_thread' => WithFlusher' /\ Numbered') /\ UNCHANGED Abstract!vars
<1> USE DEF queueVars, commitVars, fileVars, toldVars, boundVars, openVars
<1>0. Types /\ Flags /\ ~start_flusher_thread /\ FileType
  BY Zenon DEF StorageInv, FileInv, Flags, Open
<1>1. queue' = <<>> /\ committed_events' = <<>> /\ next_offset' = 0
  BY <1>0, OpensEmpty, Zenon
<1>2. is_open' = TRUE /\ closed' = FALSE /\ queue_owner' = NoOne
  BY Zenon DEF Open
<1>3. \A t \in Threads : local'[t] = NoLocals
  BY Zenon DEF Open
<1>4. InFlight(Flusher)' = <<>>
  BY <1>3, ThreadsAssumption DEF InFlight, NoLocals, Threads
<1>5. Log' = <<>> /\ Len(<<>>) = 0
  BY <1>1, <1>4, WithEmpty, Empty, Zenon DEF Log
<1>6. ASSUME start_flusher_thread' PROVE WithFlusher' /\ Numbered'
  <2>1. \A t \in Threads : pc'[t] = "idle"
    BY <1>6, Zenon DEF Open
  <2>2. ASSUME NEW c \in Clients PROVE ClientInv(c)'
    <3>1. pc'[c] = "idle" /\ local'[c] = NoLocals
      BY <1>3, <2>1, Zenon DEF Threads
    <3>2. ~local'[c].closing
      BY <3>1 DEF NoLocals
    <3> QED
      BY <3>1, <3>2, Zenon DEF ClientInv
  <2>3. FlusherInv'
    BY <2>1, <1>2, Zenon DEF FlusherInv, Threads
  <2> QED
    BY <1>1, <1>5, <2>2, <2>3, Zenon DEF WithFlusher, Numbered
<1>7. (IF start_flusher_thread THEN Log ELSE <<>>)' = <<>>
  BY <1>5, Zenon
<1>8. (IF start_flusher_thread THEN Len(committed_events) ELSE 0)' = 0
  BY <1>1, <1>5, Zenon
<1>9. (start_flusher_thread /\ ~is_open)' = (start_flusher_thread /\ ~is_open)
  BY <1>0, <1>2, Zenon
<1>10. /\ (IF start_flusher_thread THEN Log ELSE <<>>) = <<>>
       /\ (IF start_flusher_thread THEN Len(committed_events) ELSE 0) = 0
  BY <1>0, Zenon
<1> QED
  BY <1>6, <1>7, <1>8, <1>9, <1>10, Zenon DEF Abstract!vars, Log

\* Every step keeps StorageInv and is a step of Storage or none.
LEMMA StorageStep ==
  ASSUME MaxRestarts = 0, StorageInv, [Next]_vars
  PROVE  StorageInv' /\ [Abstract!Next]_(Abstract!vars)
<1> USE DEF queueVars, commitVars, fileVars, toldVars, boundVars, openVars
<1>0. Types /\ FileInv /\ FileType /\ Flags
  BY Zenon DEF StorageInv, FileInv
<1>1. CASE UNCHANGED vars
  <2>1. UNCHANGED <<queue, queue_owner, next_offset, accepted, committed, committed_events, closed,
                    is_open, pc, local, lines, unterminated, up, start_flusher_thread, payloads,
                    restarts, failures, acked>>
    BY <1>1, Zenon DEF vars
  <2>2. Types' /\ FileInv' /\ Flags'
    <3>1. FileInv'
      BY <1>0, <1>1, FileInvNext, Zenon
    <3> QED
      BY <1>0, <2>1, <3>1, Zenon DEF Types, Flags
  <2>3. InFlight(Flusher)' = InFlight(Flusher)
    BY <2>1, Zenon DEF InFlight
  <2>4. Log' = Log
    BY <2>1, <2>3, Zenon DEF Log
  <2>5. start_flusher_thread' => WithFlusher' /\ Numbered'
    BY <2>1, <2>4, Zenon DEF StorageInv, WithFlusher, ClientInv, FlusherInv, Numbered
  <2> QED
    BY <2>1, <2>2, <2>4, <2>5, AbstractStutters, Zenon DEF StorageInv
<1>2. CASE Next
  <2>1. Types' /\ FileInv' /\ Flags'
    BY <1>0, <1>2, TypesNext, FileInvNext, FlagsNext, Zenon
  <2>2. CASE Open
    BY <2>1, <2>2, OpenStutters, Zenon DEF StorageInv
  <2>3. CASE ~Open
    <3>1. UNCHANGED start_flusher_thread
      BY <1>0, <1>2, <2>3, FlagsNext, Zenon
    <3>2. CASE ~start_flusher_thread
      <4>1. UNCHANGED Abstract!vars
        BY <3>1, <3>2, Zenon DEF Abstract!vars
      <4> QED
        BY <2>1, <3>1, <3>2, <4>1, Zenon DEF StorageInv
    <3>3. CASE start_flusher_thread
      <4>1. WithFlusher /\ Numbered
        BY <3>3, Zenon DEF StorageInv
      <4>2. up /\ ~Down
        BY <1>0, <1>2, <2>3, FlagsNext, BoundsAssumption, Zenon DEF Down, Types
      <4>3. WithFlusher' /\ Numbered' /\ [Abstract!Next]_(Abstract!vars)
        BY <1>0, <1>2, <3>3, <4>1, <4>2, FlusherRunStep, Zenon
      <4> QED
        BY <2>1, <4>3, Zenon DEF StorageInv
    <3> QED
      BY <3>2, <3>3, Zenon
  <2> QED
    BY <2>2, <2>3, Zenon
<1> QED
  BY <1>1, <1>2, Zenon

\* Before the storage is opened there is nothing, concretely and abstractly.
LEMMA StorageStart == Init => StorageInv /\ Abstract!Init
<1> SUFFICES ASSUME Init PROVE StorageInv /\ Abstract!Init
  BY Zenon
<1>1. Types
  <2>1. pc \in [Threads -> Labels]
    BY Zenon DEF Init, Labels
  <2>2. local \in [Threads -> Locals]
    BY NoLocalsType, Zenon DEF Init
  <2> QED
    BY <2>1, <2>2, Empty, Zenon DEF Init, Types
<1>2. Flags /\ ~start_flusher_thread
  BY Zenon DEF Init, Flags
<1>3. Abstract!Init
  BY <1>2, Zenon DEF Abstract!Init
<1> QED
  BY <1>1, <1>2, <1>3, FileStart, Zenon DEF StorageInv

\* Within one run of the process (MaxRestarts = 0) JsonlAsyncStorage implements
\* Storage: accepted events get consecutive offsets, replay sees a growing prefix of
\* them in order, and all of them when close has closed the file.
THEOREM LogRefinement ==
  ASSUME MaxRestarts = 0
  PROVE  Spec => ImplementsStorage
<1>1. Init => StorageInv /\ Abstract!Init
  BY StorageStart, Zenon
<1>2. StorageInv /\ [Next]_vars => StorageInv' /\ [Abstract!Next]_(Abstract!vars)
  BY StorageStep, Zenon
<1> QED
  BY <1>1, <1>2, PTL DEF Spec, ImplementsStorage, Abstract!Spec

-----------------------------------------------------------------------------
(* Any number of runs.  What holds while the storage is open with a flusher,
   whatever was lost when it went down before. *)

LogInOrder == InOrder(Log) /\ \A i \in DOMAIN Log : Log[i].offset < next_offset

\* A reader has seen the committed events up to the last it got, once and in order,
\* and goes on behind it.
Seen == reader.seen
Shown(e) == Seen # <<>> /\ e.offset <= Seen[Len(Seen)].offset
ReaderInv ==
  /\ reader \in [next : Nat, seen : Seq(Events), done : BOOLEAN]
  /\ InOrder(Seen)
  /\ SeqRange(Seen) = {e \in SeqRange(committed_events) : Shown(e)}
  /\ ~reader.done => reader.next = IF Seen = <<>> THEN 0 ELSE Seen[Len(Seen)].offset + 1

\* The elements and the order of a concatenation.
LEMMA RangeJoined ==
  ASSUME NEW a \in Seq(Events), NEW b \in Seq(Events)
  PROVE  /\ SeqRange(a \o b) = SeqRange(a) \cup SeqRange(b)
         /\ PayloadsOf(a \o b) = PayloadsOf(a) \cup PayloadsOf(b)
         /\ SeqRange(a) \subseteq Events
<1>1. /\ a \o b \in Seq(Events) /\ Len(a \o b) = Len(a) + Len(b)
      /\ Len(a) \in Nat /\ Len(b) \in Nat
      /\ \A i \in 1..Len(a) : (a \o b)[i] = a[i]
      /\ \A i \in 1..Len(b) : (a \o b)[Len(a) + i] = b[i]
  BY SMTT(60)
<1>2. /\ DOMAIN a = 1..Len(a) /\ DOMAIN b = 1..Len(b) /\ DOMAIN (a \o b) = 1..(Len(a) + Len(b))
      /\ \A i \in 1..Len(a) : a[i] \in Events
  BY <1>1, Elements, Zenon
<1> DEFINE ab == a \o b
           n == Len(a)
           m == Len(b)
<1> HIDE DEF ab, n, m
<1>3. /\ n \in Nat /\ m \in Nat /\ DOMAIN a = 1..n /\ DOMAIN b = 1..m /\ DOMAIN ab = 1..(n + m)
      /\ \A i \in 1..n : ab[i] = a[i]
      /\ \A i \in 1..m : ab[n + i] = b[i]
  BY <1>1, <1>2, Zenon DEF ab, n, m
<1>4. ASSUME NEW i \in 1..(n + m) PROVE ab[i] \in SeqRange(a) \cup SeqRange(b)
  <2>1. CASE i \in 1..n
    BY <1>3, <2>1, Zenon DEF SeqRange
  <2>2. CASE i \notin 1..n
    <3>1. i - n \in 1..m /\ n + (i - n) = i
      BY <1>3, <2>2
    <3>2. ab[i] = b[i - n]
      BY <1>3, <3>1, Zenon
    <3> QED
      BY <1>3, <3>1, <3>2, Zenon DEF SeqRange
  <2> QED
    BY <2>1, <2>2, Zenon
<1>5. ASSUME NEW i \in 1..n PROVE a[i] \in SeqRange(ab)
  <2>1. i \in 1..(n + m)
    BY <1>3
  <2> QED
    BY <1>3, <2>1, Zenon DEF SeqRange
<1>6. ASSUME NEW i \in 1..m PROVE b[i] \in SeqRange(ab)
  <2>1. n + i \in 1..(n + m)
    BY <1>3
  <2> QED
    BY <1>3, <2>1, ZenonT(30) DEF SeqRange
<1>7. SeqRange(ab) = SeqRange(a) \cup SeqRange(b)
  <2>1. SeqRange(ab) \subseteq SeqRange(a) \cup SeqRange(b)
    BY <1>3, <1>4, Zenon DEF SeqRange
  <2>2. SeqRange(a) \subseteq SeqRange(ab) /\ SeqRange(b) \subseteq SeqRange(ab)
    BY <1>3, <1>5, <1>6, Zenon DEF SeqRange
  <2> QED
    BY <2>1, <2>2, Zenon
<1>8. PayloadsOf(ab) = PayloadsOf(a) \cup PayloadsOf(b)
  BY <1>7, Zenon DEF PayloadsOf
<1> QED
  BY <1>2, <1>7, <1>8, ZenonT(60) DEF ab, SeqRange

\* The parts of a sequence in offset order are in order, one behind the other.
LEMMA OrderOfParts ==
  ASSUME NEW a \in Seq(Events), NEW b \in Seq(Events), InOrder(a \o b)
  PROVE  /\ InOrder(a)
         /\ \A x \in SeqRange(a), y \in SeqRange(b) : x.offset < y.offset
<1>1. /\ a \o b \in Seq(Events) /\ Len(a \o b) = Len(a) + Len(b)
      /\ Len(a) \in Nat /\ Len(b) \in Nat
      /\ \A i \in 1..Len(a) : (a \o b)[i] = a[i]
      /\ \A i \in 1..Len(b) : (a \o b)[Len(a) + i] = b[i]
  BY SMTT(60)
<1> DEFINE ab == a \o b
           n == Len(a)
           m == Len(b)
<1>2. DOMAIN a = 1..n /\ DOMAIN b = 1..m /\ DOMAIN ab = 1..(n + m)
  BY <1>1, Elements, Zenon
<1> HIDE DEF ab, n, m
<1>3. /\ n \in Nat /\ m \in Nat
      /\ \A i \in 1..n : ab[i] = a[i]
      /\ \A i \in 1..m : ab[n + i] = b[i]
      /\ \A i, j \in 1..(n + m) : i < j => ab[i].offset < ab[j].offset
  BY <1>1, <1>2, Zenon DEF ab, n, m, InOrder
<1>4. ASSUME NEW i \in 1..n, NEW j \in 1..n, i < j PROVE a[i].offset < a[j].offset
  <2>1. i \in 1..(n + m) /\ j \in 1..(n + m)
    BY <1>3
  <2>2. ab[i].offset < ab[j].offset
    BY <1>3, <1>4, <2>1, Zenon
  <2> QED
    BY <1>3, <2>2, Zenon
<1>5. ASSUME NEW i \in 1..n, NEW j \in 1..m PROVE a[i].offset < b[j].offset
  <2>1. i \in 1..(n + m) /\ n + j \in 1..(n + m) /\ i < n + j
    BY <1>3
  <2>2. ab[i].offset < ab[n + j].offset
    BY <1>3, <2>1, Zenon
  <2> QED
    BY <1>3, <2>2, Zenon
<1> QED
  BY <1>2, <1>4, <1>5, Zenon DEF InOrder, SeqRange

\* And two such parts make a sequence in offset order.
LEMMA OrderOfWhole ==
  ASSUME NEW a \in Seq(Events), NEW b \in Seq(Events), InOrder(a), InOrder(b),
         \A x \in SeqRange(a), y \in SeqRange(b) : x.offset < y.offset
  PROVE  InOrder(a \o b)
<1>1. /\ a \o b \in Seq(Events) /\ Len(a \o b) = Len(a) + Len(b)
      /\ Len(a) \in Nat /\ Len(b) \in Nat
      /\ \A i \in 1..Len(a) : (a \o b)[i] = a[i]
      /\ \A i \in 1..Len(b) : (a \o b)[Len(a) + i] = b[i]
  BY SMTT(60)
<1> DEFINE ab == a \o b
           n == Len(a)
           m == Len(b)
<1>2. DOMAIN a = 1..n /\ DOMAIN b = 1..m /\ DOMAIN ab = 1..(n + m)
  BY <1>1, Elements, Zenon
<1> HIDE DEF ab, n, m
<1>3. /\ n \in Nat /\ m \in Nat
      /\ \A i \in 1..n : ab[i] = a[i]
      /\ \A i \in 1..m : ab[n + i] = b[i]
  BY <1>1, Zenon DEF ab, n, m
<1>4. /\ \A i, j \in 1..n : i < j => a[i].offset < a[j].offset
      /\ \A i, j \in 1..m : i < j => b[i].offset < b[j].offset
      /\ \A i \in 1..n, j \in 1..m : a[i].offset < b[j].offset
  BY <1>2, Zenon DEF InOrder, SeqRange
<1>5. ASSUME NEW i \in 1..(n + m), NEW j \in 1..(n + m), i < j PROVE ab[i].offset < ab[j].offset
  <2>1. CASE j \in 1..n
    <3>1. i \in 1..n
      BY <1>3, <1>5, <2>1, SMTT(60)
    <3> QED
      BY <1>3, <1>4, <1>5, <2>1, <3>1, Zenon
  <2>2. CASE i \in 1..n /\ j \notin 1..n
    <3>1. j - n \in 1..m /\ n + (j - n) = j
      BY <1>3, <2>2, SMTT(60)
    <3>2. ab[j] = b[j - n] /\ ab[i] = a[i]
      BY <1>3, <2>2, <3>1, Zenon
    <3> QED
      BY <1>4, <2>2, <3>1, <3>2, Zenon
  <2>3. CASE i \notin 1..n
    <3>1. i - n \in 1..m /\ n + (i - n) = i /\ j - n \in 1..m /\ n + (j - n) = j /\ i - n < j - n
      BY <1>3, <1>5, <2>3, SMTT(30)
    <3>2. ab[j] = b[j - n] /\ ab[i] = b[i - n]
      BY <1>3, <3>1, Zenon
    <3> QED
      BY <1>4, <3>1, <3>2, Zenon
  <2> QED
    BY <2>1, <2>2, <2>3, Zenon
<1> QED
  BY <1>2, <1>5, ZenonT(60) DEF InOrder, ab

\* What replay sees is the first part of Log.
LEMMA CommittedFirst ==
  ASSUME Types
  PROVE  \E rest \in Seq(Events) : Log = committed_events \o rest
<1>1. InFlight(Flusher) \in Seq(Events) /\ committed_events \in Seq(Events) /\ queue \in Seq(Events)
  BY LogType, Zenon DEF Types
<1>2. Log = committed_events \o (InFlight(Flusher) \o queue)
  BY <1>1, Brackets DEF Log
<1>3. InFlight(Flusher) \o queue \in Seq(Events)
  BY <1>1, Joined, Zenon
<1> QED
  BY <1>2, <1>3, ZenonT(60)

\* Offsets are handed out in the order of the log.
LEMMA LogInOrderStep ==
  ASSUME Types, LogInOrder, LogStep
  PROVE  LogInOrder'
<1>1. CASE Log' = Log /\ UNCHANGED <<next_offset, accepted, acked>>
  BY <1>1, Zenon DEF LogInOrder
<1>2. CASE /\ Log' = Append(Log, [offset |-> next_offset, payload |-> payloads])
           /\ next_offset' = next_offset + 1
  <2> DEFINE e == [offset |-> next_offset, payload |-> payloads]
             log == Log
  <2>1. e \in Events /\ log \in Seq(Events) /\ e.offset = next_offset /\ next_offset \in Nat
    BY LogType, Zenon DEF Types, Events
  <2>2. log' = Append(log, e) /\ next_offset' = next_offset + 1
    BY <1>2, Zenon
  <2>3. Len(log) \in Nat /\ DOMAIN log = 1..Len(log) /\ \A i \in 1..Len(log) : log[i] \in Events
    BY <2>1, Elements, Zenon
  <2>4. \A i \in 1..Len(log) : log[i].offset \in Nat /\ log[i].offset < next_offset
    BY <2>3, Zenon DEF LogInOrder, Events
  <2>5. \A i, j \in 1..Len(log) : i < j => log[i].offset < log[j].offset
    BY <2>3, ZenonT(60) DEF LogInOrder, InOrder
  <2> HIDE DEF e, log
  <2>6. /\ Append(log, e) \in Seq(Events) /\ Len(Append(log, e)) = Len(log) + 1
        /\ Append(log, e)[Len(log) + 1] = e
        /\ \A i \in 1..Len(log) : Append(log, e)[i] = log[i]
    <3>1. PICK l, x, S : l = log /\ x = e /\ S = Events
      BY Zenon
    <3>2. x \in S /\ l \in Seq(S)
      BY <2>1, <3>1, Zenon
    <3>3. /\ Append(l, x) \in Seq(S) /\ Len(Append(l, x)) = Len(l) + 1
          /\ Append(l, x)[Len(l) + 1] = x
          /\ \A i \in 1..Len(l) : Append(l, x)[i] = l[i]
      BY <3>2
    <3> QED
      BY <3>1, <3>3, Zenon
  <2>7. DOMAIN log' = 1..(Len(log) + 1)
    BY <2>2, <2>3, <2>6, Elements, Zenon
  <2>8. ASSUME NEW i \in 1..(Len(log) + 1)
        PROVE  /\ log'[i].offset < next_offset'
               /\ \A j \in 1..(Len(log) + 1) : i < j => log'[i].offset < log'[j].offset
    <3>1. i \in 1..Len(log) \/ i = Len(log) + 1
      BY <2>3
    <3>2. \A j \in 1..(Len(log) + 1) : j \in 1..Len(log) \/ j = Len(log) + 1
      BY <2>3
    <3>3. CASE i \in 1..Len(log)
      BY <2>1, <2>2, <2>4, <2>5, <2>6, <3>2, <3>3, SMTT(30)
    <3>4. CASE i = Len(log) + 1
      BY <2>1, <2>2, <2>3, <2>6, <3>4
    <3> QED
      BY <3>1, <3>3, <3>4, Zenon
  <2>9. InOrder(log') /\ \A i \in DOMAIN log' : log'[i].offset < next_offset'
    BY <2>7, <2>8, Zenon DEF InOrder
  <2> QED
    BY <2>9, Zenon DEF LogInOrder, log
<1> QED
  BY <1>1, <1>2, Zenon DEF LogStep
\* With a flusher only its commit changes what replay sees, and only replay moves
\* the reader.
LEMMA CommitStep ==
  ASSUME Types, WithFlusher, up, start_flusher_thread, Next
  PROVE  /\ ReplayPage \/ UNCHANGED reader
         /\ UNCHANGED committed_events \/ CommitEvents(Flusher)
<1> USE DEF queueVars, commitVars, fileVars, toldVars, boundVars, openVars
<1>1. ASSUME NEW c \in Clients PROVE ~CommitEvents(c)
  <2>1. pc[c] # "commit"
    BY Zenon DEF WithFlusher, ClientInv
  <2> QED
    BY <2>1, Zenon DEF CommitEvents
<1>2. CASE FlusherStep
  BY <1>2, Zenon DEF FlusherStep, FlusherDrain, DrainBatch, FlusherExit, WriteLines, WriteFails,
     CommitEvents, CountCommitted
<1>3. ASSUME NEW c \in Clients, AppendCheck(c) \/ Flush(c) \/ Close(c) \/ ClientStep(c)
      PROVE  UNCHANGED <<reader, committed_events>>
  BY <1>1, <1>3, ZenonT(60) DEF AppendCheck, Flush, Close, ClientStep, AppendPush, LoadAccepted,
     LoadCommitted, LoadQueued, Wake, Sync, DrainHere, DrainBatch, SleepHere, GiveUp, WriteLines,
     WriteFails, CountCommitted, Join, Shut
<1>4. CASE ReplayPage
  BY <1>4, Zenon DEF ReplayPage
<1>5. CASE Down
  BY <1>5, Zenon DEF Down
<1> QED
  BY <1>2, <1>3, <1>4, <1>5, Zenon DEF Next, Exit, Crash, Open

\* Committing a batch does not disturb the reader: it comes behind all it has seen.
LEMMA ReaderStays ==
  ASSUME Types, ReaderInv, UNCHANGED reader,
         NEW b \in Seq(Events), committed_events' = committed_events \o b, InOrder(committed_events')
  PROVE  ReaderInv'
<1> DEFINE old == committed_events
           new == committed_events'
<1>1. old \in Seq(Events)
  BY Zenon DEF Types
<1>2. InOrder(old) /\ \A x \in SeqRange(old), y \in SeqRange(b) : x.offset < y.offset
  BY <1>1, OrderOfParts, Zenon
<1>3. SeqRange(new) = SeqRange(old) \cup SeqRange(b)
  BY <1>1, RangeJoined, Zenon
<1>4. /\ Seen \in Seq(Events) /\ Len(Seen) \in Nat /\ DOMAIN Seen = 1..Len(Seen)
      /\ Seen # <<>> => Seen[Len(Seen)] \in SeqRange(Seen)
  <2>1. Seen \in Seq(Events)
    BY Zenon DEF ReaderInv, Seen
  <2>2. Len(Seen) \in Nat /\ DOMAIN Seen = 1..Len(Seen)
    BY <2>1, Elements, Zenon
  <2>3. Seen # <<>> => Len(Seen) \in 1..Len(Seen)
    BY <2>1, <2>2, Empty
  <2> QED
    BY <2>1, <2>2, <2>3, Zenon DEF SeqRange
<1>5. SeqRange(Seen) = {e \in SeqRange(old) : Shown(e)}
  BY Zenon DEF ReaderInv
<1>6. \A e \in SeqRange(b) : ~Shown(e)
  <2> SUFFICES ASSUME NEW e \in SeqRange(b), Shown(e) PROVE FALSE
    BY Zenon
  <2>1. Seen[Len(Seen)] \in SeqRange(old) /\ e.offset <= Seen[Len(Seen)].offset
    BY <1>4, <1>5, ZenonT(30) DEF Shown
  <2>2. Seen[Len(Seen)].offset < e.offset
    BY <1>2, <2>1, Zenon
  <2>3. e \in Events /\ Seen[Len(Seen)] \in Events
    BY <1>1, <2>1, RangeJoined, Zenon
  <2> QED
    BY <2>1, <2>2, <2>3 DEF Events
<1>7. Seen' = Seen /\ \A e : Shown(e)' = Shown(e)
  BY Zenon DEF Seen, Shown
<1>8. SeqRange(Seen) = {e \in SeqRange(new) : Shown(e)}
  BY <1>3, <1>5, <1>6, Zenon
<1> HIDE DEF new
<1>9. SeqRange(Seen') = {e \in SeqRange(new) : Shown(e)'}
  BY <1>7, <1>8, Zenon
<1> QED
  BY <1>7, <1>9, Zenon DEF ReaderInv, new

\* A page takes the reader on to the last event of the page.
LEMMA ReaderPages ==
  ASSUME Types, ReaderInv, InOrder(committed_events), ReplayPage
  PROVE  ReaderInv'
<1> USE DEF queueVars, commitVars, fileVars, toldVars, boundVars, openVars
<1> DEFINE ce == committed_events
           matching == Matching
<1>1. ~reader.done /\ UNCHANGED ce
  BY Zenon DEF ReplayPage
<1>2. PICK n \in 0..PageSize : \E a \in [1..n -> matching] :
        LET page == [k \in 1..n |-> ce[a[k]]]
            rest == matching \ {a[k] : k \in 1..n}
        IN /\ \A k, l \in 1..n : k < l => a[k] < a[l]
           /\ \A k \in 1..n, i \in rest : a[k] < i
           /\ n = PageSize \/ rest = {}
           /\ reader' = [next |-> IF rest = {} THEN reader.next ELSE AfterPage(page),
                          seen |-> reader.seen \o page,
                          done |-> rest = {}]
  BY ZenonT(60) DEF ReplayPage
<1>3. PICK at \in [1..n -> matching] :
        LET page == [k \in 1..n |-> ce[at[k]]]
            rest == matching \ {at[k] : k \in 1..n}
        IN /\ \A k, l \in 1..n : k < l => at[k] < at[l]
           /\ \A k \in 1..n, i \in rest : at[k] < i
           /\ n = PageSize \/ rest = {}
           /\ reader' = [next |-> IF rest = {} THEN reader.next ELSE AfterPage(page),
                          seen |-> reader.seen \o page,
                          done |-> rest = {}]
  BY <1>2, ZenonT(60)
<1> DEFINE page == [k \in 1..n |-> ce[at[k]]]
           rest == matching \ {at[k] : k \in 1..n}
           next == reader.next
<1>4. /\ \A k, l \in 1..n : k < l => at[k] < at[l]
      /\ \A k \in 1..n, i \in rest : at[k] < i
      /\ n = PageSize \/ rest = {}
      /\ reader' = [next |-> IF rest = {} THEN next ELSE AfterPage(page),
                     seen |-> reader.seen \o page, done |-> rest = {}]
  BY <1>3, Zenon
<1>5. /\ ce \in Seq(Events) /\ Len(ce) \in Nat /\ DOMAIN ce = 1..Len(ce)
      /\ \A i \in 1..Len(ce) : ce[i] \in Events /\ ce[i].offset \in Nat
  <2>1. ce \in Seq(Events)
    BY Zenon DEF Types
  <2>2. \A e \in Events : e.offset \in Nat
    BY Zenon DEF Events
  <2> QED
    BY <2>1, <2>2, Elements, Zenon
<1>6. /\ PageSize \in Nat \ {0} /\ n \in Nat /\ next \in Nat /\ Seen \in Seq(Events)
      /\ \A i, j \in 1..Len(ce) : i < j => ce[i].offset < ce[j].offset
  <2>1. /\ reader \in [next : Nat, seen : Seq(Events), done : BOOLEAN]
        /\ PageSize \in Nat \ {0} /\ InOrder(ce)
    BY ConfigAssumption, Zenon DEF ReaderInv
  <2>2. next \in Nat /\ Seen \in Seq(Events)
    BY <2>1, Zenon DEF Seen
  <2>3. \A i, j \in 1..Len(ce) : i < j => ce[i].offset < ce[j].offset
    BY <1>5, <2>1, Zenon DEF InOrder
  <2>4. n \in Nat
    BY <1>2, <2>1
  <2> QED
    BY <2>1, <2>2, <2>3, <2>4, Zenon
<1>7. \A i : i \in matching <=> i \in 1..Len(ce) /\ ce[i].offset >= next
  BY <1>5, Zenon DEF Matching
<1>8. \A k \in 1..n : at[k] \in matching /\ at[k] \in 1..Len(ce) /\ page[k] = ce[at[k]] /\ page[k].offset >= next
  BY <1>3, <1>7, Zenon
<1>9. /\ page \in Seq(Events) /\ Len(page) = n /\ DOMAIN page = 1..n
      /\ \A k \in 1..n : page[k] \in Events /\ page[k].offset \in Nat
  <2>1. \A k \in 1..n : ce[at[k]] \in Events /\ ce[at[k]].offset \in Nat
    BY <1>5, <1>8, Zenon
  <2> HIDE DEF ce
  <2> QED
    BY <1>6, <2>1
<1>10. \A k, l \in 1..n : k < l => page[k].offset < page[l].offset
  BY <1>4, <1>6, <1>8, Zenon
<1>11. Seen' = Seen \o page
  BY <1>4, Zenon DEF Seen
<1> HIDE DEF page, rest, matching, next, ce
<1>12. ASSUME NEW e \in SeqRange(Seen) PROVE e.offset < next /\ e \in Events
  <2>1. SeqRange(Seen) = {x \in SeqRange(ce) : Shown(x)} /\ (~reader.done => next = IF Seen = <<>> THEN 0 ELSE Seen[Len(Seen)].offset + 1)
    BY Zenon DEF ReaderInv, ce, next
  <2>2. Shown(e) /\ e \in SeqRange(ce)
    BY <2>1, Zenon
  <2>3. next = Seen[Len(Seen)].offset + 1 /\ e.offset <= Seen[Len(Seen)].offset
    BY <1>1, <2>1, <2>2, Zenon DEF Shown
  <2>4. e \in Events /\ Len(Seen) \in 1..Len(Seen) /\ Seen[Len(Seen)] \in Events
    BY <1>5, <1>6, <2>2, RangeJoined, Elements, Empty DEF Shown
  <2> QED
    BY <2>3, <2>4 DEF Events
<1>13. \A e \in SeqRange(ce) : (e.offset < next) <=> e \in SeqRange(Seen)
  <2>1. SeqRange(Seen) = {x \in SeqRange(ce) : Shown(x)} /\ (~reader.done => next = IF Seen = <<>> THEN 0 ELSE Seen[Len(Seen)].offset + 1)
    BY Zenon DEF ReaderInv, ce, next
  <2>2. ASSUME NEW e \in SeqRange(ce), e.offset < next PROVE Shown(e)
    <3>1. e \in Events /\ e.offset \in Nat
      BY <1>5, <2>2, Zenon DEF SeqRange
    <3>2. Seen # <<>>
      BY <1>1, <2>1, <2>2, <3>1, SMTT(30)
    <3>3. next = Seen[Len(Seen)].offset + 1
      BY <1>1, <2>1, <3>2, Zenon
    <3>4. Seen[Len(Seen)].offset \in Nat
      <4>1. Len(Seen) \in 1..Len(Seen)
        BY <1>6, <3>2, Elements, Empty, SMTT(30)
      <4>2. Seen[Len(Seen)] \in Events
        BY <1>6, <4>1, Elements, Zenon
      <4> QED
        BY <4>2, Zenon DEF Events
    <3> QED
      BY <2>2, <3>1, <3>2, <3>3, <3>4, SMTT(30) DEF Shown
  <2> QED
    BY <1>12, <2>1, <2>2, Zenon
<1>14. InOrder(Seen')
  <2>1. InOrder(Seen) /\ InOrder(page)
    BY <1>9, <1>10, Zenon DEF ReaderInv, InOrder
  <2>2. \A x \in SeqRange(Seen), y \in SeqRange(page) : x.offset < y.offset
    <3> SUFFICES ASSUME NEW x \in SeqRange(Seen), NEW k \in 1..n PROVE x.offset < page[k].offset
      BY <1>9, Zenon DEF SeqRange
    <3>1. x.offset < next /\ x.offset \in Nat
      BY <1>12, Zenon DEF Events
    <3>2. page[k].offset >= next /\ page[k].offset \in Nat
      BY <1>8, <1>9, Zenon
    <3> QED
      BY <1>6, <3>1, <3>2, SMTT(30)
  <2> QED
    BY <1>6, <1>9, <1>11, <2>1, <2>2, OrderOfWhole, Zenon
<1>15. CASE n = 0
  <2>1. page = <<>> /\ rest = {}
    BY <1>4, <1>6, <1>9, <1>15, Empty, ZenonT(60)
  <2>2. Seen' = Seen
    BY <1>6, <1>11, <2>1, WithEmpty, Zenon
  <2>3. reader' = [next |-> next, seen |-> Seen, done |-> TRUE]
    BY <1>4, <1>11, <2>1, <2>2, Zenon DEF Seen
  <2>4. \A e : Shown(e)' = Shown(e)
    BY <2>2, ZenonT(30) DEF Shown
  <2>5. reader' \in [next : Nat, seen : Seq(Events), done : BOOLEAN]
    BY <1>6, <2>3, Zenon
  <2>6. SeqRange(Seen') = {e \in SeqRange(ce') : Shown(e)'}
    BY <1>1, <2>2, <2>4, Zenon DEF ReaderInv, ce
  <2>7. reader'.done
    BY <2>3, Zenon
  <2> QED
    BY <1>14, <2>5, <2>6, <2>7, Zenon DEF ReaderInv, ce
<1>16. CASE n # 0
  <2> DEFINE last == page[n].offset
  <2>1. n \in 1..n /\ last \in Nat
    BY <1>6, <1>9, <1>16, SMTT(30)
  <2>2. /\ Seen' \in Seq(Events) /\ Len(Seen') = Len(Seen) + n /\ Seen' # <<>>
        /\ Seen'[Len(Seen')] = page[n]
    <3>1. /\ Seen \o page \in Seq(Events) /\ Len(Seen \o page) = Len(Seen) + Len(page) /\ Len(Seen) \in Nat
          /\ \A i \in 1..Len(page) : (Seen \o page)[Len(Seen) + i] = page[i]
      <4>1. Seen \in Seq(Events) /\ page \in Seq(Events)
        BY <1>6, <1>9, Zenon
      <4> QED
        BY <4>1, Joined, SMTT(30)
    <3>2. Len(Seen) + n # 0
      BY <1>6, <1>16, <3>1
    <3> QED
      BY <1>9, <1>11, <2>1, <3>1, <3>2, Empty, SMTT(30)
  <2>3. \A e : Shown(e)' <=> e.offset <= last
    BY <2>2, ZenonT(30) DEF Shown
  <2>4. ASSUME NEW e \in SeqRange(ce)
        PROVE  e \in SeqRange(Seen) \cup SeqRange(page) <=> e.offset <= last
    <3>1. PICK i \in 1..Len(ce) : e = ce[i]
      BY <1>5, Zenon DEF SeqRange
    <3>2. e.offset \in Nat
      BY <1>5, <3>1, Zenon
    <3>3. CASE e.offset < next
      <4>1. e \in SeqRange(Seen) /\ e.offset <= last
        BY <1>6, <1>8, <1>13, <2>1, <3>2, <3>3, SMTT(60)
      <4> QED
        BY <4>1, Zenon
    <3>4. CASE ~(e.offset < next)
      <4>1. i \in matching /\ e \notin SeqRange(Seen)
        BY <1>6, <1>7, <1>13, <3>1, <3>2, <3>4, SMTT(60)
      <4>2. CASE \E k \in 1..n : at[k] = i
        <5>1. PICK k \in 1..n : at[k] = i
          BY <4>2, Zenon
        <5>2. e = page[k]
          BY <1>8, <3>1, <5>1, Zenon
        <5>3. e.offset <= last
          BY <1>6, <1>9, <1>10, <2>1, <5>2, SMTT(60)
        <5> QED
          BY <1>9, <5>2, <5>3 DEF SeqRange
      <4>3. CASE ~(\E k \in 1..n : at[k] = i)
        <5>1. i \in rest
          BY <4>1, <4>3, Zenon DEF rest
        <5>2. at[n] < i /\ at[n] \in 1..Len(ce)
          BY <1>4, <1>8, <2>1, <5>1, Zenon
        <5>3. last < e.offset
          BY <1>6, <1>8, <2>1, <3>1, <5>2, Zenon
        <5>4. ASSUME NEW k \in 1..n PROVE page[k] # e
          <6>1. page[k].offset <= last
            BY <1>6, <1>9, <1>10, <2>1, SMTT(30)
          <6> QED
            BY <1>9, <2>1, <3>2, <5>3, <6>1, SMTT(30)
        <5>5. e \notin SeqRange(page)
          BY <1>9, <5>4, Zenon DEF SeqRange
        <5> QED
          BY <2>1, <3>2, <4>1, <5>3, <5>5, SMTT(30)
      <4> QED
        BY <4>2, <4>3, Zenon
    <3> QED
      BY <3>3, <3>4, Zenon
  <2>5. SeqRange(Seen') = SeqRange(Seen) \cup SeqRange(page)
    BY <1>6, <1>9, <1>11, RangeJoined, Zenon
  <2>6. SeqRange(Seen) \subseteq SeqRange(ce) /\ SeqRange(page) \subseteq SeqRange(ce)
    <3>1. SeqRange(Seen) \subseteq SeqRange(ce)
      BY ZenonT(60) DEF ReaderInv, ce
    <3>2. SeqRange(page) \subseteq SeqRange(ce)
      BY <1>5, <1>8, <1>9 DEF SeqRange
    <3> QED
      BY <3>1, <3>2, Zenon
  <2>7. SeqRange(Seen') = {e \in SeqRange(ce) : e.offset <= last}
    BY <2>4, <2>5, <2>6, Zenon
  <2>8. SeqRange(Seen') = {e \in SeqRange(ce') : Shown(e)'}
    BY <1>1, <2>3, <2>7, ZenonT(30)
  <2>9. AfterPage(page) = last + 1
    BY <1>9, Zenon DEF AfterPage
  <2>10. reader' \in [next : Nat, seen : Seq(Events), done : BOOLEAN]
    <3>1. reader'.seen = Seen' /\ reader'.done \in BOOLEAN /\ reader'.next \in Nat
      BY <1>4, <1>6, <2>1, <2>9, SMTT(30) DEF Seen
    <3>2. reader' = [next |-> reader'.next, seen |-> reader'.seen, done |-> reader'.done]
      BY <1>4, Zenon
    <3> QED
      BY <2>2, <3>1, <3>2, Zenon
  <2>11. ~reader'.done => reader'.next = Seen'[Len(Seen')].offset + 1
    BY <1>4, <2>2, <2>9, ZenonT(30)
  <2> QED
    BY <1>14, <2>2, <2>8, <2>10, <2>11, ZenonT(60) DEF ReaderInv, ce
<1> QED
  BY <1>15, <1>16, Zenon

-----------------------------------------------------------------------------
(* The file over all runs *)

\* A step leaves the file alone or writes from a batch.
LEMMA FileSteps ==
  ASSUME Types, FileInv, Next
  PROVE  /\ \/ UNCHANGED <<lines, unterminated>>
            \/ \E t \in Threads : \E f :
                 /\ FromBatch(f, Batch(t)) /\ lines' = Written(f)
                 /\ unterminated' \in BOOLEAN /\ (f = <<>> => unterminated' = unterminated)
         /\ failures' = failures \/ failures' = failures + 1
<1> USE DEF queueVars, commitVars, fileVars, toldVars, boundVars, openVars
<1> DEFINE Goal == /\ \/ UNCHANGED <<lines, unterminated>>
                      \/ \E t \in Threads : \E f :
                           /\ FromBatch(f, Batch(t)) /\ lines' = Written(f)
                           /\ unterminated' \in BOOLEAN /\ (f = <<>> => unterminated' = unterminated)
                   /\ failures' = failures \/ failures' = failures + 1
<1>1. ASSUME NEW t \in Threads, WriteLines(t) \/ WriteFails(t) PROVE Goal
  <2>1. failures' = failures \/ failures' = failures + 1
    BY <1>1, Zenon DEF WriteLines, WriteFails
  <2>2. \E f : /\ FromBatch(f, Batch(t)) /\ lines' = Written(f)
               /\ unterminated' \in BOOLEAN /\ (f = <<>> => unterminated' = unterminated)
    BY <1>1, WriteSteps, Zenon
  <2> QED
    BY <2>1, <2>2, Zenon
<1>2. CASE Crash
  <2>1. failures' = failures
    BY <1>2, Zenon DEF Crash, Down
  <2> QED
    BY <1>2, <2>1, FileCrash, Zenon
<1>3. CASE Open \/ ReplayPage \/ Exit
  BY <1>3, Zenon DEF Open, ReplayPage, Exit, Down
<1>4. CASE FlusherStep
  <2>1. Flusher \in Threads
    BY Zenon DEF Threads
  <2>2. CASE FlusherDrain \/ FlusherExit \/ CommitEvents(Flusher) \/ CountCommitted(Flusher)
    BY <2>2, Zenon DEF FlusherDrain, DrainBatch, FlusherExit, CommitEvents, CountCommitted
  <2> QED
    BY <1>1, <1>4, <2>1, <2>2, Zenon DEF FlusherStep
<1>5. ASSUME NEW c \in Clients, AppendCheck(c) \/ Flush(c) \/ Close(c) \/ ClientStep(c) PROVE Goal
  <2>1. c \in Threads
    BY Zenon DEF Threads
  <2>2. CASE WriteLines(c) \/ WriteFails(c)
    BY <1>1, <2>1, <2>2, Zenon
  <2>3. CASE ~(WriteLines(c) \/ WriteFails(c))
    BY <1>5, <2>3, ZenonT(60) DEF AppendCheck, Flush, Close, ClientStep, AppendPush, LoadAccepted,
       LoadCommitted, LoadQueued, Wake, Sync, DrainHere, DrainBatch, SleepHere, GiveUp,
       CommitEvents, CountCommitted, Join, Shut
  <2> QED
    BY <2>2, <2>3, Zenon
<1> QED
  BY <1>2, <1>3, <1>4, <1>5, Zenon DEF Next

\* A file that is undamaged after a step was so before, and has lost nothing.
LEMMA StoredGrows ==
  ASSUME Types, FileInv, Next, Undamaged'
  PROVE  Undamaged /\ Stored \subseteq Stored'
<1>1. Whole' /\ failures = 0
  <2>1. failures' = 0 /\ Whole'
    BY Zenon DEF Undamaged, Whole
  <2> QED
    BY <2>1, FileSteps DEF Types
<1>2. CASE UNCHANGED <<lines, unterminated>>
  <2>1. Whole /\ Stored' = Stored
    BY <1>1, <1>2, Zenon DEF Whole, Stored, Parsed
  <2> QED
    BY <1>1, <2>1, Zenon DEF Undamaged, Whole
<1>3. ASSUME NEW t \in Threads, NEW f, FromBatch(f, Batch(t)), lines' = Written(f),
             unterminated' \in BOOLEAN, f = <<>> => unterminated' = unterminated
      PROVE  Undamaged /\ Stored \subseteq Stored'
  <2>1. Batch(t) \in Seq(Events) /\ FileType
    BY Zenon DEF Types, Locals, Batch, FileInv
  <2>2. Whole /\ \A i \in Parsed : i \in Parsed' /\ lines'[i] = lines[i]
    BY <1>1, <1>3, <2>1, FileStep, Zenon
  <2>3. Stored \subseteq Stored'
    BY <2>2, Zenon DEF Stored
  <2> QED
    BY <1>1, <2>2, <2>3, Zenon DEF Undamaged, Whole
<1> QED
  BY <1>2, <1>3, FileSteps, Zenon

\* The payloads of a sequence are in the file.
InFile(s) == PayloadsOf(s) \subseteq Stored

\* While the file is undamaged the stream is good, what is committed is in the file,
\* and so is the batch that is about to be.
WriteInv ==
  Undamaged => /\ good /\ InFile(committed_events)
               /\ pc[Flusher] = "commit" => InFile(Batch(Flusher))

\* Writing all of a batch puts it into the file.
LEMMA BatchInFile ==
  ASSUME Types, FileInv, WriteLines(Flusher), good, is_open, Whole'
  PROVE  PayloadsOf(Batch(Flusher)) \subseteq Stored'
<1> DEFINE b == Batch(Flusher)
<1>1. Flusher \in Threads /\ b \in Seq(Events) /\ FileType
  BY Zenon DEF Types, Threads, Locals, Batch, FileInv
<1> HIDE DEF b
<1>2. PICK f : /\ FromBatch(f, b) /\ lines' = Written(f)
               /\ unterminated' \in BOOLEAN /\ (f = <<>> => unterminated' = unterminated)
               /\ f = b
  BY <1>1, WriteSteps, Zenon DEF b
<1>3. \A k \in 1..Len(b) : \E i \in Parsed' : lines'[i] = <<b[k]>>
  BY <1>1, <1>2, FileStep, ZenonT(60)
<1>4. ASSUME NEW k \in 1..Len(b) PROVE b[k].payload \in Stored'
  <2>1. PICK i \in Parsed' : lines'[i] = <<b[k]>>
    BY <1>3, ZenonT(60)
  <2>2. lines'[i][1] = b[k]
    BY <2>1
  <2> QED
    BY <2>1, <2>2, Zenon DEF Stored
<1>5. DOMAIN b = 1..Len(b)
  BY <1>1, Elements, Zenon
<1> QED
  BY <1>4, <1>5, Zenon DEF PayloadsOf, SeqRange, b

\* Steps of clients leave the flusher, the other clients and the stream alone.
LEMMA ClientFrame ==
  ASSUME Types, WithFlusher, up, start_flusher_thread,
         NEW c \in Clients, AppendCheck(c) \/ Flush(c) \/ Close(c) \/ ClientStep(c)
  PROVE  /\ \A t \in Threads : t # c => pc'[t] = pc[t] /\ local'[t] = local[t]
         /\ UNCHANGED <<committed, committed_events, lines, unterminated, failures, good>>
<1> USE DEF queueVars, commitVars, fileVars, toldVars, boundVars, openVars
<1>0. c \in Threads
  BY Zenon DEF Threads
<1>1. pc[c] \notin {"drain", "write", "commit", "count"}
  BY Zenon DEF WithFlusher, ClientInv
<1>2. ~(\/ DrainHere(c) \/ SleepHere(c) \/ GiveUp(c) \/ WriteLines(c)
        \/ WriteFails(c) \/ CommitEvents(c) \/ CountCommitted(c))
  BY <1>1, Zenon DEF DrainHere, SleepHere, GiveUp, WriteLines, WriteFails,
     CommitEvents, CountCommitted
<1>3. UNCHANGED <<committed, committed_events, lines, unterminated, failures, good>>
  BY <1>2, ZenonT(60) DEF AppendCheck, Flush, Close, ClientStep, AppendPush, LoadAccepted,
     LoadCommitted, LoadQueued, Wake, Sync, Join, Shut
<1>4. ASSUME NEW t \in Threads, t # c PROVE local'[t] = local[t]
  <2>1. CASE Flush(c)
    <3>1. local' = [local EXCEPT ![c].goal = acked, ![c].last_try = FALSE]
      BY <2>1, Zenon DEF Flush
    <3> QED
      BY <1>4, <3>1, Zenon DEF Types
  <2>2. CASE LoadAccepted(c)
    <3>1. local' = [local EXCEPT ![c].accepted = accepted]
      BY <2>2, Zenon DEF LoadAccepted
    <3> QED
      BY <1>4, <3>1, Zenon DEF Types
  <2>3. CASE LoadCommitted(c)
    <3>1. local' = [local EXCEPT ![c].committed = committed]
      BY <2>3, Zenon DEF LoadCommitted
    <3> QED
      BY <1>4, <3>1, Zenon DEF Types
  <2>4. CASE Wake(c)
    <3>1. PICK timeout : local' = [local EXCEPT ![c].last_try = timeout]
      BY <2>4, Zenon DEF Wake
    <3> QED
      BY <1>4, <3>1, Zenon DEF Types
  <2>5. CASE Shut(c)
    <3>1. local' = [local EXCEPT ![c].closing = FALSE]
      BY <2>5, Zenon DEF Shut
    <3> QED
      BY <1>4, <3>1, Zenon DEF Types
  <2>6. CASE AppendCheck(c) \/ Close(c) \/ AppendPush(c) \/ LoadQueued(c) \/ Sync(c) \/ Join(c)
    <3>1. UNCHANGED local
      BY <2>6, Zenon DEF AppendCheck, Close, AppendPush, LoadQueued, Sync, Join
    <3> QED
      BY <3>1, Zenon
  <2> QED
    BY <1>2, <2>1, <2>2, <2>3, <2>4, <2>5, <2>6, ZenonT(60) DEF ClientStep
<1>5. \E label : Goto(c, label)
  BY <1>2, ZenonT(60) DEF AppendCheck, Flush, Close, ClientStep, AppendPush, LoadAccepted,
     LoadCommitted, LoadQueued, ReturnFlush, Wake, Sync, Join, Shut
<1>6. ASSUME NEW t \in Threads, t # c PROVE pc'[t] = pc[t]
  BY <1>5, <1>6, Zenon DEF Goto, Types
<1> QED
  BY <1>3, <1>4, <1>6, ZenonT(60)

\* The flusher commits only what it has written.
LEMMA WriteInvStep ==
  ASSUME Types, FileInv, WithFlusher, up, start_flusher_thread, WriteInv, Next, ~Down
  PROVE  WriteInv'
<1> USE DEF queueVars, commitVars, fileVars, toldVars, boundVars, openVars
<1> SUFFICES ASSUME Undamaged'
             PROVE  /\ good' /\ PayloadsOf(committed_events') \subseteq Stored'
                    /\ pc'[Flusher] = "commit" => PayloadsOf(Batch(Flusher)') \subseteq Stored'
  BY Zenon DEF WriteInv, InFile
<1>1. /\ Stored \subseteq Stored' /\ good /\ PayloadsOf(committed_events) \subseteq Stored
      /\ pc[Flusher] = "commit" => PayloadsOf(Batch(Flusher)) \subseteq Stored
  BY StoredGrows, Zenon DEF WriteInv, InFile
<1>2. ASSUME UNCHANGED <<good, committed_events>>,
             pc'[Flusher] = "commit" => pc[Flusher] = "commit" /\ Batch(Flusher)' = Batch(Flusher)
      PROVE  /\ good' /\ PayloadsOf(committed_events') \subseteq Stored'
             /\ pc'[Flusher] = "commit" => PayloadsOf(Batch(Flusher)') \subseteq Stored'
  BY <1>1, <1>2, Zenon
<1>3. Flusher \in Threads /\ pc \in [Threads -> Labels] /\ local \in [Threads -> Locals]
  BY Zenon DEF Types, Threads
<1>4. CASE ReplayPage
  BY <1>2, <1>4, Zenon DEF ReplayPage, Batch
<1>5. ASSUME NEW c \in Clients, AppendCheck(c) \/ Flush(c) \/ Close(c) \/ ClientStep(c)
      PROVE  /\ UNCHANGED <<good, committed_events>>
             /\ pc'[Flusher] = "commit" => pc[Flusher] = "commit" /\ Batch(Flusher)' = Batch(Flusher)
  <2>1. /\ \A t \in Threads : t # c => pc'[t] = pc[t] /\ local'[t] = local[t]
        /\ UNCHANGED <<committed, committed_events, lines, unterminated, failures, good>>
    BY <1>5, ClientFrame, Zenon
  <2>2. Flusher # c
    BY ThreadsAssumption, Zenon
  <2> QED
    BY <1>3, <2>1, <2>2, ZenonT(60) DEF Batch
<1>6. CASE FlusherDrain \/ FlusherExit \/ CountCommitted(Flusher)
  <2>1. UNCHANGED <<good, committed_events>>
    BY <1>6, Zenon DEF FlusherDrain, DrainBatch, FlusherExit, CountCommitted
  <2>2. Goto(Flusher, "write") \/ Goto(Flusher, "exited") \/ Goto(Flusher, "idle")
    BY <1>6, Zenon DEF FlusherDrain, DrainBatch, FlusherExit, CountCommitted
  <2>3. pc'[Flusher] # "commit"
    BY <1>3, <2>2, Zenon DEF Goto
  <2> QED
    BY <1>2, <2>1, <2>3, Zenon
<1>7. CASE CommitEvents(Flusher)
  <2>1. pc[Flusher] = "commit" /\ Goto(Flusher, "count") /\ UNCHANGED good
    BY <1>7, Zenon DEF CommitEvents
  <2>2. committed_events' = committed_events \o Batch(Flusher)
    BY <1>7, ZenonT(60) DEF CommitEvents, Batch
  <2>3. committed_events \in Seq(Events) /\ Batch(Flusher) \in Seq(Events)
    BY <1>3, Zenon DEF Types, Batch, Locals
  <2>4. PayloadsOf(committed_events') = PayloadsOf(committed_events) \cup PayloadsOf(Batch(Flusher))
    BY <2>2, <2>3, RangeJoined, Zenon
  <2>5. pc'[Flusher] = "count"
    BY <1>3, <2>1, Zenon DEF Goto
  <2> QED
    BY <1>1, <2>1, <2>4, <2>5, Zenon
<1>8. CASE WriteLines(Flusher)
  <2>1. pc[Flusher] = "write" /\ UNCHANGED <<committed_events, local>> /\ good' = (good /\ is_open)
    BY <1>8, Zenon DEF WriteLines
  <2>2. is_open
    BY <2>1, Zenon DEF WithFlusher, FlusherInv
  <2>3. Whole'
    BY Zenon DEF Undamaged, Whole
  <2>4. PayloadsOf(Batch(Flusher)) \subseteq Stored'
    BY <1>1, <1>8, <2>2, <2>3, BatchInFile, Zenon
  <2>5. Batch(Flusher)' = Batch(Flusher)
    BY <2>1, Zenon DEF Batch
  <2> QED
    BY <1>1, <2>1, <2>2, <2>4, <2>5, Zenon
<1>9. ~WriteFails(Flusher)
  <2> SUFFICES ASSUME WriteFails(Flusher) PROVE FALSE
    BY Zenon
  <2>1. failures' = failures + 1 /\ failures' = 0
    BY Zenon DEF WriteFails, Undamaged
  <2> QED
    BY <2>1 DEF Types
<1> QED
  BY <1>2, <1>4, <1>5, <1>6, <1>7, <1>8, <1>9, ZenonT(60) DEF Next, FlusherStep, Exit, Crash, Open

-----------------------------------------------------------------------------
(* The counters flush compares *)

\* What a client in flush knows: its events are among the first local.accepted of
\* the log, and the first local.committed are committed.
Vouched(c) ==
  /\ pc[c] \in {"accepted", "wait"} => local[c].goal \subseteq acked
  /\ pc[c] \in {"committed", "queued"} =>
       /\ local[c].accepted <= Len(Log)
       /\ \A p \in local[c].goal : \E i \in 1..local[c].accepted : Log[i].payload = p
  /\ pc[c] = "queued" => local[c].committed <= Len(committed_events)
  /\ pc[c] = "sync" => local[c].goal \subseteq PayloadsOf(committed_events)

\* committed_events_ runs ahead of committed_ only, and the two agree once the
\* flusher has counted its batch.
Counted ==
  /\ committed <= Len(committed_events)
  /\ pc[Flusher] = "count" => committed + Len(Batch(Flusher)) <= Len(committed_events)

CountInv ==
  /\ accepted = Len(Log) /\ acked = PayloadsOf(Log)
  /\ Counted
  /\ \A c \in Clients : Vouched(c)

\* One sequence continues another.
Continues(b, a) == Len(a) <= Len(b) /\ \A i \in 1..Len(a) : b[i] = a[i]

\* The log only grows, and the counter and the acknowledged events with it.
LEMMA LogGrows ==
  ASSUME Types, LogStep, accepted = Len(Log), acked = PayloadsOf(Log)
  PROVE  /\ accepted' = Len(Log') /\ acked' = PayloadsOf(Log') /\ acked \subseteq acked'
         /\ Continues(Log', Log)
<1>1. CASE Log' = Log /\ UNCHANGED <<next_offset, accepted, acked>>
  <2>1. Len(Log) \in Nat
    BY LogType, Elements, Zenon
  <2> QED
    BY <1>1, <2>1 DEF Continues
<1>2. CASE /\ Log' = Append(Log, [offset |-> next_offset, payload |-> payloads])
           /\ accepted' = accepted + 1 /\ acked' = acked \cup {payloads}
  <2> DEFINE e == [offset |-> next_offset, payload |-> payloads]
             log == Log
  <2>1. e \in Events /\ log \in Seq(Events) /\ e.payload = payloads
    BY LogType, Zenon DEF Types, Events
  <2>2. log' = Append(log, e) /\ accepted = Len(log) /\ acked = PayloadsOf(log)
    BY <1>2, Zenon
  <2> HIDE DEF e, log
  <2>3. /\ Len(log') = Len(log) + 1 /\ Len(log) \in Nat
        /\ \A i \in 1..Len(log) : log'[i] = log[i]
        /\ <<e>> \in Seq(Events) /\ log' = log \o <<e>>
    BY <2>1, <2>2, Appended, Elements
  <2>4. PayloadsOf(log') = PayloadsOf(log) \cup PayloadsOf(<<e>>)
    BY <2>1, <2>3, RangeJoined, ZenonT(60)
  <2>5. PayloadsOf(<<e>>) = {payloads}
    <3>1. DOMAIN <<e>> = {1} /\ <<e>>[1] = e
      BY SMTT(30)
    <3> QED
      BY <2>1, <3>1, Zenon DEF PayloadsOf, SeqRange
  <2>6. accepted' = Len(log')
    BY <1>2, <2>2, <2>3, Zenon
  <2>7. Continues(log', log)
    BY <2>3 DEF Continues
  <2> QED
    BY <1>2, <2>2, <2>4, <2>5, <2>6, <2>7, ZenonT(30) DEF log
<1> QED
  BY <1>1, <1>2, Zenon DEF LogStep

\* So do the committed events.
LEMMA CommittedGrows ==
  ASSUME Types, UNCHANGED committed_events \/ CommitEvents(Flusher)
  PROVE  \E b \in Seq(Events) :
           /\ committed_events' = committed_events \o b
           /\ Len(committed_events') = Len(committed_events) + Len(b)
           /\ Len(committed_events) \in Nat /\ Len(b) \in Nat
           /\ PayloadsOf(committed_events) \subseteq PayloadsOf(committed_events')
           /\ CommitEvents(Flusher) => b = Batch(Flusher)
<1> DEFINE b == IF CommitEvents(Flusher) THEN Batch(Flusher) ELSE <<>>
<1>1. committed_events \in Seq(Events) /\ Batch(Flusher) \in Seq(Events)
  BY Zenon DEF Types, Batch, Locals, Threads
<1>2. b \in Seq(Events)
  BY <1>1, Empty, Zenon
<1>3. committed_events' = committed_events \o b
  <2>1. CASE CommitEvents(Flusher)
    BY <2>1, Zenon DEF CommitEvents, Batch
  <2>2. CASE ~CommitEvents(Flusher)
    BY <1>1, <2>2, WithEmpty, Zenon
  <2> QED
    BY <2>1, <2>2, Zenon
<1>4. CommitEvents(Flusher) => b = Batch(Flusher)
  BY Zenon
<1> HIDE DEF b
<1>5. /\ Len(committed_events') = Len(committed_events) + Len(b)
      /\ Len(committed_events) \in Nat /\ Len(b) \in Nat
  BY <1>1, <1>2, <1>3, Joined, Zenon
<1>6. PayloadsOf(committed_events') = PayloadsOf(committed_events) \cup PayloadsOf(b)
  BY <1>1, <1>2, <1>3, RangeJoined, Zenon
<1> QED
  BY <1>2, <1>3, <1>4, <1>5, <1>6, Zenon

\* The flusher counts its batch after it has committed it.
LEMMA CountedStep ==
  ASSUME Types, WithFlusher, up, start_flusher_thread, Next, ~Down, Counted
  PROVE  Counted'
<1> USE DEF queueVars, commitVars, fileVars, toldVars, boundVars, openVars
<1>1. PICK b \in Seq(Events) :
           /\ Len(committed_events') = Len(committed_events) + Len(b)
           /\ Len(committed_events) \in Nat /\ Len(b) \in Nat
           /\ CommitEvents(Flusher) => b = Batch(Flusher)
  BY CommitStep, CommittedGrows, Zenon
<1>2. Flusher \in Threads /\ pc \in [Threads -> Labels] /\ local \in [Threads -> Locals]
      /\ committed \in Nat
  BY Zenon DEF Types, Threads
<1>3. Batch(Flusher) \in Seq(Events) /\ Len(Batch(Flusher)) \in Nat
  BY <1>2, Elements, Zenon DEF Batch, Locals
<1>4. ASSUME UNCHANGED committed,
             pc'[Flusher] = "count" => pc[Flusher] = "count" /\ Batch(Flusher)' = Batch(Flusher)
      PROVE  Counted'
  BY <1>1, <1>2, <1>3, <1>4 DEF Counted
<1>5. CASE ReplayPage
  BY <1>4, <1>5, Zenon DEF ReplayPage, Batch
<1>6. ASSUME NEW c \in Clients, AppendCheck(c) \/ Flush(c) \/ Close(c) \/ ClientStep(c)
      PROVE  Counted'
  <2>1. /\ \A t \in Threads : t # c => pc'[t] = pc[t] /\ local'[t] = local[t]
        /\ UNCHANGED <<committed, committed_events, lines, unterminated, failures, good>>
    BY <1>6, ClientFrame, ZenonT(60)
  <2>2. Flusher # c
    BY ThreadsAssumption, Zenon
  <2> QED
    BY <1>2, <1>4, <2>1, <2>2, Zenon DEF Batch
<1>7. CASE FlusherDrain \/ FlusherExit \/ WriteLines(Flusher) \/ WriteFails(Flusher)
  <2>1. UNCHANGED committed
    BY <1>7, Zenon DEF FlusherDrain, DrainBatch, FlusherExit, WriteLines, WriteFails
  <2>2. Goto(Flusher, "write") \/ Goto(Flusher, "exited") \/ Goto(Flusher, "commit")
    BY <1>7, Zenon DEF FlusherDrain, DrainBatch, FlusherExit, WriteLines, WriteFails
  <2>3. pc'[Flusher] # "count"
    BY <1>2, <2>2, Zenon DEF Goto
  <2> QED
    BY <1>4, <2>1, <2>3, ZenonT(60)
<1>8. CASE CommitEvents(Flusher)
  <2>1. UNCHANGED <<committed, local>>
    BY <1>8, Zenon DEF CommitEvents
  <2>2. Batch(Flusher)' = Batch(Flusher) /\ b = Batch(Flusher)
    BY <1>1, <1>8, <2>1, Zenon DEF Batch
  <2> QED
    BY <1>1, <1>2, <2>1, <2>2 DEF Counted
<1>9. CASE CountCommitted(Flusher)
  <2>1. /\ pc[Flusher] = "count" /\ committed' = committed + Len(Batch(Flusher))
        /\ Goto(Flusher, "idle")
    BY <1>9, Zenon DEF CountCommitted, Batch
  <2>2. pc'[Flusher] = "idle"
    BY <1>2, <2>1, Zenon DEF Goto
  <2> QED
    BY <1>1, <1>2, <1>3, <2>1, <2>2 DEF Counted
<1> QED
  BY <1>5, <1>6, <1>7, <1>8, <1>9, Zenon DEF Next, FlusherStep, Exit, Crash, Open

\* What a client knows stays true while others go on.
LEMMA VouchedStays ==
  ASSUME Types, NEW c \in Clients, Vouched(c), acked \subseteq acked', Continues(Log', Log),
         Len(committed_events) \in Nat, Len(committed_events') \in Nat, Len(Log') \in Nat,
         Len(committed_events) <= Len(committed_events'),
         PayloadsOf(committed_events) \subseteq PayloadsOf(committed_events'),
         pc'[c] = pc[c], local'[c] = local[c]
  PROVE  Vouched(c)'
<1>1. Len(Log) \in Nat /\ local[c] \in Locals
  BY LogType, Elements, ZenonT(60) DEF Types, Threads
<1>2. local[c].accepted \in Nat /\ local[c].committed \in Nat
  BY <1>1, Zenon DEF Locals
<1> DEFINE me == local[c]
           label == pc[c]
           n == Len(Log)
           m == Len(Log')
           log == Log
           new == Log'
<1>3. /\ me.accepted \in Nat /\ me.committed \in Nat /\ n \in Nat /\ m \in Nat /\ n <= m
      /\ \A i \in 1..n : new[i] = log[i]
  BY <1>1, <1>2, Zenon DEF Continues
<1>4. label \in {"committed", "queued"} =>
        /\ me.accepted <= n
        /\ \A p \in me.goal : \E i \in 1..me.accepted : log[i].payload = p
  BY Zenon DEF Vouched
<1>5. label \in {"committed", "queued"} =>
        /\ me.accepted <= m
        /\ \A p \in me.goal : \E i \in 1..me.accepted : new[i].payload = p
  <2> HIDE DEF me, label, n, m, log, new
  <2> QED
    BY <1>3, <1>4, SMTT(60)
<1>6. label \in {"accepted", "wait"} => me.goal \subseteq acked'
  BY Zenon DEF Vouched
<1>7. label = "queued" => me.committed <= Len(committed_events')
  BY <1>2, SMTT(60) DEF Vouched
<1>8. label = "sync" => me.goal \subseteq PayloadsOf(committed_events')
  BY Zenon DEF Vouched
<1> QED
  BY <1>5, <1>6, <1>7, <1>8, Zenon DEF Vouched

\* The comparison of flush: every event it waits for is committed.
LEMMA GoalCommitted ==
  ASSUME Types, NEW c \in Clients, Vouched(c), pc[c] = "queued", AllCommitted(c)
  PROVE  local[c].goal \subseteq PayloadsOf(committed_events)
<1>1. local[c] \in Locals /\ committed_events \in Seq(Events)
  BY Zenon DEF Types, Threads
<1>2. local[c].accepted \in Nat /\ local[c].committed \in Nat
  BY <1>1, Zenon DEF Locals
<1>3. PICK rest \in Seq(Events) : Log = committed_events \o rest
  BY CommittedFirst, Zenon
<1>4. /\ Len(committed_events) \in Nat /\ DOMAIN committed_events = 1..Len(committed_events)
      /\ \A i \in 1..Len(committed_events) : (committed_events \o rest)[i] = committed_events[i]
  BY <1>1, Joined, Elements, SMTT(30)
<1> DEFINE n == Len(committed_events)
           log == Log
<1>5. n \in Nat /\ local[c].accepted <= n /\ \A i \in 1..n : log[i] = committed_events[i]
  BY <1>2, <1>3, <1>4, SMTT(60) DEF Vouched, AllCommitted
<1>6. \A p \in local[c].goal : \E i \in 1..local[c].accepted : log[i].payload = p
  BY Zenon DEF Vouched
<1>7. DOMAIN committed_events = 1..n
  BY <1>4, Zenon
<1> HIDE DEF n, log
<1>8. \A p \in local[c].goal : \E i \in 1..n : committed_events[i].payload = p
  BY <1>2, <1>5, <1>6
<1> QED
  BY <1>7, <1>8, Zenon DEF PayloadsOf, SeqRange

\* A client's own step in flush.
LEMMA VouchedMoves ==
  ASSUME Types, CountInv, WithFlusher, up, start_flusher_thread, NEW c \in Clients,
         AppendCheck(c) \/ Flush(c) \/ Close(c) \/ ClientStep(c),
         acked \subseteq acked', Log' = Log \/ AppendPush(c)
  PROVE  Vouched(c)'
<1> USE DEF queueVars, commitVars, fileVars, toldVars, boundVars, openVars
<1>1. c \in Threads /\ pc \in [Threads -> Labels] /\ local \in [Threads -> Locals]
  BY Zenon DEF Types, Threads
<1>2. Vouched(c) /\ accepted = Len(Log) /\ acked = PayloadsOf(Log) /\ committed <= Len(committed_events)
  BY Zenon DEF CountInv, Counted
<1>3. UNCHANGED committed_events
  BY ClientFrame, Zenon
<1>4. pc[c] \notin {"drain", "write", "commit", "count"}
  BY Zenon DEF WithFlusher, ClientInv
<1>5. ~(\/ DrainHere(c) \/ SleepHere(c) \/ GiveUp(c) \/ WriteLines(c)
        \/ WriteFails(c) \/ CommitEvents(c) \/ CountCommitted(c))
  BY <1>4, ZenonT(60) DEF DrainHere, SleepHere, GiveUp, WriteLines, WriteFails,
     CommitEvents, CountCommitted
<1>6. ASSUME NEW label \in {"idle", "append", "join", "shut"}, Goto(c, label) PROVE Vouched(c)'
  <2>1. pc'[c] = label
    BY <1>1, <1>6, Zenon DEF Goto
  <2> QED
    BY <2>1, Zenon DEF Vouched
<1>7. CASE AppendCheck(c) \/ AppendPush(c) \/ Close(c) \/ Sync(c) \/ Join(c) \/ Shut(c)
  <2>1. \E label \in {"idle", "append", "join", "shut"} : Goto(c, label)
    BY <1>7, ZenonT(60) DEF AppendCheck, AppendPush, Close, Sync, ReturnFlush, Join, Shut
  <2> QED
    BY <1>6, <2>1, Zenon
<1>8. CASE Flush(c)
  <2>1. Goto(c, "accepted") /\ local' = [local EXCEPT ![c].goal = acked, ![c].last_try = FALSE]
    BY <1>8, Zenon DEF Flush
  <2>2. pc'[c] = "accepted" /\ local'[c].goal = acked
    BY <1>1, <2>1, Zenon DEF Goto, Locals
  <2> QED
    BY <2>2, ZenonT(30) DEF Vouched
<1>9. CASE LoadAccepted(c)
  <2>1. /\ pc[c] = "accepted" /\ Goto(c, "committed")
        /\ local' = [local EXCEPT ![c].accepted = accepted]
    BY <1>9, Zenon DEF LoadAccepted
  <2>2. Log' = Log
    BY <1>9, <2>1, Zenon DEF AppendPush
  <2>3. pc'[c] = "committed" /\ local'[c].goal = local[c].goal /\ local'[c].accepted = accepted
    BY <1>1, <2>1, Zenon DEF Goto, Locals
  <2>4. local[c].goal \subseteq PayloadsOf(Log)
    BY <1>2, <2>1, Zenon DEF Vouched
  <2> DEFINE log == Log
  <2>5. log \in Seq(Events)
    BY LogType, Zenon
  <2>6. Len(log) \in Nat /\ DOMAIN log = 1..Len(log)
    BY <2>5, Elements, Zenon
  <2>7. \A p \in local[c].goal : \E i \in 1..Len(log) : log[i].payload = p
    <3> HIDE DEF log
    <3>1. local[c].goal \subseteq PayloadsOf(log)
      BY <2>4, Zenon DEF log
    <3> QED
      BY <2>6, <3>1, ZenonT(60) DEF PayloadsOf, SeqRange
  <2>8. /\ local'[c].accepted <= Len(Log')
        /\ \A p \in local'[c].goal : \E i \in 1..local'[c].accepted : Log'[i].payload = p
    <3>1. local'[c].accepted = Len(log) /\ Log' = log
      BY <1>2, <2>2, <2>3, Zenon
    <3> QED
      BY <2>3, <2>6, <2>7, <3>1, SMTT(60)
  <2> QED
    BY <2>3, <2>8, Zenon DEF Vouched
<1>10. CASE LoadCommitted(c)
  <2>1. /\ pc[c] = "committed" /\ Goto(c, "queued")
        /\ local' = [local EXCEPT ![c].committed = committed]
    BY <1>10, Zenon DEF LoadCommitted
  <2>2. Log' = Log
    BY <1>10, <2>1, Zenon DEF AppendPush
  <2>3. /\ pc'[c] = "queued" /\ local'[c].goal = local[c].goal /\ local'[c].committed = committed
        /\ local'[c].accepted = local[c].accepted
    BY <1>1, <2>1, Zenon DEF Goto, Locals
  <2>4. /\ local[c].accepted <= Len(Log)
        /\ \A p \in local[c].goal : \E i \in 1..local[c].accepted : Log[i].payload = p
    BY <1>2, <2>1, Zenon DEF Vouched
  <2>5. /\ local'[c].accepted <= Len(Log')
        /\ \A p \in local'[c].goal : \E i \in 1..local'[c].accepted : Log'[i].payload = p
    BY <2>2, <2>3, <2>4, Zenon
  <2> QED
    BY <1>2, <1>3, <2>3, <2>5, ZenonT(60) DEF Vouched
<1>11. CASE Wake(c)
  <2>1. pc[c] = "wait" /\ Goto(c, "accepted")
    BY <1>11, Zenon DEF Wake
  <2>2. PICK timeout : local' = [local EXCEPT ![c].last_try = timeout]
    BY <1>11, Zenon DEF Wake
  <2>3. pc'[c] = "accepted" /\ local'[c].goal = local[c].goal
    BY <1>1, <2>1, <2>2, Zenon DEF Goto, Locals
  <2> QED
    BY <1>2, <2>1, <2>3, ZenonT(60) DEF Vouched
<1>12. CASE LoadQueued(c)
  <2>1. pc[c] = "queued" /\ UNCHANGED <<local, acked>>
    BY <1>12, Zenon DEF LoadQueued
  <2>2. Log' = Log
    BY <2>1, Zenon DEF AppendPush
  <2>3. CASE \E label \in {"idle", "append", "join", "shut"} : Goto(c, label)
    BY <1>6, <2>3, Zenon
  <2>4. CASE AllCommitted(c) /\ Goto(c, "sync")
    <3>1. pc'[c] = "sync"
      BY <1>1, <2>4, Zenon DEF Goto
    <3>2. local[c].goal \subseteq PayloadsOf(committed_events)
      BY <1>2, <2>1, <2>4, GoalCommitted, Zenon
    <3> QED
      BY <1>3, <2>1, <3>1, <3>2, ZenonT(60) DEF Vouched
  <2>5. CASE Goto(c, "wait")
    <3>1. pc'[c] = "wait"
      BY <1>1, <2>5, Zenon DEF Goto
    <3>2. local[c].goal \subseteq PayloadsOf(Log)
      <4> DEFINE log == Log
                 me == local[c]
      <4>1. log \in Seq(Events) /\ me.accepted \in Nat
        BY <1>1, LogType, Zenon DEF Locals
      <4>2. me.accepted <= Len(log) /\ \A p \in me.goal : \E i \in 1..me.accepted : log[i].payload = p
        BY <1>2, <2>1, ZenonT(30) DEF Vouched
      <4> HIDE DEF log, me
      <4>3. Len(log) \in Nat /\ DOMAIN log = 1..Len(log)
        BY <4>1, Elements, Zenon
      <4>4. \A p \in me.goal : \E i \in DOMAIN log : log[i].payload = p
        BY <4>1, <4>2, <4>3
      <4>5. me.goal \subseteq PayloadsOf(log)
        BY <4>4, Zenon DEF PayloadsOf, SeqRange
      <4> QED
        BY <4>5, Zenon DEF log, me
    <3> QED
      BY <1>2, <2>1, <3>1, <3>2, ZenonT(60) DEF Vouched
  <2> QED
    BY <1>12, <2>3, <2>4, <2>5, Zenon DEF LoadQueued, ReturnFlush
<1> QED
  BY <1>5, <1>7, <1>8, <1>9, <1>10, <1>11, <1>12, ZenonT(30) DEF ClientStep

\* Clients other than by pushing, and the reader, leave the log alone.
LEMMA LogOfClients ==
  ASSUME Types, WithFlusher, up, start_flusher_thread, NEW c \in Clients,
         AppendCheck(c) \/ Flush(c) \/ Close(c) \/ ClientStep(c)
  PROVE  Log' = Log \/ AppendPush(c)
<1> USE DEF queueVars, commitVars, fileVars, toldVars, boundVars, openVars
<1>1. /\ \A t \in Threads : t # c => pc'[t] = pc[t] /\ local'[t] = local[t]
      /\ UNCHANGED committed_events
  BY ClientFrame, Zenon
<1>2. Flusher \in Threads /\ Flusher # c
  BY ThreadsAssumption, Zenon DEF Threads
<1>3. InFlight(Flusher)' = InFlight(Flusher)
  BY <1>1, <1>2, Zenon DEF InFlight
<1>4. pc[c] \notin {"drain", "write", "commit", "count"}
  BY Zenon DEF WithFlusher, ClientInv
<1>5. ~(\/ DrainHere(c) \/ SleepHere(c) \/ GiveUp(c) \/ WriteLines(c)
        \/ WriteFails(c) \/ CommitEvents(c) \/ CountCommitted(c))
  BY <1>4, Zenon DEF DrainHere, SleepHere, GiveUp, WriteLines, WriteFails,
     CommitEvents, CountCommitted
<1>6. UNCHANGED queue \/ AppendPush(c)
  BY <1>5, ZenonT(60) DEF AppendCheck, Flush, Close, ClientStep, LoadAccepted,
     LoadCommitted, LoadQueued, Wake, Sync, Join, Shut
<1> QED
  BY <1>1, <1>3, <1>6, ZenonT(60) DEF Log

\* The counters and what the clients know, over a step.
LEMMA CountInvStep ==
  ASSUME Types, Types', CountInv, WithFlusher, up, start_flusher_thread, Next, ~Down, LogStep
  PROVE  CountInv'
<1> USE DEF queueVars, commitVars, fileVars, toldVars, boundVars, openVars
<1>1. /\ accepted' = Len(Log') /\ acked' = PayloadsOf(Log') /\ acked \subseteq acked'
      /\ Continues(Log', Log)
  BY LogGrows, Zenon DEF CountInv
<1>2. Counted'
  BY CountedStep, Zenon DEF CountInv
<1>3. /\ Len(committed_events) \in Nat /\ Len(committed_events') \in Nat /\ Len(Log') \in Nat
      /\ Len(committed_events) <= Len(committed_events')
      /\ PayloadsOf(committed_events) \subseteq PayloadsOf(committed_events')
  <2>1. PICK b \in Seq(Events) :
           /\ Len(committed_events') = Len(committed_events) + Len(b)
           /\ Len(committed_events) \in Nat /\ Len(b) \in Nat
           /\ PayloadsOf(committed_events) \subseteq PayloadsOf(committed_events')
    BY CommitStep, CommittedGrows, Zenon
  <2>2. accepted' \in Nat
    BY Zenon DEF Types
  <2> QED
    BY <1>1, <2>1, <2>2
<1>4. ASSUME NEW d \in Clients, pc'[d] = pc[d], local'[d] = local[d] PROVE Vouched(d)'
  BY <1>1, <1>3, <1>4, VouchedStays, Zenon DEF CountInv
<1>5. ASSUME NEW c \in Clients, AppendCheck(c) \/ Flush(c) \/ Close(c) \/ ClientStep(c),
             NEW d \in Clients
      PROVE  Vouched(d)'
  <2>1. CASE d = c
    BY <1>1, <1>5, <2>1, LogOfClients, VouchedMoves, Zenon
  <2>2. CASE d # c
    <3>1. d \in Threads
      BY Zenon DEF Threads
    <3>2. pc'[d] = pc[d] /\ local'[d] = local[d]
      BY <1>5, <2>2, <3>1, ClientFrame, ZenonT(60)
    <3> QED
      BY <1>4, <3>2, Zenon
  <2> QED
    BY <2>1, <2>2, Zenon
<1>6. ASSUME ReplayPage \/ FlusherStep, NEW d \in Clients PROVE Vouched(d)'
  <2>1. d \in Threads /\ d # Flusher
    BY ThreadsAssumption, Zenon DEF Threads
  <2>2. UNCHANGED pc \/ \E label : Goto(Flusher, label)
    BY <1>6, Zenon DEF ReplayPage, FlusherStep, FlusherDrain, DrainBatch, FlusherExit,
       WriteLines, WriteFails, CommitEvents, CountCommitted
  <2>3. pc'[d] = pc[d]
    BY <2>1, <2>2, Zenon DEF Goto, Types
  <2>4. UNCHANGED local \/ \E r : local' = [local EXCEPT ![Flusher].batch = r]
    BY <1>6, Zenon DEF ReplayPage, FlusherStep, FlusherDrain, DrainBatch, FlusherExit,
       WriteLines, WriteFails, CommitEvents, CountCommitted
  <2>5. local'[d] = local[d]
    BY <2>1, <2>4, Zenon DEF Types
  <2> QED
    BY <1>4, <2>3, <2>5, ZenonT(60)
<1>7. \A d \in Clients : Vouched(d)'
  BY <1>5, <1>6, Zenon DEF Next, Exit, Crash, Open
<1> QED
  BY <1>1, <1>2, <1>7, Zenon DEF CountInv

-----------------------------------------------------------------------------
(* The invariant of all runs *)

RunInv == WithFlusher /\ LogInOrder /\ ReaderInv /\ CountInv /\ WriteInv

RestartInv ==
  /\ Types /\ FileInv /\ up \in BOOLEAN /\ start_flusher_thread \in BOOLEAN
  /\ up /\ start_flusher_thread => RunInv
  /\ FlushIsDurable

\* Only a flush of a storage with a flusher vouches for anything, and then for
\* events that are committed.
LEMMA PromisedStep ==
  ASSUME Types, up /\ start_flusher_thread => RunInv, Next
  PROVE  \/ promised' = promised
         \/ /\ up /\ start_flusher_thread
            /\ promised' \subseteq promised \cup PayloadsOf(committed_events)
<1> USE DEF queueVars, commitVars, fileVars, toldVars, boundVars, openVars
<1>1. ASSUME NEW c \in Clients, up, start_flusher_thread, LoadQueued(c), AllCommitted(c),
             promised' = promised \cup local[c].goal
      PROVE  promised' \subseteq promised \cup PayloadsOf(committed_events)
  <2>1. Vouched(c) /\ pc[c] = "queued"
    BY <1>1, ZenonT(60) DEF RunInv, CountInv, LoadQueued
  <2> QED
    BY <1>1, <2>1, GoalCommitted, Zenon
<1>2. ASSUME NEW c \in Clients, up, start_flusher_thread, Sync(c),
             promised' = promised \cup local[c].goal
      PROVE  promised' \subseteq promised \cup PayloadsOf(committed_events)
  <2>1. Vouched(c) /\ pc[c] = "sync"
    BY <1>2, Zenon DEF RunInv, CountInv, Sync
  <2> QED
    BY <1>2, <2>1, Zenon DEF Vouched
<1>3. ASSUME NEW c \in Clients, LoadQueued(c) \/ Sync(c) \/ GiveUp(c)
      PROVE  \/ promised' = promised
             \/ /\ up /\ start_flusher_thread /\ promised' = promised \cup local[c].goal
                /\ (LoadQueued(c) /\ AllCommitted(c)) \/ Sync(c)
  BY <1>3, ZenonT(60) DEF LoadQueued, Sync, GiveUp, ReturnFlush
<1>4. ASSUME NEW c \in Clients, AppendCheck(c) \/ Flush(c) \/ Close(c) \/ ClientStep(c),
             ~(LoadQueued(c) \/ Sync(c) \/ GiveUp(c))
      PROVE  promised' = promised
  BY <1>4, ZenonT(60) DEF AppendCheck, Flush, Close, ClientStep, AppendPush, LoadAccepted,
     LoadCommitted, Wake, DrainHere, DrainBatch, SleepHere, WriteLines, WriteFails,
     CommitEvents, CountCommitted, Join, Shut
<1>5. CASE Open \/ ReplayPage \/ Exit \/ Crash \/ FlusherStep
  BY <1>5, ZenonT(60) DEF Open, ReplayPage, Exit, Crash, Down, FlusherStep, FlusherDrain,
     DrainBatch, FlusherExit, WriteLines, WriteFails, CommitEvents, CountCommitted
<1> QED
  BY <1>1, <1>2, <1>3, <1>4, <1>5, Zenon DEF Next

\* What was vouched for stays in the file.
LEMMA DurableStep ==
  ASSUME RestartInv, Next
  PROVE  FlushIsDurable'
<1> SUFFICES ASSUME Undamaged' PROVE promised' \subseteq Stored'
  BY Zenon DEF FlushIsDurable
<1>1. Undamaged /\ Stored \subseteq Stored'
  BY StoredGrows, Zenon DEF RestartInv
<1>2. promised \subseteq Stored
  BY <1>1, Zenon DEF RestartInv, FlushIsDurable
<1>3. \/ promised' = promised
      \/ /\ up /\ start_flusher_thread
         /\ promised' \subseteq promised \cup PayloadsOf(committed_events)
  BY PromisedStep, Zenon DEF RestartInv
<1>4. up /\ start_flusher_thread => PayloadsOf(committed_events) \subseteq Stored
  BY <1>1, Zenon DEF RestartInv, RunInv, WriteInv, InFile
<1> QED
  BY <1>1, <1>2, <1>3, <1>4, Zenon

\* Opening the storage with a flusher, whatever the file holds.
LEMMA OpenRun ==
  ASSUME Types, Types', FileInv, Open, start_flusher_thread'
  PROVE  RunInv'
<1> USE DEF queueVars, commitVars, fileVars, toldVars, boundVars, openVars
<1>1. is_open' = TRUE /\ closed' = FALSE /\ queue_owner' = NoOne /\ queue' = <<>> /\ good' = TRUE
      /\ reader' = NoReader /\ UNCHANGED <<lines, unterminated>>
  BY Zenon DEF Open
<1>2. PICK events \in LoadedEvents :
        /\ next_offset' = FirstFreeOffset(events)
        /\ accepted' = Len(events) /\ committed' = Len(events)
        /\ committed_events' = events /\ acked' = PayloadsOf(events)
  BY ZenonT(60) DEF Open
<1>3. /\ events \in Seq(Events) /\ InOrder(events) /\ PayloadsOf(events) = Stored
      /\ \A i \in DOMAIN events : events[i].offset < FirstFreeOffset(events)
  BY Loading, Zenon DEF FileInv
<1>4. \A t \in Threads : local'[t] = NoLocals /\ pc'[t] = "idle"
  BY Zenon DEF Open
<1>5. InFlight(Flusher)' = <<>>
  BY <1>4, ThreadsAssumption, ZenonT(60) DEF InFlight, NoLocals, Threads
<1>6. Log' = events
  BY <1>1, <1>2, <1>3, <1>5, WithEmpty, ZenonT(60) DEF Log
<1>7. WithFlusher'
  <2>1. ASSUME NEW c \in Clients PROVE ClientInv(c)'
    <3>1. pc'[c] = "idle" /\ local'[c] = NoLocals
      BY <1>4, Zenon DEF Threads
    <3>2. ~local'[c].closing
      BY <3>1, SMTT(60) DEF NoLocals
    <3> QED
      BY <3>1, <3>2, Zenon DEF ClientInv
  <2>2. FlusherInv'
    BY <1>1, <1>4, Zenon DEF FlusherInv, Threads
  <2> QED
    BY <2>1, <2>2, Zenon DEF WithFlusher
<1>8. LogInOrder'
  BY <1>2, <1>3, <1>6, Zenon DEF LogInOrder
<1>9. ReaderInv'
  <2>1. reader' = NoReader /\ Seen' = <<>> /\ reader'.next = 0 /\ reader' \in [next : Nat, seen : Seq(Events), done : BOOLEAN]
    BY <1>1, Empty, Zenon DEF Seen, NoReader
  <2>2. Len(<<>>) = 0 /\ DOMAIN <<>> = {}
    BY Empty
  <2>3. InOrder(<<>>) /\ SeqRange(<<>>) = {}
    BY <2>2, Zenon DEF InOrder, SeqRange
  <2>4. {e \in SeqRange(committed_events') : Shown(e)'} = {}
    BY <2>1, Zenon DEF Shown
  <2>5. /\ InOrder(Seen') /\ SeqRange(Seen') = {e \in SeqRange(committed_events') : Shown(e)'}
        /\ reader'.next = IF Seen' = <<>> THEN 0 ELSE Seen'[Len(Seen')].offset + 1
    BY <2>1, <2>3, <2>4, Zenon
  <2> QED
    BY <2>1, <2>5, ZenonT(30) DEF ReaderInv
<1>10. CountInv'
  <2>1. accepted' = Len(Log') /\ acked' = PayloadsOf(Log')
    BY <1>2, <1>6, Zenon
  <2>2. \A c \in Clients : Vouched(c)'
    BY <1>4, Zenon DEF Vouched, Threads
  <2>3. Counted'
    <3>1. pc'[Flusher] = "idle"
      BY <1>4, Zenon DEF Threads
    <3>2. Len(events) \in Nat
      BY <1>3, Elements, Zenon
    <3> QED
      BY <1>2, <3>1, <3>2 DEF Counted
  <2> QED
    BY <2>1, <2>2, <2>3, Zenon DEF CountInv
<1>11. WriteInv'
  <2>1. pc'[Flusher] = "idle"
    BY <1>4, Zenon DEF Threads
  <2>2. Stored' = Stored
    BY <1>1, ZenonT(60) DEF Stored, Parsed
  <2>3. InFile(committed_events)'
    BY <1>2, <1>3, <2>2, Zenon DEF InFile
  <2> QED
    BY <1>1, <2>1, <2>3, Zenon DEF WriteInv
<1> QED
  BY <1>7, <1>8, <1>9, <1>10, <1>11, Zenon DEF RunInv

\* The first of three parts of a sequence in order.
LEMMA FirstInOrder ==
  ASSUME NEW a \in Seq(Events), NEW b \in Seq(Events), NEW c \in Seq(Events), InOrder(a \o b \o c)
  PROVE  InOrder(a)
<1>1. a \o b \o c = a \o (b \o c) /\ b \o c \in Seq(Events)
  BY Brackets, Joined, SMTT(60)
<1> QED
  BY <1>1, OrderOfParts, ZenonT(60)

\* A step of a run with a flusher.
LEMMA RunStep ==
  ASSUME Types, Types', FileInv, up, start_flusher_thread, RunInv, Next, ~Down
  PROVE  RunInv' /\ UNCHANGED <<up, start_flusher_thread>>
<1>1. WithFlusher /\ LogInOrder /\ ReaderInv /\ CountInv /\ WriteInv
  BY Zenon DEF RunInv
<1>2. WithFlusher' /\ UNCHANGED <<up, start_flusher_thread>> /\ LogStep
  BY <1>1, FlusherRunStep, Zenon
<1>3. LogInOrder'
  BY <1>1, <1>2, LogInOrderStep, Zenon
<1>4. CountInv' /\ WriteInv'
  BY <1>1, <1>2, CountInvStep, WriteInvStep, Zenon
<1>5. InOrder(committed_events) /\ InOrder(committed_events')
  <2>1. /\ committed_events \in Seq(Events) /\ queue \in Seq(Events)
        /\ committed_events' \in Seq(Events) /\ queue' \in Seq(Events)
    BY Zenon DEF Types
  <2>2. InFlight(Flusher) \in Seq(Events) /\ InFlight(Flusher)' \in Seq(Events)
    BY Empty, Zenon DEF Types, InFlight, Locals, Threads
  <2>3. /\ InOrder(committed_events \o InFlight(Flusher) \o queue)
        /\ InOrder(committed_events' \o InFlight(Flusher)' \o queue')
    BY <1>1, <1>3, Zenon DEF LogInOrder, Log
  <2> QED
    BY <2>1, <2>2, <2>3, FirstInOrder, Zenon
<1>6. ReaderInv'
  <2>1. (ReplayPage \/ UNCHANGED reader) /\ (UNCHANGED committed_events \/ CommitEvents(Flusher))
    BY <1>1, CommitStep, Zenon
  <2>2. PICK b \in Seq(Events) : committed_events' = committed_events \o b
    BY <2>1, CommittedGrows, Zenon
  <2> QED
    BY <1>1, <1>5, <2>1, <2>2, ReaderStays, ReaderPages, Zenon
<1> QED
  BY <1>2, <1>3, <1>4, <1>6, Zenon DEF RunInv

\* The invariant holds over any number of crashes and restarts.
LEMMA RestartInvNext ==
  ASSUME RestartInv, [Next]_vars
  PROVE  RestartInv'
<1> USE DEF queueVars, commitVars, fileVars, toldVars, boundVars, openVars
<1>0. Types /\ FileInv /\ FileType
  BY Zenon DEF RestartInv, FileInv
<1>1. CASE UNCHANGED vars
  <2>1. UNCHANGED <<queue, queue_owner, next_offset, accepted, committed, committed_events, closed,
                    is_open, pc, local, lines, unterminated, up, start_flusher_thread, payloads,
                    restarts, failures, acked, promised, reader, good>>
    BY <1>1, Zenon DEF vars
  <2>2. FileInv' /\ Types'
    BY <1>0, <1>1, <2>1, FileInvNext, Zenon DEF Types
  <2>3. InFlight(Flusher)' = InFlight(Flusher) /\ Batch(Flusher)' = Batch(Flusher)
    BY <2>1, Zenon DEF InFlight, Batch
  <2>4. Log' = Log /\ Stored' = Stored /\ Undamaged' = Undamaged
    BY <2>1, <2>3, Zenon DEF Log, Stored, Parsed, Undamaged
  <2>5. FlushIsDurable'
    BY <2>1, <2>4, Zenon DEF RestartInv, FlushIsDurable
  <2>6. WithFlusher => WithFlusher'
    BY <2>1, Zenon DEF WithFlusher, ClientInv, FlusherInv
  <2>7. (LogInOrder => LogInOrder') /\ (ReaderInv => ReaderInv')
    BY <2>1, <2>4, Zenon DEF LogInOrder, ReaderInv, Seen, Shown
  <2>8. (CountInv => CountInv') /\ (WriteInv => WriteInv')
    BY <2>1, <2>3, <2>4, Zenon DEF CountInv, Counted, Vouched, WriteInv, InFile
  <2> QED
    BY <2>1, <2>2, <2>5, <2>6, <2>7, <2>8, Zenon DEF RestartInv, RunInv
<1>2. CASE Next
  <2>1. Types' /\ FileInv' /\ FlushIsDurable'
    BY <1>0, <1>2, TypesNext, FileInvNext, DurableStep, Zenon
  <2>2. CASE Open
    <3>1. up' \in BOOLEAN /\ start_flusher_thread' \in BOOLEAN
      BY <2>2, ConfigAssumption, Zenon DEF Open
    <3> QED
      BY <1>0, <2>1, <2>2, <3>1, OpenRun, Zenon DEF RestartInv
  <2>3. CASE Down
    <3>1. up' = FALSE /\ UNCHANGED start_flusher_thread
      BY <2>3, Zenon DEF Down
    <3> QED
      BY <2>1, <3>1, ZenonT(60) DEF RestartInv
  <2>4. CASE ~Open /\ ~Down
    <3>1. up /\ UNCHANGED <<up, start_flusher_thread>>
      BY <1>2, <2>4, ZenonT(60) DEF Next, ReplayPage, Exit, Crash, FlusherStep, FlusherDrain,
         DrainBatch, FlusherExit, WriteLines, WriteFails, CommitEvents, CountCommitted, AppendCheck,
         Flush, Close, ClientStep, AppendPush, LoadAccepted, LoadCommitted, LoadQueued, Wake, Sync,
         DrainHere, SleepHere, GiveUp, Join, Shut
    <3>2. start_flusher_thread => RunInv'
      BY <1>0, <1>2, <2>1, <2>4, <3>1, RunStep, Zenon DEF RestartInv
    <3> QED
      BY <2>1, <3>1, <3>2, Zenon DEF RestartInv
  <2> QED
    BY <2>2, <2>3, <2>4, Zenon
<1> QED
  BY <1>1, <1>2, Zenon

\* The invariant holds before the storage is first opened.
LEMMA RestartInvInit == Init => RestartInv
<1> SUFFICES ASSUME Init PROVE RestartInv
  BY Zenon
<1>1. Types /\ FileInv
  BY StorageStart, Zenon DEF StorageInv
<1>2. up = FALSE /\ start_flusher_thread = FALSE /\ promised = {}
  BY Zenon DEF Init
<1> QED
  BY <1>1, <1>2, ZenonT(60) DEF RestartInv, FlushIsDurable

\* The invariant of all runs, over any number of crashes and restarts.
THEOREM RestartInvariance == Spec => []RestartInv
<1>1. Init => RestartInv
  BY RestartInvInit, Zenon
<1>2. RestartInv /\ [Next]_vars => RestartInv'
  BY RestartInvNext, Zenon
<1> QED
  BY <1>1, <1>2, PTL DEF Spec

\* ReplayInOffsetOrder: committed_events_ is in offset order, after any crash,
\* restart and failed write.
THEOREM OffsetOrder == Spec => []ReplayInOffsetOrder
<1>1. RestartInv => ReplayInOffsetOrder
  <2> SUFFICES ASSUME RestartInv, up, start_flusher_thread PROVE InOrder(committed_events)
    BY Zenon DEF ReplayInOffsetOrder
  <2>1. /\ committed_events \in Seq(Events) /\ queue \in Seq(Events)
        /\ InFlight(Flusher) \in Seq(Events)
    BY LogType, Zenon DEF RestartInv, Types
  <2>2. InOrder(committed_events \o InFlight(Flusher) \o queue)
    BY Zenon DEF RestartInv, RunInv, LogInOrder, Log
  <2> QED
    BY <2>1, <2>2, FirstInOrder, Zenon
<1> QED
  BY <1>1, RestartInvariance, PTL

\* PagesAreComplete: a reader that pages through the log misses nothing.
THEOREM CompletePages == Spec => []PagesAreComplete
<1>1. RestartInv => PagesAreComplete
  BY Zenon DEF RestartInv, RunInv, ReaderInv, Shown, Seen, PagesAreComplete
<1> QED
  BY <1>1, RestartInvariance, PTL

\* FlushIsDurable: what a flush vouched for is in the file, then and ever after.
THEOREM DurableFlush == Spec => []FlushIsDurable
<1>1. RestartInv => FlushIsDurable
  BY Zenon DEF RestartInv
<1> QED
  BY <1>1, RestartInvariance, PTL

\* CloseDrains: once closed, everything acknowledged is in the file.
THEOREM DrainedClose == Spec => []CloseDrains
<1>1. RestartInv => CloseDrains
  <2> SUFFICES ASSUME RestartInv, up, start_flusher_thread, ~is_open, Undamaged
               PROVE  acked \subseteq Stored
    BY Zenon DEF CloseDrains
  <2>1. Types /\ FlusherInv /\ acked = PayloadsOf(Log) /\ PayloadsOf(committed_events) \subseteq Stored
    BY Zenon DEF RestartInv, RunInv, WithFlusher, CountInv, WriteInv, InFile
  <2>2. pc[Flusher] = "exited" /\ queue = <<>>
    BY <2>1, ZenonT(60) DEF FlusherInv
  <2>3. InFlight(Flusher) = <<>> /\ committed_events \in Seq(Events)
    BY <2>1, <2>2, Zenon DEF InFlight, Types
  <2>4. Log = committed_events
    BY <2>2, <2>3, WithEmpty, Zenon DEF Log
  <2> QED
    BY <2>1, <2>4, Zenon
<1> QED
  BY <1>1, RestartInvariance, PTL
=============================================================================
