------------------------- MODULE JsonlAsyncStorage -------------------------
(***************************************************************************)
(* JsonlAsyncStorage of src/storage/jsonl_async_storage.cpp: appenders put *)
(* events into a bounded queue, the flusher thread (or, when it is         *)
(* disabled, whoever calls flush) drains it in batches into a file of one  *)
(* JSON object per line, and replay reads what was committed.  The process *)
(* may crash at any moment and the storage be opened again on its file.    *)
(*                                                                         *)
(* A critical section is one step, except append's, which reads closed_    *)
(* and pushes in two: close sets closed_ without the lock.  The loads of   *)
(* atomics that flush compares are steps of their own.  An event is its    *)
(* offset and a payload that no other event has.  The file is a sequence   *)
(* of lines, a line the sequence of the fragments written to it.           *)
(***************************************************************************)
EXTENDS Integers, Sequences, TLC

CONSTANTS
  Clients,             \* threads that append, flush and close
  Flusher,             \* the background thread
  NoOne,               \* owner of a free mutex
  Torn,                \* a fragment cut short by a crash
  FlusherModes,        \* values config_.start_flusher_thread may have
  QueueCapacity,       \* config_.queue_capacity
  BatchSize,           \* config_.batch_size
  PageSize,            \* max_events of the paging reader
  MaxEvents,           \* bound: events ever accepted
  MaxFlushes,          \* bound: flush calls
  MaxFailures,         \* bound: failing writes (disk full, I/O error)
  MaxRestarts,         \* bound: times the storage is opened again
  TornWrites,          \* may a crash or a failure cut a line short?
  Timeouts             \* may the deadline of a flush pass before it is done?

\* The constructor raises a capacity or a batch size of 0 to 1.
ASSUME ConfigAssumption ==
  /\ QueueCapacity \in Nat \ {0}
  /\ BatchSize \in Nat \ {0}
  /\ PageSize \in Nat \ {0}
  /\ FlusherModes \subseteq BOOLEAN
  /\ {TornWrites, Timeouts} \subseteq BOOLEAN
ASSUME ThreadsAssumption == Flusher \notin Clients /\ NoOne \notin Clients
\* A fragment cut short is no object.
ASSUME TornAssumption == Torn \notin [offset : Nat, payload : Nat]
ASSUME BoundsAssumption ==
  {MaxEvents, MaxFlushes, MaxFailures, MaxRestarts} \subseteq Nat

VARIABLES
  (* the object *)
  queue,             \* queue_
  queue_depth,       \* queue_depth_
  queue_owner,       \* holder of queue_mutex_ between two steps
  next_offset,       \* next_offset_
  accepted,          \* accepted_
  committed,         \* committed_
  committed_events,  \* committed_events_
  closed,            \* closed_
  flush_owner,       \* holder of flush_mutex_ between two steps
  good, is_open,     \* output_.good(), output_.is_open()
  (* the threads *)
  pc,
  local,             \* the locals of flush and write_batch, see NoLocals
  reader,            \* a client paging through replay
  (* the file *)
  lines, unterminated,
  (* the environment, and what the clients were told *)
  up,                \* is the storage open?
  start_flusher_thread,  \* config_.start_flusher_thread, chosen at every opening
  payloads,          \* how many events were ever accepted
  flushes, failures, restarts,
  acked,             \* payloads whose append returned true, or that were loaded
  promised           \* payloads vouched for by a flush that returned true, with
                     \* the flusher thread at work

queueVars == <<queue, queue_depth, queue_owner, next_offset, accepted>>
commitVars == <<committed, committed_events, reader>>
fileVars == <<good, is_open, lines, unterminated>>
toldVars == <<acked, promised>>
boundVars == <<payloads, flushes, failures, restarts>>
openVars == <<up, start_flusher_thread>>
vars == <<queueVars, commitVars, fileVars, toldVars, boundVars,
          closed, flush_owner, pc, local, openVars>>

Threads == Clients \cup {Flusher}
SeqRange(s) == {s[i] : i \in DOMAIN s}
PayloadsOf(s) == {e.payload : e \in SeqRange(s)}
Least(a, b) == IF a < b THEN a ELSE b

-----------------------------------------------------------------------------
(* The file *)

\* The lines after the fragments are written; an unterminated last line goes on.
Written(fragments) ==
  LET fresh(s) == [i \in 1..Len(s) |-> <<s[i]>>]
      n == Len(lines)
  IN IF fragments = <<>> THEN lines
     ELSE IF unterminated
       THEN SubSeq(lines, 1, n - 1) \o <<Append(lines[n], Head(fragments))>>
              \o fresh(Tail(fragments))
       ELSE lines \o fresh(fragments)

\* What can reach the file of a write that is cut short: the lines before the
\* cut, then, when writes may tear, part of a line or all but its newline.
Cuts(b) ==
  LET whole(k) == [fragments |-> SubSeq(b, 1, k), open |-> FALSE]
      part(k) == [fragments |-> SubSeq(b, 1, k) \o <<Torn>>, open |-> TRUE]
      bare(k) == [fragments |-> SubSeq(b, 1, k + 1), open |-> TRUE]
      ks == 0..(Len(b) - 1)
  IN {whole(k) : k \in ks}
       \cup (IF TornWrites THEN {part(k) : k \in ks} \cup {bare(k) : k \in ks} ELSE {})

\* The file after a write that is cut short.
WriteCut(b) ==
  \E cut \in Cuts(b) :
    /\ lines' = Written(cut.fragments)
    /\ unterminated' = IF cut.fragments = <<>> THEN unterminated ELSE cut.open

\* storage_event_from_json(json::parse(line)) succeeds: one whole object.
Parses(line) == Len(line) = 1 /\ line[1] # Torn

\* The lines that load_existing_file keeps, none when there is no file yet.
Parsed == {i \in DOMAIN lines : Parses(lines[i])}

\* Sorted by offset: each of those lines once, none before one of a lower offset.
ByOffset(order) ==
  /\ \A i \in Parsed : \E k \in DOMAIN order : order[k] = i
  /\ \A i, j \in DOMAIN order :
       i < j => order[i] # order[j] /\ lines[order[i]][1].offset <= lines[order[j]][1].offset

\* load_existing_file: the events of the lines that parse, in an order that
\* std::sort may leave them in.
LoadedEvents ==
  LET orders == UNION {[1..n -> Parsed] : n \in 0..Len(lines)}
  IN {[k \in DOMAIN order |-> lines[order[k]][1]] : order \in {o \in orders : ByOffset(o)}}

-----------------------------------------------------------------------------
(* Opening *)

NoLocals == [batch |-> <<>>, accepted |-> 0, committed |-> 0,
             last_try |-> FALSE,  \* flush's wait timed out
             closing |-> FALSE,   \* this flush is the one inside close
             goal |-> {}]         \* acked when flush was called
NoReader == [next |-> 0, seen |-> <<>>, done |-> FALSE]

\* The storage has never been opened and its file does not exist.
Init ==
  /\ queue = <<>> /\ queue_depth = 0 /\ queue_owner = NoOne
  /\ next_offset = 0 /\ accepted = 0 /\ committed = 0 /\ committed_events = <<>>
  /\ closed = FALSE /\ flush_owner = NoOne /\ good = TRUE /\ is_open = FALSE
  /\ pc = [t \in Threads |-> "exited"]
  /\ local = [t \in Threads |-> NoLocals]
  /\ reader = NoReader
  /\ lines = <<>> /\ unterminated = FALSE
  /\ up = FALSE /\ start_flusher_thread = FALSE
  /\ payloads = 0 /\ flushes = 0 /\ failures = 0 /\ restarts = 0
  /\ acked = {} /\ promised = {}

\* Mutant of FirstFreeOffset: the number of events instead of the last offset.
CountedOffset(events) == Len(events)

FirstFreeOffset(events) == IF events = <<>> THEN 0 ELSE events[Len(events)].offset + 1

\* The constructor: load_existing_file, open_output_file, start the flusher.
Open ==
  /\ ~up
  /\ up' = TRUE /\ start_flusher_thread' \in FlusherModes
  /\ queue' = <<>> /\ queue_depth' = 0 /\ queue_owner' = NoOne
  /\ \E events \in LoadedEvents :
       /\ next_offset' = FirstFreeOffset(events)
       /\ accepted' = Len(events) /\ committed' = Len(events)
       /\ committed_events' = events
       /\ acked' = PayloadsOf(events)
  /\ closed' = FALSE /\ flush_owner' = NoOne
  /\ good' = TRUE /\ is_open' = TRUE
  /\ pc' = [t \in Threads |->
             IF t = Flusher /\ ~start_flusher_thread' THEN "exited" ELSE "idle"]
  /\ local' = [t \in Threads |-> NoLocals]
  /\ reader' = NoReader
  /\ UNCHANGED <<lines, unterminated, promised, boundVars>>

Goto(t, label) == pc' = [pc EXCEPT ![t] = label]

-----------------------------------------------------------------------------
(* append *)

HasRoom == Len(queue) < QueueCapacity

\* Takes queue_mutex_ and passes the checks of closed_ and of the capacity.  A
\* call that fails one returns false and changes nothing but a metric.
AppendCheck(c) ==
  /\ up /\ pc[c] = "idle"
  /\ payloads < MaxEvents
  /\ queue_owner = NoOne
  /\ ~closed
  /\ HasRoom
  /\ queue_owner' = c
  /\ Goto(c, "append")
  /\ UNCHANGED <<queue, queue_depth, next_offset, accepted, commitVars, fileVars,
                 toldVars, boundVars, closed, flush_owner, local, openVars>>

\* Assigns the offset, pushes, counts and unlocks; the call returns true.
AppendPush(c) ==
  /\ up /\ pc[c] = "append"
  /\ queue' = Append(queue, [offset |-> next_offset, payload |-> payloads])
  /\ queue_depth' = Len(queue')
  /\ next_offset' = next_offset + 1
  /\ accepted' = accepted + 1
  /\ queue_owner' = NoOne
  /\ payloads' = payloads + 1
  /\ acked' = acked \cup {payloads}
  /\ Goto(c, "idle")
  /\ UNCHANGED <<commitVars, fileVars, promised, flushes, failures, restarts,
                 closed, flush_owner, local, openVars>>

-----------------------------------------------------------------------------
(* Draining and writing: the flusher, and flush when there is none *)

\* Mutant of NextBatch: pop_front before front.
NextBatchPopsFirst == SubSeq(queue, 2, Least(BatchSize, Len(queue)))

NextBatch == SubSeq(queue, 1, Least(BatchSize, Len(queue)))

\* Moves up to BatchSize events from the queue to the thread's batch.
DrainBatch(t) ==
  LET n == Least(BatchSize, Len(queue))
  IN /\ queue_owner = NoOne
     /\ queue # <<>>
     /\ local' = [local EXCEPT ![t].batch = NextBatch]
     /\ queue' = SubSeq(queue, n + 1, Len(queue))
     /\ queue_depth' = Len(queue')
     /\ Goto(t, "write")
     /\ UNCHANGED <<queue_owner, next_offset, accepted, commitVars, fileVars,
                    toldVars, boundVars, closed, flush_owner, openVars>>

FlusherDrain == up /\ pc[Flusher] = "idle" /\ DrainBatch(Flusher)

\* Mutant of MayExit: the flusher stops at once when it sees closed_.
MayExitWhenClosed == closed

MayExit == queue = <<>> /\ closed

\* The flusher leaves its loop: under the lock, nothing queued, and closed.
FlusherExit ==
  /\ up /\ pc[Flusher] = "idle"
  /\ queue_owner = NoOne
  /\ MayExit
  /\ Goto(Flusher, "exited")
  /\ UNCHANGED <<queueVars, commitVars, fileVars, toldVars, boundVars,
                 closed, flush_owner, local, openVars>>

\* write_batch, under file_mutex_: every line and the flush.  A stream that has
\* failed or is closed takes nothing, and nobody looks at it.
WriteLines(t) ==
  LET b == local[t].batch
      writes == good /\ is_open
  IN /\ up /\ pc[t] = "write"
     /\ lines' = IF writes THEN Written(b) ELSE lines
     /\ unterminated' = (unterminated /\ ~writes)
     /\ good' = writes
     /\ Goto(t, "commit")
     /\ UNCHANGED <<queueVars, commitVars, is_open, toldVars, boundVars,
                    closed, flush_owner, local, openVars>>

\* The same when the disk fails before the end.
WriteFails(t) ==
  /\ up /\ pc[t] = "write"
  /\ good /\ is_open
  /\ failures < MaxFailures
  /\ failures' = failures + 1
  /\ WriteCut(local[t].batch)
  /\ good' = FALSE
  /\ Goto(t, "commit")
  /\ UNCHANGED <<queueVars, commitVars, is_open, toldVars, payloads, flushes, restarts,
                 closed, flush_owner, local, openVars>>

\* write_batch, under committed_mutex_: replay can see the batch.
CommitEvents(t) ==
  /\ up /\ pc[t] = "commit"
  /\ committed_events' = committed_events \o local[t].batch
  /\ Goto(t, "count")
  /\ UNCHANGED <<queueVars, committed, reader, fileVars, toldVars, boundVars,
                 closed, flush_owner, local, openVars>>

\* write_batch's last statement; back to the loop of flusher_loop or of
\* flush_without_worker.
CountCommitted(t) ==
  /\ up /\ pc[t] = "count"
  /\ committed' = committed + Len(local[t].batch)
  /\ local' = [local EXCEPT ![t].batch = <<>>]
  /\ Goto(t, IF t = Flusher THEN "idle" ELSE "accepted")
  /\ UNCHANGED <<queueVars, committed_events, reader, fileVars, toldVars, boundVars,
                 closed, flush_owner, openVars>>

-----------------------------------------------------------------------------
(* flush *)

Flush(c) ==
  /\ up /\ pc[c] = "idle"
  /\ flushes < MaxFlushes
  /\ flushes' = flushes + 1
  /\ local' = [local EXCEPT ![c].goal = acked, ![c].last_try = FALSE]
  /\ Goto(c, "accepted")
  /\ UNCHANGED <<queueVars, commitVars, fileVars, toldVars, payloads, failures, restarts,
                 closed, flush_owner, openVars>>

\* The loop holds flush_mutex_ except while it waits; flush_without_worker
\* takes no mutex.
LoadAccepted(c) ==
  /\ up /\ pc[c] = "accepted"
  /\ IF start_flusher_thread
       THEN flush_owner = NoOne /\ flush_owner' = c
       ELSE UNCHANGED flush_owner
  /\ local' = [local EXCEPT ![c].accepted = accepted]
  /\ Goto(c, "committed")
  /\ UNCHANGED <<queueVars, commitVars, fileVars, toldVars, boundVars, closed, openVars>>

LoadCommitted(c) ==
  /\ up /\ pc[c] = "committed"
  /\ local' = [local EXCEPT ![c].committed = committed]
  /\ Goto(c, "queued")
  /\ UNCHANGED <<queueVars, commitVars, fileVars, toldVars, boundVars,
                 closed, flush_owner, openVars>>

\* Mutants of AllCommitted: only the queue is looked at; a strict comparison.
AllDequeued(c) == queue_depth = 0
MoreThanAllCommitted(c) == local[c].committed > local[c].accepted /\ queue_depth = 0

\* flush's test once queue_depth_ is loaded.
AllCommitted(c) == local[c].committed >= local[c].accepted /\ queue_depth = 0

ReturnFlush(c, ok) ==
  /\ promised' = IF ok /\ ~local[c].closing /\ start_flusher_thread THEN promised \cup local[c].goal ELSE promised
  /\ flush_owner' = IF flush_owner = c THEN NoOne ELSE flush_owner
  /\ Goto(c, IF local[c].closing THEN "shut" ELSE "idle")

\* The load of queue_depth_, and the way out of the loop that follows: sync and
\* return, return after a timeout (without looking at the stream), wait, or,
\* without a flusher, drain.
LoadQueued(c) ==
  /\ up /\ pc[c] = "queued"
  /\ \/ /\ start_flusher_thread /\ local[c].last_try
        /\ ReturnFlush(c, AllCommitted(c))
     \/ /\ ~local[c].last_try /\ AllCommitted(c)
        /\ Goto(c, "sync")
        /\ UNCHANGED <<promised, flush_owner>>
     \/ /\ ~local[c].last_try /\ ~AllCommitted(c)
        /\ Goto(c, IF start_flusher_thread THEN "wait" ELSE "drain")
        /\ flush_owner' = IF start_flusher_thread THEN NoOne ELSE flush_owner
        /\ UNCHANGED promised
  /\ UNCHANGED <<queueVars, commitVars, fileVars, acked, boundVars, closed, local, openVars>>

\* flush_cv_ is notified, or wakes spuriously, or the deadline has come.
Wake(c) ==
  /\ up /\ pc[c] = "wait"
  /\ \E timeout \in {FALSE, Timeouts} : local' = [local EXCEPT ![c].last_try = timeout]
  /\ Goto(c, "accepted")
  /\ UNCHANGED <<queueVars, commitVars, fileVars, toldVars, boundVars,
                 closed, flush_owner, openVars>>

\* flush_without_worker drains a batch itself, finds the queue empty and sleeps,
\* or gives up at its deadline.
DrainHere(c) == up /\ pc[c] = "drain" /\ DrainBatch(c)

SleepHere(c) ==
  /\ up /\ pc[c] = "drain"
  /\ queue_owner = NoOne /\ queue = <<>>
  /\ Goto(c, "accepted")
  /\ UNCHANGED <<queueVars, commitVars, fileVars, toldVars, boundVars,
                 closed, flush_owner, local, openVars>>

GiveUp(c) ==
  /\ up /\ pc[c] = "drain"
  /\ Timeouts
  /\ ReturnFlush(c, FALSE)
  /\ UNCHANGED <<queueVars, commitVars, fileVars, acked, boundVars, closed, local, openVars>>

\* output_.flush() under file_mutex_; the result is output_.good().
Sync(c) ==
  /\ up /\ pc[c] = "sync"
  /\ ReturnFlush(c, good)
  /\ UNCHANGED <<queueVars, commitVars, fileVars, acked, boundVars, closed, local, openVars>>

-----------------------------------------------------------------------------
(* close and replay *)

\* closed_.exchange(true), without queue_mutex_; a second call returns at once.
Close(c) ==
  /\ up /\ pc[c] = "idle"
  /\ ~closed
  /\ closed' = TRUE
  /\ IF start_flusher_thread
       THEN Goto(c, "join") /\ UNCHANGED local
       ELSE /\ Goto(c, "accepted")
            /\ local' = [local EXCEPT ![c].closing = TRUE, ![c].last_try = FALSE]
  /\ UNCHANGED <<queueVars, commitVars, fileVars, toldVars, boundVars, flush_owner, openVars>>

Join(c) ==
  /\ up /\ pc[c] = "join"
  /\ pc[Flusher] = "exited"
  /\ Goto(c, "shut")
  /\ UNCHANGED <<queueVars, commitVars, fileVars, toldVars, boundVars,
                 closed, flush_owner, local, openVars>>

\* Closes the file and clears queue_depth_.
Shut(c) ==
  /\ up /\ pc[c] = "shut"
  /\ is_open' = FALSE
  /\ queue_depth' = 0
  /\ Goto(c, "idle")
  /\ local' = [local EXCEPT ![c].closing = FALSE]
  /\ UNCHANGED <<queue, queue_owner, next_offset, accepted, commitVars, good, lines,
                 unterminated, toldVars, boundVars, closed, flush_owner, openVars>>

\* Mutant of AfterPage: the page's last event is returned again.
AtPageEnd(page) == page[Len(page)].offset

AfterPage(page) == page[Len(page)].offset + 1

\* Where matches_replay_filter holds.
Matching == {i \in DOMAIN committed_events : committed_events[i].offset >= reader.next}

\* replay with start_offset and max_events, as StorageReplayDriver pages with it:
\* the first matching events, up to the limit; the rest is for the next call,
\* from next_offset.  Without a rest it is the end of the stream.
ReplayPage ==
  /\ up /\ ~reader.done
  /\ \E n \in 0..PageSize : \E at \in [1..n -> Matching] :
       LET page == [k \in 1..n |-> committed_events[at[k]]]
           rest == Matching \ {at[k] : k \in 1..n}
       IN /\ \A k, l \in 1..n : k < l => at[k] < at[l]
          /\ \A k \in 1..n, i \in rest : at[k] < i
          /\ n = PageSize \/ rest = {}
          /\ reader' = [next |-> IF rest = {} THEN reader.next ELSE AfterPage(page),
                         seen |-> reader.seen \o page,
                         done |-> rest = {}]
  /\ UNCHANGED <<queueVars, committed, committed_events, fileVars, toldVars, boundVars,
                 closed, flush_owner, pc, local, openVars>>

-----------------------------------------------------------------------------
(* The process ends *)

Down ==
  /\ up
  /\ restarts < MaxRestarts
  /\ restarts' = restarts + 1
  /\ up' = FALSE
  /\ UNCHANGED <<queueVars, commitVars, good, is_open, toldVars, payloads, flushes, failures,
                 closed, flush_owner, pc, local, start_flusher_thread>>

\* It exits after close has returned.
Exit ==
  /\ ~is_open /\ \A c \in Clients : pc[c] = "idle"
  /\ Down
  /\ UNCHANGED <<lines, unterminated>>

\* It is killed, perhaps in the middle of a write.
Crash ==
  /\ Down
  /\ \/ UNCHANGED <<lines, unterminated>>
     \/ \E t \in Threads : pc[t] = "write" /\ good /\ is_open /\ WriteCut(local[t].batch)

-----------------------------------------------------------------------------
FlusherStep ==
  \/ FlusherDrain \/ FlusherExit
  \/ WriteLines(Flusher) \/ WriteFails(Flusher) \/ CommitEvents(Flusher)
  \/ CountCommitted(Flusher)

\* What a client inside a call does next.
ClientStep(c) ==
  \/ AppendPush(c)
  \/ LoadAccepted(c) \/ LoadCommitted(c) \/ LoadQueued(c) \/ Wake(c) \/ Sync(c)
  \/ DrainHere(c) \/ SleepHere(c) \/ GiveUp(c)
  \/ WriteLines(c) \/ WriteFails(c) \/ CommitEvents(c) \/ CountCommitted(c)
  \/ Join(c) \/ Shut(c)

Next ==
  \/ Open
  \/ \E c \in Clients : AppendCheck(c) \/ Flush(c) \/ Close(c) \/ ClientStep(c)
  \/ FlusherStep
  \/ ReplayPage
  \/ Exit
  \/ Crash

Spec == Init /\ [][Next]_vars

\* Threads inside a call, and the flusher, keep running.  A waiting flush wakes
\* at its deadline at the latest, even if a notification is lost.
Fairness ==
  /\ WF_vars(FlusherStep)
  /\ \A c \in Clients : WF_vars(ClientStep(c))

FairSpec == Spec /\ Fairness

-----------------------------------------------------------------------------
(* Properties.  ReplayAlwaysInOffsetOrder and OneObjectPerLine do not hold; the
   README says why. *)

\* Events a thread has taken from the queue and not yet committed.
InFlight(t) == IF pc[t] \in {"write", "commit"} THEN local[t].batch ELSE <<>>

\* What opening the file again would give.
Stored == {lines[i][1].payload : i \in Parsed}

\* No write has failed and no line of the file was cut short.
Undamaged ==
  failures = 0 /\ ~unterminated /\ \A i \in DOMAIN lines : Parses(lines[i])

InOrder(s) == \A i, j \in DOMAIN s : i < j => s[i].offset < s[j].offset

\* With the flusher thread, replay returns events strictly by offset:
\* committed_events_ is sorted and no offset is used twice, whatever was lost
\* before the last restart.
ReplayInOffsetOrder == up /\ start_flusher_thread => InOrder(committed_events)

\* The same without regard to the flusher thread.
ReplayAlwaysInOffsetOrder == up => InOrder(committed_events)

\* A reader that pages through replay by next_offset sees every committed event
\* up to the last one it got, once, even while batches are committed.
PagesAreComplete ==
  LET seen == reader.seen
  IN up /\ start_flusher_thread =>
       /\ InOrder(seen)
       /\ SeqRange(seen) =
            {e \in SeqRange(committed_events) : seen # <<>> /\ e.offset <= seen[Len(seen)].offset}

\* What flush vouched for by returning true (every append that had returned when
\* it was called) is in an undamaged file, now and after any crash.
FlushIsDurable == Undamaged => promised \subseteq Stored

\* When close has ended the flusher thread and closed an undamaged file, every
\* event accepted since it was opened, or loaded from it, is in it.
CloseDrains ==
  up /\ start_flusher_thread /\ ~is_open /\ Undamaged => acked \subseteq Stored

\* No line of the file holds more than one JSON object or part of one.
OneObjectPerLine == \A i \in DOMAIN lines : Len(lines[i]) = 1

\* With the flusher thread, and within one run of the process, the storage is the
\* log that IStorage promises: what is committed, what the flusher has in hand and
\* what is queued are always one sequence in offset order that only grows at its
\* end, replay sees a prefix of it, and all of it when close has returned.
Abstract ==
  INSTANCE Storage WITH
    Payloads <- 0..(MaxEvents - 1),
    log <- IF start_flusher_thread THEN committed_events \o InFlight(Flusher) \o queue ELSE <<>>,
    visible <- IF start_flusher_thread THEN Len(committed_events) ELSE 0,
    closed <- start_flusher_thread /\ ~is_open
ImplementsStorage == Abstract!Spec

\* With the flusher thread an accepted event is eventually committed, also when close comes in between.
EveryEventCommitted ==
  \A p \in 0..(MaxEvents - 1) :
    (up /\ start_flusher_thread /\ p \in acked) ~> (~up \/ p \in PayloadsOf(committed_events))

\* append, flush and close return: nobody waits forever for queue_mutex_,
\* flush_mutex_, the flusher's exit or the counters flush compares.
EveryCallReturns ==
  \A c \in Clients : (up /\ pc[c] # "idle") ~> (~up \/ pc[c] = "idle")
=============================================================================
