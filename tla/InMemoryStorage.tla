-------------------------- MODULE InMemoryStorage --------------------------
(***************************************************************************)
(* InMemoryStorage of src/storage/in_memory_storage.cpp.  Every operation  *)
(* is a critical section of mutex_, so each is one step.  An event is a    *)
(* record with a type, a ticker (of the payload), ingest_ts_ns and what    *)
(* its readers use of the payload; its offset is its place, from 0.        *)
(***************************************************************************)
EXTENDS Naturals, Sequences

CONSTANTS
  None,       \* an empty std::optional
  Unlimited   \* max_events = 0

VARIABLES
  events,  \* events_
  closed   \* closed_

storageVars == <<events, closed>>

StorageInit == events = <<>> /\ closed = FALSE

\* append; the callers' payloads always match their type.
StorageAppend(e) ==
  /\ events' = IF closed THEN events ELSE Append(events, e)
  /\ UNCHANGED closed

StorageClose == closed' = TRUE /\ UNCHANGED events

\* event_ticker: a response has none.
EventTicker(e) == IF e.type = "OrderResponse" THEN None ELSE e.ticker

\* matches_replay_filter for the event at an offset.
Matches(offset, request) ==
  LET e == events[offset + 1]
  IN /\ request.start_offset # None => offset >= request.start_offset
     /\ request.start_ts # None => e.ingest_ts >= request.start_ts
     /\ request.end_ts # None => e.ingest_ts <= request.end_ts
     /\ request.ticker # None => EventTicker(e) = request.ticker

\* Offsets that replay would deliver if there were no limit.
Matching(request) == {offset \in 0..(Len(events) - 1) : Matches(offset, request)}

\* Mutant of NextOffset: the page's last event itself.
NextOffsetAgain(page) == page[Len(page)]

\* Where the next page starts.
NextOffset(page) == page[Len(page)] + 1

\* What replay leaves for later pages.
Beyond(page, request) == Matching(request) \ {page[k] : k \in DOMAIN page}

\* The first matching offsets in order, as many as the limit allows.
IsPage(page, request) ==
  /\ \A k, l \in DOMAIN page : k < l => page[k] < page[l]
  /\ \A k \in DOMAIN page : \A offset \in Beyond(page, request) : page[k] < offset
  /\ request.max_events # Unlimited => Len(page) <= request.max_events
  /\ Beyond(page, request) # {} => Len(page) = request.max_events

\* replay: the offsets of a page (there is one), and how to go on.
Replay(request) ==
  LET pages == UNION {[1..n -> Matching(request)] : n \in 0..Len(events)}
      done(page) == Beyond(page, request) = {}
  IN {[events |-> page, end_of_stream |-> done(page),
       next_offset |-> IF done(page) THEN None ELSE NextOffset(page)] :
        page \in {p \in pages : IsPage(p, request)}}
=============================================================================
