------------------------------ MODULE Streams ------------------------------
(***************************************************************************)
(* ResponseObserver of transport/stream.rs over one answer: chunks of the  *)
(* body pass the decoder and the family's observer while they are          *)
(* forwarded; at the end of the body the gateway decides what usage the    *)
(* ledger settles, whether the exact cache keeps the answer and which      *)
(* error it reports.                                                       *)
(*                                                                         *)
(* A feed is a request, the head of its answer and the chunks its body may *)
(* consist of, in any order and number up to its limit of symbols.         *)
(***************************************************************************)
EXTENDS Sse, Observers

CONSTANTS
    Feeds,
    Values,          \* the JSON value each payload symbol stands for
    MetadataSize,    \* MAX_EVENT_METADATA
    RequestSize,     \* REQUEST_BYTES of the cache
    MaxHistory       \* max_history of the cache

ASSUME StreamsAssumption ==
    MetadataSize \in Nat /\ RequestSize \in Nat /\ MaxHistory \in Nat

(* A feed's body is made of symbols; no symbol that stands for a value is  *)
(* the [DONE] that ends a chat stream.                                     *)
ASSUME FeedsAssumption ==
    \A f \in Feeds :
       /\ f.endpoint \in {"chat", "responses", "messages", "models", "count_tokens"}
       /\ f.chunks \subseteq Seq(STRING)

ASSUME ValuesAssumption ==
    /\ "[DONE]" \notin DOMAIN Values
    /\ \A s \in DOMAIN Values :
          /\ Values[s].usage \in Usages /\ Values[s].response.usage \in Usages
          /\ Values[s].choices \in Seq(ChatChoices)

VARIABLES
    feed,        \* chosen once
    text,        \* the body so far
    decoder,     \* SseDecoder, or the storage of a JSON body
    observer,    \* EndpointObserver
    seen,        \* history: the events the decoder dispatched
    end,         \* open or eof; a body that fails stays open
    result       \* usage, complete and error, from finish

streamVars == <<feed, text, decoder, observer, seen, end, result>>

-----------------------------------------------------------------------------
(* bypass_reason: requests whose answer depends on more than the request,  *)
(* or whose shape the cache does not know, are not cached.                 *)
Eligible(endpoint, request) ==
    /\ request.known /\ request.plain
    /\ endpoint = "chat" => request.n \in {Absent, 1}

BypassReason(endpoint, request) ==
    IF request.forbidsReuse THEN "request_cache_control"
    ELSE IF request.size > RequestSize THEN "size"
    ELSE IF endpoint \in {"models", "count_tokens"} THEN "endpoint"
    ELSE IF ~request.parses THEN "unsupported_shape"
    ELSE IF request.tools \/ (endpoint = "responses" /\ request.store # "false") THEN "tools_state"
    ELSE IF request.history > MaxHistory THEN "history"
    ELSE IF ~Eligible(endpoint, request) THEN "unsupported_shape"
    ELSE "none"

Media == {"application/json", "text/event-stream"}

(* Pending::capture, as far as the head decides it. *)
Capturable(head) ==
    /\ head.status = 200 /\ ~head.forbidsReuse /\ ~head.unsafe
    /\ ToSet(head.encodings) \subseteq {"identity"}
    /\ Len(head.types) = 1 /\ head.types[1] \in Media

Cached == BypassReason(feed.endpoint, feed.request) = "none" /\ Capturable(feed.head)

(* observable_representation, and what ResponseObserver::new makes of it.  *)
ObservableRepresentation(head) ==
    IF /\ head.status = 200
       /\ head.encodings \in {<<>>, <<"identity">>}
       /\ Len(head.types) = 1 /\ head.types[1] \in Media
    THEN head.types[1]
    ELSE "none"

Representation ==
    IF feed.endpoint \in {"models", "count_tokens"} THEN "none"
    ELSE ObservableRepresentation(feed.head)

-----------------------------------------------------------------------------
(* A payload with blanks around it still parses; anything else does not.   *)
Words(data) == {k \in DOMAIN data : data[k] \notin {" ", CR, LF}}

Parses(data) == \E k \in Words(data) : Words(data) = {k} /\ data[k] \in DOMAIN Values

Parsed(data) == Values[data[CHOOSE k \in Words(data) : TRUE]]

IsDone(e) == e.data = <<"[DONE]">> /\ e.event # "error"

(* EndpointObserver::observe *)
ObserveEvent(o, e) ==
    IF IsDone(e) THEN ObserveDone(o)
    ELSE IF ~Parses(e.data) THEN ObserveUnparsed(o, e.event)
    ELSE ObserveValue(o, e.event, Parsed(e.data))

ObserveJson(d, chunk) ==
    IF d.overflowed THEN d
    ELSE IF Len(chunk) > MetadataSize - Len(d.storage) THEN [d EXCEPT !.overflowed = TRUE]
    ELSE [d EXCEPT !.storage = @ \o chunk]

NoResult == [usage |-> NoUsage, complete |-> FALSE, error |-> "none"]

StreamInit ==
    /\ feed \in Feeds
    /\ text = <<>> /\ seen = <<>> /\ end = "open"
    /\ decoder = NewDecoder
    /\ observer = NewObserver(feed.endpoint, Cached)
    /\ result = NoResult

(* observe: storage that overflows invalidates what was observed. *)
ObserveChunk(chunk) ==
    /\ end = "open" /\ Len(text) + Len(chunk) <= feed.limit
    /\ text' = text \o chunk
    /\ CASE Representation = "text/event-stream" ->
              LET d == Observe(decoder, chunk)
                  o == FoldLeft(ObserveEvent, observer, d.out)
              IN  /\ decoder' = [d EXCEPT !.out = <<>>]
                  /\ observer' = IF d.overflowed THEN MarkInvalid(o) ELSE o
                  /\ seen' = seen \o d.out
         [] Representation = "application/json" ->
              decoder' = ObserveJson(decoder, chunk) /\ UNCHANGED <<observer, seen>>
         [] Representation = "none" -> UNCHANGED <<decoder, observer, seen>>
    /\ UNCHANGED <<feed, end, result>>

FinishSse ==
    [usage |-> FinishUsage(observer),
     complete |-> AtEventBoundary(decoder) /\ CacheComplete(observer),
     error |-> observer.error]

FinishJson ==
    IF ~Parses(decoder.storage) THEN NoResult
    ELSE LET v == Parsed(decoder.storage)
             error == ResponseError(feed.endpoint, "none", v)
         IN  IF error # "none" THEN [NoResult EXCEPT !.error = error]
             ELSE [usage |-> JsonUsage(feed.endpoint, v),
                   complete |-> observer.cache /\ JsonComplete(feed.endpoint, v),
                   error |-> "none"]

(* A clean end of the body. *)
Finish ==
    /\ end = "open" /\ end' = "eof"
    /\ result' = IF Representation = "none" THEN NoResult
                 ELSE IF decoder.overflowed THEN [NoResult EXCEPT !.error = observer.error]
                 ELSE IF Representation = "text/event-stream" THEN FinishSse
                 ELSE FinishJson
    /\ UNCHANGED <<feed, text, decoder, observer, seen>>

StreamNext == Finish \/ \E chunk \in feed.chunks : ObserveChunk(chunk)

StreamSpec == StreamInit /\ [][StreamNext]_streamVars

-----------------------------------------------------------------------------
(* However a stream is cut into chunks, SseDecoder hands on the events the *)
(* text contains, in order; one that overflows stops at some event.        *)
DecodesByReference ==
    Representation = "text/event-stream" /\ end = "eof" =>
        IF decoder.overflowed THEN IsPrefix(seen, Events(text)) ELSE seen = Events(text)

(* What the events of a text say, whatever the observers made of them.     *)
Errors(events) ==
    {k \in DOMAIN events :
        \/ Parses(events[k].data) /\
              ResponseError(feed.endpoint, events[k].event, Parsed(events[k].data)) # "none"
        \/ ~Parses(events[k].data) /\ events[k].event = "error"}

Terminal(e) ==
    \/ feed.endpoint = "chat" /\ IsDone(e)
    \/ /\ Parses(e.data)
       /\ \/ /\ feed.endpoint = "responses"
             /\ Parsed(e.data).type \in {"response.completed", "response.incomplete"}
          \/ /\ feed.endpoint = "messages"
             /\ Kind(e.event, Parsed(e.data)) = "message_stop"

(* The usage that an event reports as the answer's. *)
ReportOf(e) ==
    IF ~Parses(e.data) THEN NoUsage
    ELSE LET v == Parsed(e.data)
         IN  CASE feed.endpoint = "chat" ->
                    IF v.hasUsage /\ v.listed /\ v.choices = <<>>
                    THEN Reported("chat", v.usage) ELSE NoUsage
               [] feed.endpoint = "responses" ->
                    IF Terminal(e) THEN Reported("responses", v.response.usage) ELSE NoUsage
               [] feed.endpoint = "messages" ->
                    IF /\ v.hasUsage
                       /\ Kind(e.event, v) \in {"message_start", "message_delta"}
                    THEN v.usage ELSE NoUsage

Most(events, k) == Max({0} \cup {ReportOf(events[i])[k] : i \in DOMAIN events})

(* The ledger settles a stream's usage only after its end was announced,   *)
(* with no error before or after that, and settles the most that was       *)
(* reported: neither an early count nor one that a later event took back.  *)
UsageIsFinal ==
    Representation = "text/event-stream" /\ result.usage # NoUsage =>
        LET events == Events(text)
        IN  /\ end = "eof" /\ Errors(events) = {}
            /\ \E k \in DOMAIN events : Terminal(events[k])
            /\ \A k \in Counts : result.usage[k] = Most(events, k)

(* The cache keeps a stream only if it is one answer and all of it: an     *)
(* eligible request, no error, nothing that does not parse, exactly one    *)
(* end, with which the text ends, and the stop that announces it.          *)
CompleteMeansWhole ==
    Representation = "text/event-stream" /\ result.complete =>
        LET events == Events(text)
            ends == {k \in DOMAIN events : Terminal(events[k])}
            stops == {k \in DOMAIN events :
                        /\ Parses(events[k].data)
                        /\ LET v == Parsed(events[k].data)
                           IN  \/ /\ feed.endpoint = "chat"
                                  /\ \E i \in DOMAIN v.choices : v.choices[i].finish = "stop"
                               \/ /\ feed.endpoint = "messages"
                                  /\ Kind(events[k].event, v) = "message_delta"
                                  /\ v.stop \in {"end_turn", "stop_sequence"}
                               \/ /\ feed.endpoint = "responses"
                                  /\ v.type = "response.completed"
                                  /\ CompleteResponse(v.response)}
        IN  /\ end = "eof" /\ Cached /\ EndsBetweenEvents(text)
            /\ Errors(events) = {}
            /\ ends = {Len(events)}
            /\ \A k \in DOMAIN events : Parses(events[k].data) \/ k \in ends
            /\ \E k \in stops : stops = {k}

(* The error that is reported is the first one in the text, however the    *)
(* stream goes on and even if it ends well.                                *)
FirstErrorReported ==
    Representation = "text/event-stream" /\ end = "eof" =>
        LET errors == Errors(seen)
        IN  result.error =
              IF errors = {} THEN "none"
              ELSE LET e == seen[Min(errors)]
                   IN  IF Parses(e.data)
                       THEN ResponseError(feed.endpoint, e.event, Parsed(e.data))
                       ELSE "unknown"
=============================================================================
