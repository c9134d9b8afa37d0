------------------------------ MODULE Observers ------------------------------
(***************************************************************************)
(* What the gateway concludes from an answer it forwards: the observers of *)
(* protocol/ for the three API families and StreamCompletion of cache.rs,  *)
(* as operators on their state.                                            *)
(*                                                                         *)
(* A JSON value is a record of what the code looks at:                     *)
(*   error, signals   a non-null error; status, code and type of the error *)
(*                  or, without one, of the value                          *)
(*   type, status   status of the value itself                             *)
(*   hasUsage, usage    a usage object and its counts                      *)
(*   chat           listed (choices is an array) and choices: index, delta *)
(*                  (none, role, empty, text, tool, refusal) and finish    *)
(*   responses      response (status, reason, error, shape, usage), shape  *)
(*   messages       index, shape and stop                                  *)
(* shape: the text, item, part or output the value carries is plain text.  *)
(* A token count is a number, Absent or Bad (not a u64).  The marker of    *)
(* the first output delta, which only a metric counts, is left out.        *)
(***************************************************************************)
EXTENDS Integers, Sequences

CONSTANT MaxTokens    \* the largest u64

ASSUME ObserversAssumption == MaxTokens \in Nat \ {0}

Absent == -1
Bad == -2

TokenCount == Nat \cup {Absent, Bad}

Usages == [in : TokenCount, out : TokenCount, read : TokenCount, created : TokenCount]

ChatChoices == [index : Nat \cup {Absent}, delta : STRING, finish : STRING]

OrZero(n) == IF n = Absent THEN 0 ELSE n

(* usage.in, .out, .read and .created, or no usage at all. *)
NoUsage == [in |-> Absent, out |-> Absent, read |-> Absent, created |-> Absent]

Observed(usage) ==
    [in |-> usage.in, out |-> usage.out,
     read |-> OrZero(usage.read), created |-> OrZero(usage.created)]

(* Only Messages says what it wrote to its cache. *)
Reported(endpoint, usage) ==
    [usage EXCEPT !.created = IF endpoint = "messages" THEN @ ELSE Absent]

(* ObservedUsage::total, Absent on overflow and on what cannot be.  Only   *)
(* Messages' input excludes what the provider's cache held.                *)
CheckedAdd(m, n) == IF m = Absent \/ m + n > MaxTokens THEN Absent ELSE m + n

Total(endpoint, u) ==
    LET total == CheckedAdd(u.in, u.out)
    IN  CASE endpoint = "messages" -> CheckedAdd(CheckedAdd(total, u.created), u.read)
          [] endpoint \in {"chat", "responses"} ->
                IF u.read <= u.in /\ u.created = 0 THEN total ELSE Absent

(* Some count fell from one report to the next. *)
Falls(previous, u) ==
    /\ previous # NoUsage
    /\ u.in < previous.in \/ u.out < previous.out \/ u.read < previous.read

-----------------------------------------------------------------------------
(* response_error: what an error says of itself, when it says one thing. *)
Classify(endpoint, signal) ==
    IF signal.code # Absent
    THEN CASE signal.code \in {500, 502, 503, 504, 529} -> "server"
           [] signal.code = 429 -> "rate_limit"
           [] signal.code \in (400..499) \ {429} -> "client"
           [] OTHER -> "unknown"
    ELSE CASE \/ signal.name \in {"server_error", "internal_server_error"}
              \/ /\ signal.name \in {"api_error", "overloaded_error", "timeout_error"}
                 /\ endpoint = "messages" -> "server"
           [] signal.name \in {"rate_limit_error", "rate_limit_exceeded"} -> "rate_limit"
           [] signal.name \in {"invalid_request_error", "authentication_error",
                               "permission_error", "not_found_error", "billing_error",
                               "conflict_error", "request_too_large",
                               "context_length_exceeded", "insufficient_quota"} -> "client"
           [] OTHER -> "none"

Failed(endpoint, event, v) ==
    \/ event = "error" \/ v.type = "error"
    \/ endpoint = "responses" /\ (v.type = "response.failed" \/ v.status = "failed")
    \/ endpoint = "chat" /\ \E i \in DOMAIN v.choices : v.choices[i].finish = "error"

ResponseError(endpoint, event, v) ==
    LET classes == {Classify(endpoint, s) : s \in v.signals} \ {"none"}
        error == v.error \/ (endpoint = "responses" /\ v.response.error)
    IN  IF ~error /\ ~Failed(endpoint, event, v) THEN "none"
        ELSE IF \E c \in classes : classes = {c} THEN CHOOSE c \in classes : TRUE
        ELSE "unknown"

-----------------------------------------------------------------------------
(* StreamCompletion: whether a stream is one plain text answer, complete.  *)
NewCompletion ==
    [invalid |-> FALSE, stopped |-> FALSE, terminal |-> FALSE, text |-> FALSE,
     started |-> FALSE, open |-> FALSE, block |-> 0]

Complete(c) == ~c.invalid /\ c.stopped /\ c.terminal /\ c.text

Invalidate(c) == [c EXCEPT !.invalid = TRUE]

Done(c) == [c EXCEPT !.invalid = @ \/ c.terminal, !.terminal = TRUE]

ChatCompletion(c, v) ==
    LET choice == v.choices[1]
        ends == choice.finish # "null"
    IN  IF ~v.listed THEN Invalidate(c)
        ELSE IF v.choices = <<>> THEN c
        ELSE IF Len(v.choices) # 1 \/ c.stopped \/ choice.delta = "none" THEN Invalidate(c)
        ELSE [c EXCEPT !.invalid = \/ @ \/ choice.index \notin {Absent, 0}
                                   \/ choice.delta \in {"tool", "refusal"}
                                   \/ ends /\ choice.finish # "stop",
                       !.text = @ \/ choice.delta \in {"empty", "text"},
                       !.stopped = IF ends THEN choice.finish = "stop" ELSE @]

(* A value that names no type is of the type its event names. *)
Kind(event, v) == IF v.type = "none" THEN event ELSE v.type

MessagesCompletion(c, event, v) ==
    LET kind == Kind(event, v)
        late == c.stopped /\ kind # "message_stop"
        here == c.started /\ c.open /\ v.index = c.block
        stops == v.stop \in {"end_turn", "stop_sequence"}
    IN  CASE kind = "message_start" ->
               [c EXCEPT !.invalid = @ \/ late \/ c.started \/ ~v.shape, !.started = TRUE]
          [] kind = "content_block_start" ->
               [c EXCEPT !.invalid = \/ @ \/ late \/ ~v.shape \/ ~c.started
                                     \/ c.open \/ v.index # c.block,
                         !.open = TRUE, !.text = @ \/ v.shape]
          [] kind = "content_block_delta" ->
               [c EXCEPT !.invalid = @ \/ late \/ ~here \/ ~v.shape,
                         !.text = @ \/ v.shape]
          [] kind = "content_block_stop" ->
               [c EXCEPT !.invalid = @ \/ late \/ ~here, !.open = FALSE, !.block = @ + 1]
          [] kind = "message_delta" ->
               [c EXCEPT !.invalid = @ \/ late \/ ~c.started \/ c.open \/ ~stops,
                         !.stopped = stops]
          [] kind = "message_stop" ->
               [c EXCEPT !.invalid = @ \/ ~c.started \/ ~c.stopped \/ c.open,
                         !.terminal = TRUE]
          [] kind = "ping" -> [c EXCEPT !.invalid = @ \/ late]
          [] OTHER -> Invalidate(c)

CompleteResponse(response) ==
    /\ response.status = "completed" /\ ~response.error
    /\ response.reason = "none" /\ response.shape

ResponsesCompletion(c, v) ==
    CASE v.type = "response.completed" ->
           [c EXCEPT !.stopped = CompleteResponse(v.response), !.terminal = TRUE,
                     !.text = @ \/ CompleteResponse(v.response)]
      [] v.type \in {"response.output_text.delta", "response.output_text.done",
                     "response.output_item.added", "response.output_item.done",
                     "response.content_part.added", "response.content_part.done",
                     "response.created", "response.in_progress"} ->
           [c EXCEPT !.invalid = @ \/ ~v.shape]
      [] OTHER -> Invalidate(c)

Completion(endpoint, c, event, v) ==
    IF c.terminal \/ v.error THEN Invalidate(c)
    ELSE CASE endpoint = "chat" -> ChatCompletion(c, v)
           [] endpoint = "messages" -> MessagesCompletion(c, event, v)
           [] endpoint = "responses" -> ResponsesCompletion(c, v)

-----------------------------------------------------------------------------
(* EndpointObserver and its three observers.  usage is the last report     *)
(* that counts; outputSeen that a message_delta gave its output.           *)
NewObserver(endpoint, cache) ==
    [endpoint |-> endpoint, cache |-> cache, completion |-> NewCompletion,
     usage |-> NoUsage, invalid |-> FALSE, terminal |-> FALSE,
     completed |-> FALSE, outputSeen |-> FALSE, error |-> "none"]

MarkInvalid(o) ==
    [o EXCEPT !.invalid = TRUE, !.completion = Invalidate(@)]

Unusable(o) == [o EXCEPT !.invalid = TRUE]

Counted(usage) == usage.in >= 0 /\ usage.out >= 0 /\ usage.read # Bad

(* completions.rs: usage comes before [DONE], in a chunk with no choices.  *)
ChatObserve(o, v) ==
    LET u == Observed(Reported("chat", v.usage))
    IN  IF v.error THEN Unusable(o)
        ELSE IF ~v.hasUsage THEN o
        ELSE IF o.terminal THEN Unusable(o)
        ELSE IF ~v.listed \/ v.choices # <<>> THEN o
        ELSE IF ~Counted(v.usage) \/ u.read > u.in \/ Falls(o.usage, u) THEN Unusable(o)
        ELSE [o EXCEPT !.usage = u]

SupportedIncomplete(response) ==
    /\ response.status = "incomplete"
    /\ response.reason \in {"max_output_tokens", "content_filter"}

(* Fault: a completed response after a failed one is believed. *)
ResponsesObserveAnew(o, v) ==
    LET completed == v.type = "response.completed"
        u == Observed(Reported("responses", v.response.usage))
    IN  CASE v.type \in {"response.completed", "response.incomplete"} ->
               [o EXCEPT !.terminal = TRUE, !.completed = completed, !.usage = u]
          [] OTHER -> o

(* responses.rs: usage comes with the terminal event; one that differs     *)
(* from an earlier terminal, or follows a failure, is not believed.        *)
ResponsesObserve(o, v) ==
    LET completed == v.type = "response.completed"
        response == v.response
        u == Observed(Reported("responses", response.usage))
        ended == [o EXCEPT !.terminal = TRUE, !.completed = completed,
                           !.invalid = @ \/ (o.terminal /\ o.completed # completed)]
    IN  CASE v.type \in {"response.completed", "response.incomplete"} ->
               IF \/ completed /\ response.status \notin {"none", "completed"}
                  \/ ~completed /\ ~SupportedIncomplete(response)
                  \/ response.error
                  \/ ~Counted(response.usage)
                  \/ Total("responses", u) = Absent
                  \/ Falls(o.usage, u)
               THEN Unusable(ended)
               ELSE [ended EXCEPT !.usage = u]
          [] v.type \in {"response.failed", "error"} -> Unusable([o EXCEPT !.terminal = TRUE])
          [] OTHER -> o

(* messages.rs: counts arrive piecemeal and never fall. *)
Counts == {"in", "out", "read", "created"}

AssignUsage(o, usage) ==
    [o EXCEPT !.usage = [k \in Counts |-> IF usage[k] >= 0 THEN usage[k] ELSE @[k]],
              !.invalid = @ \/ \E k \in Counts :
                                  usage[k] = Bad \/ usage[k] \in 0..(o.usage[k] - 1)]

MessagesObserve(o, event, v) ==
    LET kind == Kind(event, v)
        reports == v.hasUsage /\ kind \in {"message_start", "message_delta"}
        assigned == AssignUsage(o, v.usage)
    IN  CASE reports /\ o.terminal -> Unusable(o)
          [] reports /\ ~o.terminal ->
               [assigned EXCEPT !.outputSeen = \/ @
                   \/ /\ kind = "message_delta"
                      /\ v.usage.out # Absent /\ assigned.usage.out # Absent]
          [] kind = "message_stop" -> [o EXCEPT !.terminal = TRUE]
          [] kind = "error" -> Unusable(o)
          [] OTHER -> o

FamilyObserve(o, event, v) ==
    LET seen == IF o.cache
                THEN [o EXCEPT !.completion = Completion(o.endpoint, @, event, v)]
                ELSE o
    IN  CASE o.endpoint = "chat" -> ChatObserve(seen, v)
          [] o.endpoint = "responses" -> ResponsesObserve(seen, v)
          [] o.endpoint = "messages" -> MessagesObserve(seen, event, v)

(* Fault: a later error replaces it. *)
LastError(o, error) == [o EXCEPT !.error = error]

(* The first error stays. *)
FirstError(o, error) == [o EXCEPT !.error = IF @ = "none" THEN error ELSE @]

ObserveDone(o) ==
    IF o.endpoint = "chat"
    THEN [o EXCEPT !.terminal = TRUE, !.completion = Done(@)]
    ELSE MarkInvalid(o)

ObserveUnparsed(o, event) ==
    MarkInvalid(IF event = "error" THEN FirstError(o, "unknown") ELSE o)

ObserveValue(o, event, v) ==
    LET error == ResponseError(o.endpoint, event, v)
    IN  FamilyObserve(IF error = "none" THEN o ELSE MarkInvalid(FirstError(o, error)), event, v)

(* finish and cache_complete, at the end of the body. *)
FinishUsage(o) ==
    IF \/ o.invalid \/ ~o.terminal
       \/ o.endpoint = "messages" /\ (~o.outputSeen \/ o.usage.in = Absent)
       \/ o.usage = NoUsage
    THEN NoUsage
    ELSE Observed(o.usage)

CacheComplete(o) == o.cache /\ Complete(o.completion)

-----------------------------------------------------------------------------
(* json.rs and complete_json: an answer that is one JSON value.            *)
JsonComplete(endpoint, v) ==
    /\ ~v.error
    /\ CASE endpoint = "chat" ->
              /\ Len(v.choices) = 1
              /\ v.choices[1].finish = "stop" /\ v.choices[1].delta \in {"empty", "text"}
         [] endpoint = "messages" ->
              v.type = "message" /\ v.shape /\ v.stop \in {"end_turn", "stop_sequence"}
         [] endpoint = "responses" -> CompleteResponse(v.response)

JsonEnded(endpoint, v) ==
    CASE endpoint = "chat" ->
           /\ v.choices # <<>>
           /\ \A i \in DOMAIN v.choices :
                 /\ v.choices[i].delta # "none"
                 /\ v.choices[i].finish \in {"stop", "length", "tool_calls",
                                             "function_call", "content_filter"}
      [] endpoint = "responses" ->
           \/ v.response.status = "completed" /\ v.response.reason = "none"
           \/ SupportedIncomplete(v.response)
      [] endpoint = "messages" -> v.type = "message" /\ v.stop # "none"

JsonUsage(endpoint, v) ==
    LET usage == Reported(endpoint, IF endpoint = "responses" THEN v.response.usage ELSE v.usage)
    IN  IF /\ ~v.error /\ JsonEnded(endpoint, v)
           /\ Counted(usage) /\ usage.created # Bad
           /\ Total(endpoint, Observed(usage)) # Absent
        THEN Observed(usage)
        ELSE NoUsage
=============================================================================
