----------------------------- MODULE MCStreams -----------------------------
(* Raw texts against the reference parser, and the event sequences of each *)
(* family: the answer as its provider sends it, mixed with what breaks it. *)
EXTENDS Streams

Plain == [error |-> FALSE, signals |-> {}, type |-> "none", status |-> "none",
          hasUsage |-> FALSE, usage |-> NoUsage, listed |-> FALSE, choices |-> <<>>,
          response |-> [status |-> "none", reason |-> "none", error |-> FALSE,
                        shape |-> FALSE, usage |-> NoUsage],
          index |-> Absent, shape |-> TRUE, stop |-> "none"]

Usage(in, out) == [NoUsage EXCEPT !.in = in, !.out = out]

Choice(delta, finish) ==
    [Plain EXCEPT !.listed = TRUE,
                  !.choices = <<[index |-> 0, delta |-> delta, finish |-> finish]>>]

ChatUsage(usage) == [Plain EXCEPT !.listed = TRUE, !.hasUsage = TRUE, !.usage = usage]

Typed(type) == [Plain EXCEPT !.type = type]

Response(type, status, usage) ==
    [Typed(type) EXCEPT !.status = status,
        !.response = [status |-> status, reason |-> "none", error |-> FALSE,
                      shape |-> TRUE, usage |-> usage]]

Signal(code, name) == [code |-> code, name |-> name]

MCValues == [
    text     |-> Choice("text", "null"),
    stop     |-> Choice("role", "stop"),
    length   |-> Choice("role", "length"),
    usage1   |-> ChatUsage(Usage(1, 1)),
    usage2   |-> ChatUsage([Usage(2, 1) EXCEPT !.read = 1]),
    badUsage |-> ChatUsage([Usage(1, 2) EXCEPT !.read = Bad]),
    error    |-> [Plain EXCEPT !.error = TRUE, !.signals = {Signal(500, "none")}],
    clash    |-> [Plain EXCEPT !.error = TRUE,
                               !.signals = {Signal(429, "none"), Signal(Absent, "server_error")}],
    limited  |-> [Plain EXCEPT !.error = TRUE,
                               !.signals = {Signal(429, "none"), Signal(Absent, "rate_limit_error")}],
    created  |-> Response("response.created", "in_progress", NoUsage),
    delta    |-> Typed("response.output_text.delta"),
    done1    |-> Response("response.completed", "completed", Usage(1, 1)),
    done2    |-> Response("response.completed", "completed", [Usage(2, 1) EXCEPT !.read = 1]),
    done4    |-> Response("response.completed", "completed", Usage(2, 2)),
    partial  |-> [Response("response.incomplete", "incomplete", Usage(1, 1))
                    EXCEPT !.response.reason = "max_output_tokens"],
    failed   |-> Response("response.failed", "failed", NoUsage),
    start    |-> [Typed("message_start") EXCEPT !.hasUsage = TRUE,
                                                !.usage = [Usage(1, 1) EXCEPT !.created = 1]],
    open     |-> [Typed("content_block_start") EXCEPT !.index = 0],
    tool     |-> [Typed("content_block_start") EXCEPT !.index = 0, !.shape = FALSE],
    close    |-> [Typed("content_block_stop") EXCEPT !.index = 0],
    finish   |-> [Typed("message_delta") EXCEPT !.hasUsage = TRUE, !.stop = "end_turn",
                                                !.usage = [NoUsage EXCEPT !.out = 2]],
    fewer    |-> [Plain EXCEPT !.hasUsage = TRUE, !.usage = [NoUsage EXCEPT !.out = 0]],
    halt     |-> Typed("message_stop"),
    ping     |-> Typed("ping"),
    message  |-> [Typed("message") EXCEPT !.hasUsage = TRUE, !.stop = "end_turn",
                                          !.usage = [Usage(1, 1) EXCEPT !.created = 2]]
]

Request == [forbidsReuse |-> FALSE, size |-> 1, parses |-> TRUE, tools |-> FALSE,
            store |-> "false", history |-> 1, known |-> TRUE, plain |-> TRUE, n |-> Absent]

AnswerHead(type) == [status |-> 200, forbidsReuse |-> FALSE, unsafe |-> FALSE,
               encodings |-> <<>>, types |-> <<type>>]

Feed(endpoint, type, chunks, limit) ==
    [endpoint |-> endpoint, request |-> Request, head |-> AnswerHead(type),
     chunks |-> chunks, limit |-> limit]

Event(symbol) == <<"data", ":", symbol, LF, LF>>
Named(event, symbol) == <<"event", ":", event, LF>> \o Event(symbol)

EventFeed(endpoint, symbols, more, n) ==
    Feed(endpoint, "text/event-stream", {Event(s) : s \in symbols} \cup more, 5 * n)

Texts == Feed("chat", "text/event-stream",
              {<<s>> : s \in {"ef", "bb", "text", ":", " ", CR, LF}} \cup
              {Bom, <<"data">>, <<"event", ":", " ", "error">>}, 4)

Lines == Feed("chat", "text/event-stream",
              {<<"data", ":", " ">>, <<"data">>, <<"event", ":", "error">>, <<"event">>,
               <<":">>, <<"text">>, <<CR>>, <<LF>>}, 6)

Blocks == Feed("chat", "text/event-stream",
               {<<"data", ":", "text", LF>>, <<"data", CR, LF>>, <<"event", ":", " ", "error", CR>>,
                <<"event", ":", "error", "text", LF>>, <<"event", LF>>, <<":", "text", LF>>, <<LF>>}, 12)

MCFeeds == {
    Texts, Lines, Blocks,
    EventFeed("chat", {"text", "stop", "usage1", "usage2", "[DONE]", "error"},
              {<<"data", ":", "text">>}, 5),
    EventFeed("chat", {"text", "length", "badUsage", "clash", "limited", "stop", "[DONE]"},
              {Named("error", "[DONE]")}, 4),
    EventFeed("responses", {"created", "delta", "done1", "done2", "partial", "failed", "error"}, {}, 5),
    EventFeed("responses", {"delta", "done2", "done4", "[DONE]", "text"}, {<<":", LF>>}, 4),
    EventFeed("messages", {"start", "open", "close", "finish", "halt"}, {}, 6),
    EventFeed("messages", {"start", "finish", "halt", "error", "tool"},
              {Named("message_delta", "fewer"), Named("error", "ping"), Event("ping")}, 5),
    Feed("messages", "application/json", {<<"message">>, <<" ">>, <<"error">>}, 4),
    Feed("chat", "application/json", {<<"stop">>, <<" ">>, <<"usage1">>}, 2),
    [Feed("chat", "text/event-stream", {Event("text"), Event("[DONE]"), Event("stop")}, 15)
        EXCEPT !.request.tools = TRUE],
    [Feed("chat", "text/event-stream", {Event("text")}, 5) EXCEPT !.head.encodings = <<"gzip">>]
}
=============================================================================
