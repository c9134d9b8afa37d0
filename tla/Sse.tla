-------------------------------- MODULE Sse --------------------------------
(***************************************************************************)
(* SseDecoder of transport/stream.rs as operators on its state, and the    *)
(* same format defined as a whole: what a complete text says, line by      *)
(* line, without any state between bytes.                                  *)
(*                                                                         *)
(* A text is a sequence of symbols.  A symbol is a byte that the format    *)
(* gives a meaning, or a word of bytes it does not look into: the field    *)
(* names "data" and "event", event names, payloads.                        *)
(***************************************************************************)
EXTENDS Integers, Sequences, FiniteSets, SequencesExt, FiniteSetsExt

CONSTANTS
    StorageSize,     \* EVENT_STORAGE_BYTES
    NameSize         \* EVENT_NAME_BYTES

ASSUME SseAssumption == StorageSize \in Nat \ {0} /\ NameSize \in Nat \ {0}

CR == "cr"
LF == "lf"
Breaks == {CR, LF}
Bom == <<"ef", "bb", "bf">>

KnownEvents == {"message_start", "message_delta", "content_block_delta",
                "message_stop", "error"}

(* SseEvent: the empty name is Default, which as_str gives as None; a name *)
(* that is too long or not known is one more name.                         *)
EventOf(name) ==
    IF name = <<>> THEN "none"
    ELSE IF Len(name) = 1 /\ name[1] \in KnownEvents THEN name[1]
    ELSE "unknown"

-----------------------------------------------------------------------------
(* storage holds the event's data up to lineStart and the line's field     *)
(* name after it; out collects what dispatch_event hands to the endpoint.  *)
NewDecoder ==
    [storage |-> <<>>, lineStart |-> 0, kind |-> "field", strip |-> FALSE,
     event |-> "none", name |-> <<>>, nameOverflow |-> FALSE,
     hasData |-> FALSE, pendingCr |-> FALSE, bomChecked |-> FALSE,
     bomPrefix |-> <<>>, overflowed |-> FALSE, out |-> <<>>]

Push(d, s) ==
    IF Len(d.storage) = StorageSize THEN [d EXCEPT !.overflowed = TRUE]
    ELSE [d EXCEPT !.storage = Append(@, s)]

ResetName(d) == [d EXCEPT !.name = <<>>, !.nameOverflow = FALSE]

Field(d) == SubSeq(d.storage, d.lineStart + 1, Len(d.storage))

NameRead(d) == [d EXCEPT !.storage = SubSeq(@, 1, d.lineStart)]

(* A further data line is joined to those before it. *)
Joined(d) == IF d.hasData THEN Push(d, LF) ELSE d

Colon(d) ==
    CASE Field(d) = <<>>        -> [d EXCEPT !.kind = "ignore"]
      [] Field(d) = <<"data">>  -> [Joined(NameRead(d)) EXCEPT !.kind = "data", !.strip = TRUE]
      [] Field(d) = <<"event">> -> [ResetName(NameRead(d)) EXCEPT !.kind = "event", !.strip = TRUE]
      [] OTHER                  -> [NameRead(d) EXCEPT !.kind = "ignore"]

NamePushed(d, s) ==
    IF Len(d.name) < NameSize THEN [d EXCEPT !.name = Append(@, s)]
    ELSE [d EXCEPT !.nameOverflow = TRUE]

ProcessLineByte(d, s) ==
    LET value == [d EXCEPT !.strip = FALSE]
        stripped == d.strip /\ s = " "
    IN  CASE d.kind = "field" -> IF s = ":" THEN Colon(d) ELSE Push(d, s)
          [] d.kind = "ignore" -> d
          [] d.kind = "data" -> IF stripped THEN value ELSE Push(value, s)
          [] d.kind = "event" -> IF stripped THEN value ELSE NamePushed(value, s)

(* Fault: an event keeps the name of the one before it. *)
DispatchEventNamed(d) ==
    [d EXCEPT !.storage = <<>>, !.lineStart = 0, !.hasData = FALSE,
              !.out = IF d.hasData THEN Append(@, [event |-> d.event, data |-> d.storage])
                      ELSE @]

DispatchEvent(d) ==
    [d EXCEPT !.storage = <<>>, !.lineStart = 0, !.hasData = FALSE,
              !.event = "none",
              !.out = IF d.hasData THEN Append(@, [event |-> d.event, data |-> d.storage])
                      ELSE @]

LineRead(d) ==
    CASE d.kind = "field" ->
           CASE Field(d) = <<>>        -> DispatchEvent(d)
             [] Field(d) = <<"data">>  -> [Joined(NameRead(d)) EXCEPT !.hasData = TRUE]
             [] Field(d) = <<"event">> -> [NameRead(d) EXCEPT !.event = "none"]
             [] OTHER                  -> NameRead(d)
      [] d.kind = "data"   -> [d EXCEPT !.hasData = TRUE]
      [] d.kind = "event"  -> [d EXCEPT !.event = IF d.nameOverflow THEN "unknown"
                                                  ELSE EventOf(d.name)]
      [] d.kind = "ignore" -> d

FinishLine(d) ==
    LET read == LineRead(d)
    IN  ResetName([read EXCEPT !.lineStart = Len(read.storage),
                               !.kind = "field", !.strip = FALSE])

Process(d, s) ==
    IF d.overflowed THEN d
    ELSE IF d.pendingCr /\ s = LF THEN [d EXCEPT !.pendingCr = FALSE]
    ELSE IF s \in Breaks THEN [FinishLine(d) EXCEPT !.pendingCr = s = CR]
    ELSE ProcessLineByte([d EXCEPT !.pendingCr = FALSE], s)

(* Before the first byte that cannot belong to a byte order mark, bytes    *)
(* are set aside; all of them are processed when it comes.                 *)
ProcessFirst(d, s) ==
    LET prefix == Append(d.bomPrefix, s)
        checked == [d EXCEPT !.bomChecked = TRUE, !.bomPrefix = <<>>]
    IN  IF prefix = Bom THEN checked
        ELSE IF IsPrefix(prefix, Bom) THEN [d EXCEPT !.bomPrefix = prefix]
        ELSE FoldLeft(Process, checked, prefix)

ObserveByte(d, s) ==
    IF d.overflowed \/ d.bomChecked THEN Process(d, s) ELSE ProcessFirst(d, s)

Observe(d, chunk) == FoldLeft(ObserveByte, d, chunk)

(* Fault: a text may end inside a line. *)
AnyBoundary(d) == ~d.hasData /\ d.event = "none" /\ d.bomChecked

AtEventBoundary(d) ==
    /\ d.storage = <<>> /\ ~d.hasData /\ d.kind = "field"
    /\ d.event = "none" /\ d.name = <<>>
    /\ d.bomChecked /\ d.bomPrefix = <<>>

-----------------------------------------------------------------------------
InOrder(S) ==
    [k \in 1..Cardinality(S) |-> CHOOSE n \in S : Cardinality({m \in S : m < n}) = k - 1]

(* The reference.  A line ends at a carriage return, a line feed or the    *)
(* two together; a text may begin with one byte order mark.                *)
Body(text) == IF IsPrefix(Bom, text) THEN SubSeq(text, 4, Len(text)) ELSE text

LineEnds(t) ==
    {i \in DOMAIN t : t[i] \in Breaks /\ ~(t[i] = LF /\ i > 1 /\ t[i - 1] = CR)}

LineStart(t, i) == 1 + Max({0} \cup {j \in 1..(i - 1) : t[j] \in Breaks})

Line(t, i) == SubSeq(t, LineStart(t, i), i - 1)

Blanks(t) == {i \in LineEnds(t) : Line(t, i) = <<>>}

(* A line is a field and its value, less one space after the colon. *)
FieldOf(line) ==
    IF ":" \notin ToSet(line) THEN line
    ELSE SubSeq(line, 1, SelectInSeq(line, LAMBDA s : s = ":") - 1)

ValueOf(line) ==
    LET rest == SubSeq(line, Len(FieldOf(line)) + 2, Len(line))
    IN  IF rest # <<>> /\ rest[1] = " " THEN Tail(rest) ELSE rest

(* The lines of the block that the blank line at i ends. *)
Block(t, i) ==
    LET previous == Max({0} \cup {j \in Blanks(t) : j < i})
        ends == InOrder({j \in LineEnds(t) : previous < j /\ j < i})
    IN  [k \in DOMAIN ends |-> Line(t, ends[k])]

FieldValues(block, field) ==
    LET lines == InOrder({k \in DOMAIN block : FieldOf(block[k]) = field})
    IN  [k \in DOMAIN lines |-> ValueOf(block[lines[k]])]

NameOf(block) ==
    LET names == FieldValues(block, <<"event">>)
    IN  IF names = <<>> THEN "none" ELSE EventOf(Last(names))

DataOf(block) ==
    LET values == FieldValues(block, <<"data">>)
    IN  Tail(FlattenSeq([k \in DOMAIN values |-> <<LF>> \o values[k]]))

(* The events of a text: its blocks with data, in order. *)
Events(text) ==
    LET t == Body(text)
        ends == InOrder({i \in Blanks(t) : FieldValues(Block(t, i), <<"data">>) # <<>>})
    IN  [k \in DOMAIN ends |-> LET block == Block(t, ends[k])
                               IN  [event |-> NameOf(block), data |-> DataOf(block)]]

(* The text ends with a complete line, and nothing of an event follows the *)
(* last blank one.                                                         *)
EndsBetweenEvents(text) ==
    LET t == Body(text)
        blank == Max({0} \cup Blanks(t))
        rest == InOrder({j \in LineEnds(t) : j > blank})
        lines == [k \in DOMAIN rest |-> Line(t, rest[k])]
    IN  /\ ~IsStrictPrefix(text, Bom)
        /\ t = <<>> \/ Last(t) \in Breaks
        /\ FieldValues(lines, <<"data">>) = <<>> /\ NameOf(lines) = "none"
=============================================================================
