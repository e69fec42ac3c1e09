----------------------------- MODULE Transcript -----------------------------
(***************************************************************************)
(* What a Stop learns from the host's transcript: the tool calls that were *)
(* declined (transcript.rs) and, where it is opted into, the turn's prompt *)
(* and reply (prompt_insight.rs), with on_stop's offsets and the requests  *)
(* it makes (send_turn_submissions).                                       *)
(*                                                                         *)
(* The transcript is a sequence of tokens.  The host writes the lines of a *)
(* conversation one after the other, each in one go or in two, so that a   *)
(* Stop may find half a line at the end; it may begin a new file, and fire *)
(* SessionStart again, which begins from a default state.  Both sweeps are *)
(* made in one step, as on_stop makes them under the lock of SessionLock; *)
(* either may find a file it cannot read.                                  *)
(***************************************************************************)
EXTENDS Naturals, Sequences, SequencesExt, FiniteSets, FiniteSetsExt

CONSTANTS
    Conversation,   \* the conversations of an instance, each a sequence of messages
    ClassOf(_),     \* classify_path of to_repo_relative (module Extract), as a set
    MaxTail,        \* MAX_TAIL_BYTES, in tokens
    MaxRead,        \* MAX_READ_BYTES, in tokens
    Budget,         \* OBJECT_START_BUDGET, in tokens
    MaxStops, MaxFaults  \* the bounds of the model

ASSUME TranscriptAssumption ==
    /\ MaxTail \in Nat \ {0} /\ MaxRead \in Nat /\ Budget \in Nat /\ MaxStops \in Nat /\ MaxFaults \in Nat

VARIABLES
    script,                  \* the conversation
    file, rest,              \* the transcript; what is left to write of its last line
    base, written,           \* the lines before this file, and those begun
    offset, lineOffset,      \* transcript_offset, prompt_insight_line_offset,
    insightSeq, seen,        \* prompt_insight_seq, the "ed:" ids of
                             \* seen_tool_use_ids
    optIns,                  \* prompt_insights_enabled, live_feedback_enabled
    rejections,              \* the events of declined calls: [id, class]
    sending,                 \* the submissions of the Stop that is sending
    posted,                  \* what was posted: [to, turn, prompt, response]
    stops, faults, starts,   \* counted
    sweptLines, unread       \* history: the lines begun when each sweep last
                             \* went over the file, and the sweeps that may
                             \* take a new file for the old one

conversation == <<script, file, rest, base, written>>
session == <<offset, lineOffset, insightSeq, seen, optIns>>
sent == <<rejections, sending, posted>>
history == <<stops, faults, starts, sweptLines, unread>>
vars == <<conversation, session, sent, history>>

-----------------------------------------------------------------------------
(* How the host writes a line: a message of a role with blocks, which are  *)
(* tool calls, their results and texts.  The id of a result comes first or *)
(* last in it; the content of some results quotes what a decline says.     *)

Call(id, path) == [is |-> "call", id |-> id, value |-> path, idFirst |-> TRUE]
Result(id, answer, idFirst) == [is |-> "result", id |-> id, value |-> answer, idFirst |-> idFirst]
Says(text) == [is |-> "text", id |-> "", value |-> text, idFirst |-> TRUE]

Token(kind, value) == [kind |-> kind, value |-> value]

Written(block) ==
    LET open == <<Token("open", "")>>
        id == <<Token("tool_use_id", block.id)>>
        content == <<Token("content", IF block.value \in {"declined", "quoted"} THEN "decline" ELSE "other")>>
                   \o IF block.value \in {"declined", "failed"} THEN <<Token("error", "")>> ELSE <<>>
        type == <<Token("tool_result", "")>>
    IN CASE block.is = "call" -> open \o <<Token("tool_use", ""), Token("id", block.id)>> \o open \o <<Token("file_path", block.value)>>
         [] block.is = "text" -> open \o <<Token("text", block.value)>>
         [] block.is = "result" /\ block.idFirst -> open \o id \o type \o content
         [] OTHER -> open \o type \o content \o id

LineOf(message) ==
    <<Token("role", message.role), Token("id", "message")>>
    \o FlattenSeq([i \in DOMAIN message.blocks |-> Written(message.blocks[i])]) \o <<Token("close", "")>>

Newline == [kind |-> "newline", value |-> ""]
Destinations == {"insights", "live-feedback"}
Sweeps == {"declines", "turns"}

Init ==
    /\ script \in Conversation
    /\ file = <<>> /\ rest = <<>> /\ base = 0 /\ written = 0
    /\ offset = 0 /\ lineOffset = 0 /\ insightSeq = 0 /\ seen = {}
    /\ optIns \in SUBSET Destinations
    /\ rejections = <<>> /\ sending = <<>> /\ posted = <<>>
    /\ stops = 0 /\ faults = 0 /\ starts = 1 /\ sweptLines = [s \in Sweeps |-> 0] /\ unread = {}

-----------------------------------------------------------------------------
(* Scan::line of transcript.rs, at position k of buffer b.                 *)

Kinds(b, from, to, kinds) == {j \in from..to : b[j].kind \in kinds}
Marker == {"tool_use", "tool_result"}

LineStart(b, k) == 1 + Max({0} \cup Kinds(b, 1, k - 1, {"newline"}))
LineEnd(b, k) == Min({Len(b) + 1} \cup Kinds(b, k, Len(b), {"newline"}))

\* A block owns the span from the marker before it to the marker after it.
Lower(b, k) == Max({LineStart(b, k) - 1} \cup Kinds(b, LineStart(b, k), k - 1, Marker))
Upper(b, k) == Min({LineEnd(b, k)} \cup Kinds(b, k + 1, LineEnd(b, k) - 1, Marker))

\* object_start: where the object of the marker opens, within the budget.
ObjectStart(b, k) ==
    LET floor == Max({Lower(b, k) + 1, k - Min({k, Budget})})
        opens == Kinds(b, floor, k - 1, {"open"})
    IN IF opens = {} THEN k ELSE Max(opens)

\* read_string_field and block_string_field: {} for None.
Forward(b, k, key) ==
    LET at == Kinds(b, k + 1, Upper(b, k) - 1, {key})
    IN IF at = {} THEN {} ELSE {b[Min(at)].value}

\* Mutant: a key behind the marker is not looked for.
FieldAhead(b, k, key) == Forward(b, k, key)
Field(b, k, key) ==
    LET behind == Kinds(b, ObjectStart(b, k), k - 1, {key})
    IN IF behind # {} THEN {b[Max(behind)].value} ELSE Forward(b, k, key)

PathKeys == <<"file_path", "notebook_path", "filePath", "path">>
RawPath(b, k) ==
    LET found == {i \in DOMAIN PathKeys : Forward(b, k, PathKeys[i]) # {}}
    IN IF found = {} THEN {} ELSE Forward(b, k, PathKeys[Min(found)])

\* declined: an error whose content begins with a decline.
\* Mutant: the error is not asked for.
IsDeclinedByText(b, k) == Forward(b, k, "content") = {"decline"}
IsDeclined(b, k) == Forward(b, k, "error") # {} /\ Forward(b, k, "content") = {"decline"}

-----------------------------------------------------------------------------
\* The bytes sweep_transcript reads, from the byte before the tail on.
StartOf(size) == IF size > MaxTail THEN size - MaxTail - 1 ELSE 0

\* The first line of a tail that begins within a record is skipped.
Skipped(size, b, k) == size > MaxTail /\ b[1] # Newline /\ LineStart(b, k) = 1

IsNew(start, b, k, from) == start + LineStart(b, k) - 1 >= from

\* sweep_transcript: the declined calls of lines that begin at the offset or
\* after it, each once, with the class of the path its last call so far had.
SweepTranscript(from) ==
    LET size == Len(file)
        offset0 == IF from > size THEN 0 ELSE from
        start == StartOf(size)
        b == SubSeq(file, start + 1, size)
        Read(kind) == {k \in Kinds(b, 1, Len(b), {kind}) : ~Skipped(size, b, k)}
        Class(id, k) ==
            LET uses == {u \in Read("tool_use") : u < k /\ Field(b, u, "id") = {id}}
            IN IF uses = {} THEN {} ELSE UNION {ClassOf(p) : p \in RawPath(b, Max(uses))}
        hits == {k \in Read("tool_result") :
                    IsNew(start, b, k, offset0) /\ IsDeclined(b, k) /\ Field(b, k, "tool_use_id") # {}}
        Id(k) == CHOOSE id \in Field(b, k, "tool_use_id") : TRUE
        first == {k \in hits : \A j \in hits : j < k => Id(j) # Id(k)}
    IN [i \in 1..Cardinality(first) |->
           LET k == SetToSortSeq(first, <)[i] IN [id |-> Id(k), class |-> Class(Id(k), k)]]

-----------------------------------------------------------------------------
(* prompt_insight.rs.                                                      *)

\* The lines of the file, the last of which may be half a line.
FileLines ==
    LET ends == {0, Len(file) + 1} \cup Kinds(file, 1, Len(file), {"newline"})
        bounds == SetToSortSeq(ends, <)
        pieces == [i \in 1..Len(bounds) - 1 |-> SubSeq(file, bounds[i] + 1, bounds[i + 1] - 1)]
    IN SelectSeq(pieces, LAMBDA piece : piece # <<>>)

Parses(line) == Last(line).kind = "close"
Role(line) == line[1].value

\* text_of and joined_text: what every text block says, <<>> for None.
TextOf(line) ==
    LET texts == SelectSeq(line, LAMBDA t : t.kind = "text")
    IN [i \in DOMAIN texts |-> texts[i].value]

\* real_user_prompt: none for a message that brings a tool's result.
RealPrompt(line) == IF Kinds(line, 1, Len(line), {"tool_result"}) # {} THEN <<>> ELSE TextOf(line)

\* Mutant: the reply is kept for the next prompt.
FlushKeepingReply(s) == [turns |-> IF s.prompt = <<>> \/ s.response = <<>> THEN s.turns
                                   ELSE Append(s.turns, [prompt |-> s.prompt, response |-> s.response]),
                         prompt |-> <<>>, response |-> s.response]

\* flush: a prompt without a reply is dropped.
Flush(s) == [turns |-> IF s.prompt = <<>> \/ s.response = <<>> THEN s.turns
                       ELSE Append(s.turns, [prompt |-> s.prompt, response |-> s.response]),
             prompt |-> <<>>, response |-> <<>>]

ReadLine(s, line) ==
    CASE ~Parses(line) -> s
      [] Parses(line) /\ Role(line) = "user" ->
             IF RealPrompt(line) = <<>> THEN s ELSE [Flush(s) EXCEPT !.prompt = RealPrompt(line)]
      [] OTHER -> IF s.prompt = <<>> THEN s ELSE [s EXCEPT !.response = @ \o TextOf(line)]

\* Mutant: the piece after the last newline always counts as a line.
SweepTurnsSplit(from) ==
    LET lines == FileLines
        start == IF from > Len(lines) THEN 0 ELSE from
        nothing == [prompt |-> <<>>, response |-> <<>>, turns |-> <<>>]
    IN [turns |-> Flush(FoldLeft(ReadLine, nothing, SubSeq(lines, start + 1, Len(lines)))).turns,
        lineOffset |-> 1 + Cardinality(Kinds(file, 1, Len(file), {"newline"}))]

\* sweep_prompt_insight_turns.  A file that is too large is passed over, and
\* the count that is kept then includes the piece after the last newline.
SweepTurns(from) ==
    LET lines == FileLines
        start == IF from > Len(lines) THEN 0 ELSE from
        nothing == [prompt |-> <<>>, response |-> <<>>, turns |-> <<>>]
    IN IF Len(file) > MaxRead
       THEN [turns |-> <<>>, lineOffset |-> 1 + Cardinality(Kinds(file, 1, Len(file), {"newline"}))]
       ELSE [turns |-> Flush(FoldLeft(ReadLine, nothing, SubSeq(lines, start + 1, Len(lines)))).turns,
             lineOffset |-> Len(lines)]

-----------------------------------------------------------------------------
(* The host.                                                               *)

\* The host writes the next line, or begins it.
Write ==
    /\ rest = <<>> /\ written < Len(script)
    /\ LET line == Append(LineOf(script[written + 1]), Newline)
       IN \E n \in 1..Len(line) : /\ file' = file \o SubSeq(line, 1, n)
                                  /\ rest' = SubSeq(line, n + 1, Len(line))
    /\ written' = written + 1
    /\ UNCHANGED <<script, base, session, sent, history>>

WriteRest ==
    /\ rest # <<>>
    /\ file' = file \o rest /\ rest' = <<>>
    /\ UNCHANGED <<script, base, written, session, sent, history>>

\* The conversation goes on in a new file.
Replace ==
    /\ faults < MaxFaults /\ rest = <<>> /\ written > base
    /\ file' = <<>> /\ base' = written
    /\ faults' = faults + 1
    /\ unread' = Sweeps
    /\ UNCHANGED <<script, rest, written, session, sent, stops, starts, sweptLines>>

\* SessionStart again; the answer may have other opt-ins.
StartAgain ==
    /\ faults < MaxFaults /\ sending = <<>>
    /\ offset' = 0 /\ lineOffset' = 0 /\ insightSeq' = 0 /\ seen' = {}
    /\ optIns' \in SUBSET Destinations
    /\ faults' = faults + 1 /\ starts' = starts + 1
    /\ sweptLines' = [s \in Sweeps |-> base] /\ unread' = {}
    /\ UNCHANGED <<conversation, sent, stops>>

-----------------------------------------------------------------------------
(* hooks.rs.                                                               *)

\* What on_stop does with the results of its two sweeps, those of over having
\* gone over the file.
TakeIn(declines, newOffset, turns, over) ==
    /\ stops < MaxStops /\ sending = <<>>
    /\ LET found == SelectSeq(declines, LAMBDA r : r.id \notin seen)
       IN /\ rejections' = rejections \o found
          /\ seen' = seen \cup {r.id : r \in ToSet(found)}
    /\ offset' = newOffset
    /\ lineOffset' = turns.lineOffset
    /\ insightSeq' = insightSeq + Len(turns.turns)
    /\ sending' = [i \in DOMAIN turns.turns |->
                      [turn |-> insightSeq + i, prompt |-> turns.turns[i].prompt, response |-> turns.turns[i].response]]
    /\ stops' = stops + 1
    /\ sweptLines' = [s \in Sweeps |-> IF s \in over THEN written ELSE sweptLines[s]]
    /\ unread' = unread \ over
    /\ UNCHANGED <<conversation, optIns, posted, starts>>

NoTurns == [turns |-> <<>>, lineOffset |-> lineOffset]
Turns == IF optIns = {} THEN NoTurns ELSE SweepTurns(lineOffset)

\* on_stop: what it does with the transcript under the lock.
Stop ==
    /\ TakeIn(SweepTranscript(offset), Len(file), Turns, Sweeps)
    /\ UNCHANGED faults

\* The same when the file cannot be read.  A sweep for declines that knows its
\* size passes it over, one that does not leaves it to the next Stop, as the
\* sweep for turns does in either case.
StopUnread ==
    /\ faults < MaxFaults /\ faults' = faults + 1
    /\ \/ TakeIn(<<>>, offset, NoTurns, {})
       \/ TakeIn(<<>>, offset, Turns, {"turns"})
       \/ TakeIn(<<>>, Len(file), NoTurns, {"declines"})
       \/ TakeIn(<<>>, Len(file), Turns, Sweeps)
       \/ TakeIn(SweepTranscript(offset), Len(file), NoTurns, {"declines"})

\* send_turn_submissions, one submission: with a credential it is posted once
\* to each destination, without one only the receipt tells of it.
Send ==
    /\ sending # <<>>
    /\ \E to \in {optIns, {}} :
           posted' = posted \o [i \in 1..Cardinality(to) |-> Head(sending) @@ [to |-> SetToSeq(to)[i]]]
    /\ sending' = Tail(sending)
    /\ UNCHANGED <<conversation, session, rejections, history>>

\* The process ends while it sends.
Kill ==
    /\ faults < MaxFaults /\ sending # <<>>
    /\ sending' = <<>>
    /\ faults' = faults + 1
    /\ UNCHANGED <<conversation, session, rejections, posted, stops, starts, sweptLines, unread>>

Next == Write \/ WriteRest \/ Replace \/ StartAgain \/ Stop \/ StopUnread \/ Send \/ Kill

Spec == Init /\ [][Next]_vars
-----------------------------------------------------------------------------
(* What the host told, in terms of the messages and not of the bytes.      *)

\* The messages that can be read: a missing newline takes nothing from one.
Whole == base + 1 .. IF rest \in {<<>>, <<Newline>>} THEN written ELSE written - 1

Blocks(i) == ToSet(script[i].blocks)
DeclinedIn(i) == {b.id : b \in {b \in Blocks(i) : b.is = "result" /\ b.value = "declined"}}
PathsOf(id) == {b.value : b \in {b \in UNION {Blocks(i) : i \in DOMAIN script} : b.is = "call" /\ b.id = id}}

Texts(i) == LET texts == SelectSeq(script[i].blocks, LAMBDA b : b.is = "text")
            IN [j \in DOMAIN texts |-> texts[j].value]
Prompts == {i \in DOMAIN script : script[i].role = "user" /\ Texts(i) # <<>>}

\* What the assistant said to prompt i in the messages up to n.
Replies(i, n) ==
    LET later == {j \in Prompts : j > i}
        upTo == Min({n} \cup {j - 1 : j \in later})
    IN FlattenSeq([j \in 1..upTo - i |-> IF script[i + j].role = "assistant" THEN Texts(i + j) ELSE <<>>])

\* Where message i begins in the file.
Before(i) == FoldFunction(+, 0, [j \in base + 1 .. i - 1 |-> Len(LineOf(script[j])) + 1])

\* The messages a sweep goes over for the first time.
New(sweep) == {i \in Whole : i > sweptLines[sweep]}

\* Every rejection is of a call the developer declined, with the class of the
\* path it was pointed at (without one if the call is out of sight), and is
\* reported once for every SessionStart: no result that only quotes a decline,
\* no id or path of another block, no line that was half there.
RejectionsAreDeclines ==
    \A i \in DOMAIN rejections :
        LET r == rejections[i]
            class == UNION {ClassOf(p) : p \in PathsOf(r.id)}
        IN /\ r.id \in UNION {DeclinedIn(j) : j \in 1..written}
           /\ r.class \in {class, {}}
           /\ base = 0 /\ Len(file) <= MaxTail => r.class = class
           /\ Cardinality({j \in DOMAIN rejections : rejections[j].id = r.id}) <= starts

\* A Stop that can read the file reports every call whose decline was written
\* since the last one that went over it, be it that one could not be told the
\* size in between: unless a part of its message was there at that Stop, or the
\* message begins before the tail, or a new file has reached the size of the
\* old one.  What a Stop knew the size of and could not read was gone over.
DeclinesReported ==
    [][stops' # stops /\ faults' = faults /\ ~("declines" \in unread /\ Len(file) >= offset) =>
          UNION {DeclinedIn(i) : i \in {i \in New("declines") : Len(file) - Before(i) <= MaxTail}}
             \subseteq {r.id : r \in ToSet(rejections')}]_vars

\* What is posted is a prompt with what the assistant said to it, from the
\* first word on; once to each destination for every SessionStart, and (until
\* a second one) under an id of its own.
SubmittedAsWritten ==
    \A i \in DOMAIN posted :
        LET s == posted[i]
        IN /\ \E p \in Prompts : Texts(p) = s.prompt /\ s.response # <<>> /\ IsPrefix(s.response, Replies(p, written))
           /\ Cardinality({j \in DOMAIN posted : posted[j].to = s.to /\ posted[j].prompt = s.prompt}) <= starts
           /\ starts = 1 => \A t \in ToSet(posted) : t.turn = s.turn => t.prompt = s.prompt

\* A Stop that can read the file submits every prompt that was written since
\* the last one that could, with all of its reply so far: unless a part of the
\* prompt was there at that Stop, or the file is too large, or a new file has
\* as many lines as the old one had.
TurnsSubmitted ==
    [][stops' # stops /\ faults' = faults /\ optIns # {} /\ Len(file) <= MaxRead
       /\ ~("turns" \in unread /\ written - base >= lineOffset) =>
          \A p \in Prompts \cap New("turns") :
              LET reply == Replies(p, Max(Whole))
              IN reply # <<>> => \E s \in ToSet(sending') : Texts(p) = s.prompt /\ s.response = reply]_vars
=============================================================================
