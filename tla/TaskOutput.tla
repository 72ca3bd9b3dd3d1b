----------------------------- MODULE TaskOutput -----------------------------
(***************************************************************************)
(* What tasks print: the three reporters with their writers                *)
(* (session/reporter/interleaved, labeled, grouped, plain.rs,              *)
(* retrying_writer.rs), pipe_stdio in execute/pipe.rs, which fills them    *)
(* and captures what a later hit replays, and the order in which           *)
(* execute_spawn and execute_leaf write, drop a writer and finish.         *)
(*                                                                         *)
(* Both streams lead to one terminal.  A character is visible ("x"), a     *)
(* newline, or one half of a colour sequence; "start" and "end" may be     *)
(* read apart.  The runner's thread stands in a write until it is done,    *)
(* while a process that inherits the terminal goes on.                     *)
(***************************************************************************)
EXTENDS Integers, SequencesExt, FiniteSetsExt

CONSTANTS
  Scripts,        \* functions from leaves to [kind, out, err]: what a leaf is
  Modes,          \* the reporters of this instance
  None

VARIABLES
  mode,           \* --log, or "plain" and "silent" for a synthetic execution
  stripped,       \* the streams whose colours are stripped
  script,
  stage,          \* of each leaf
  left,           \* what each leaf has still to print, per stream
  inColour,       \* its StripStream is inside a colour sequence
  held,           \* the last line of a LabeledWriter, while it is incomplete
  block,          \* what a GroupedWriter has collected
  capture,        \* the chunks captured for a replay
  stored,         \* those of the leaf that was recorded
  todo,           \* chunks that a replay or a built-in has still to write
  failed,         \* leaves that end with an error
  busy,           \* the write that the runner's thread is in
  terminal,       \* characters with the leaf and the stream they are from
  nonblocking,    \* somebody has made the terminal refuse when it is full
  broken,         \* the terminal has gone
  cancelled       \* the run's tokens

outputVars == <<mode, stripped, script, stage, left, inColour, held, block, capture,
                stored, todo, failed, busy, terminal, nonblocking, broken, cancelled>>

Streams == {"out", "err"}
Printers == DOMAIN script
Alone == mode \in {"plain", "silent"}

(* What InterleavedReporter and PlainReporter suggest for a process, and   *)
(* what becomes of it: only a process that is not cached is given the      *)
(* terminal itself.                                                        *)
SuggestsInherited(l) == Alone \/ (mode = "interleaved" /\ script[l].kind # "builtin")
Inherits(l) == script[l].kind = "uncached" /\ SuggestsInherited(l)

-----------------------------------------------------------------------------
(* Texts.                                                                  *)
Chars(l, s, text) == [i \in DOMAIN text |-> [leaf |-> l, stream |-> s, char |-> text[i]]]
Line(l, word) == Chars(l, "own", <<word, "newline">>)
Ends(c) == c.char = "newline"
Colours == {"start", "end"}

(* Mutant: a parser of its own for each chunk.                             *)
StrippedApart(l, s, text) ==
  FoldLeft(LAMBDA acc, c :
      IF c.char = "start" THEN [acc EXCEPT !.inside = TRUE]
      ELSE IF acc.inside /\ c.char = "end" THEN [acc EXCEPT !.inside = FALSE]
      ELSE [acc EXCEPT !.text = Append(@, c)],
    [inside |-> FALSE, text |-> <<>>], text)

(* anstream's StripStream: a sequence may be split between two chunks.     *)
Stripped(l, s, text) ==
  FoldLeft(LAMBDA acc, c :
      IF c.char = "start" THEN [acc EXCEPT !.inside = TRUE]
      ELSE IF acc.inside /\ c.char = "end" THEN [acc EXCEPT !.inside = FALSE]
      ELSE [acc EXCEPT !.text = Append(@, c)],
    [inside |-> inColour[l][s], text |-> <<>>], text)

(* maybe_strip_writer                                                      *)
Shown(l, s, text) ==
  IF s \in stripped THEN Stripped(l, s, text)
  ELSE [inside |-> FALSE, text |-> text]

(* Mutant: one label for the lines that arrive together.                   *)
PrefixedOnce(l, s, lines) ==
  IF lines = <<>> THEN <<>> ELSE Chars(l, s, <<"label">>) \o lines

(* LabeledWriter::flush puts a label in front of each complete line.       *)
Prefixed(l, s, lines) ==
  FlattenSeq([i \in DOMAIN lines |->
    (IF i = 1 \/ Ends(lines[i - 1]) THEN Chars(l, s, <<"label">>) ELSE <<>>)
      \o <<lines[i]>>])

LastEnd(text) == Max({0} \cup {i \in DOMAIN text : Ends(text[i])})

-----------------------------------------------------------------------------
OutputInit ==
  /\ mode \in Modes
  /\ stripped \in {{}, {"out"}}
  /\ script \in Scripts
  /\ stage = [l \in Printers |-> "idle"]
  /\ left = [l \in Printers |-> [s \in Streams |-> Chars(l, s, script[l][s])]]
  /\ inColour = [l \in Printers |-> [s \in Streams |-> FALSE]]
  /\ held = [l \in Printers |-> [s \in Streams |-> <<>>]]
  /\ block = [l \in Printers |-> <<>>]
  /\ capture = [l \in Printers |-> <<>>]
  /\ todo = [l \in Printers |-> <<>>]
  /\ stored = None /\ failed = {} /\ busy = None /\ terminal = <<>>
  /\ nonblocking \in BOOLEAN /\ broken = FALSE /\ cancelled = FALSE

given == <<mode, stripped, script>>
world == <<nonblocking, broken, cancelled>>
stack == <<inColour, held, block>>

(* The reporter's own lines go to a bare stdout, and an error is ignored:  *)
(* what a full or a broken terminal refuses is gone.                       *)
OwnLines(text) ==
  \E k \in 0 .. Len(text) :
    /\ k < Len(text) => nonblocking \/ broken
    /\ terminal' = terminal \o SubSeq(text, 1, k)

-----------------------------------------------------------------------------
(* A chunk on its way through a leaf's writer, written and flushed.  What  *)
(* comes out of it is what RetryingWriter then writes to the terminal.     *)
Writing(l, s, chunk, text) ==
  busy' = [leaf |-> l, stream |-> s, chunk |-> chunk, rest |-> text]

SendPlainly(l, s, chunk) ==
  LET out == Shown(l, s, chunk) IN
  /\ mode \in {"interleaved", "plain"}
  /\ inColour' = [inColour EXCEPT ![l][s] = out.inside]
  /\ Writing(l, s, chunk, out.text)
  /\ UNCHANGED <<held, block>>

SendLabeled(l, s, chunk) ==
  LET buffer == held[l][s] \o chunk
      cut == LastEnd(buffer)
      out == Shown(l, s, Prefixed(l, s, SubSeq(buffer, 1, cut))) IN
  /\ mode = "labeled"
  /\ held' = [held EXCEPT ![l][s] = SubSeq(buffer, cut + 1, Len(buffer))]
  /\ inColour' = [inColour EXCEPT ![l][s] = out.inside]
  /\ Writing(l, s, chunk, out.text)
  /\ UNCHANGED block

SendGrouped(l, s, chunk) ==
  LET out == Shown(l, s, chunk) IN
  /\ mode = "grouped"
  /\ block' = [block EXCEPT ![l] = @ \o out.text]
  /\ inColour' = [inColour EXCEPT ![l][s] = out.inside]
  /\ Writing(l, s, chunk, <<>>)
  /\ UNCHANGED held

(* PlainReporter gives a hit that is to be silent writers that discard.    *)
SendNowhere(l, s, chunk) ==
  /\ mode = "silent"
  /\ IF script[l].kind = "replay" THEN Writing(l, s, chunk, <<>>) /\ UNCHANGED inColour
     ELSE LET out == Shown(l, s, chunk) IN
          /\ inColour' = [inColour EXCEPT ![l][s] = out.inside]
          /\ Writing(l, s, chunk, out.text)
  /\ UNCHANGED <<held, block>>

Send(l, s, chunk) ==
  \/ SendPlainly(l, s, chunk) \/ SendLabeled(l, s, chunk)
  \/ SendGrouped(l, s, chunk) \/ SendNowhere(l, s, chunk)

(* Mutant: the retry sits above the writer that was refused, and begins    *)
(* again.                                                                  *)
AcceptAgain ==
  /\ busy # None /\ ~broken
  /\ \E k \in 1 .. Len(busy.rest) :
       /\ terminal' = terminal \o SubSeq(busy.rest, 1, k)
       /\ Len(terminal') < 30
       /\ k < Len(busy.rest) => nonblocking
       /\ busy' = [busy EXCEPT !.rest = IF k < Len(@) THEN @ ELSE <<>>]
  /\ UNCHANGED <<given, stage, left, stack, capture, stored, todo, failed, world>>

(* A full terminal takes some of it, and the rest is tried again.          *)
Accept ==
  /\ busy # None /\ ~broken
  /\ \E k \in 1 .. Len(busy.rest) :
       /\ k < Len(busy.rest) => nonblocking
       /\ terminal' = terminal \o SubSeq(busy.rest, 1, k)
       /\ busy' = [busy EXCEPT !.rest = SubSeq(@, k + 1, Len(@))]
  /\ UNCHANGED <<given, stage, left, stack, capture, stored, todo, failed, world>>

(* The write is over; for a replay, a built-in and a drop a failed one too.*)
LineOut(l) == busy # None /\ busy.leaf = l /\ (busy.rest = <<>> \/ broken)

-----------------------------------------------------------------------------
(* The life of a leaf.                                                     *)
CommandLine(l) == Line(l, "command")
LabelOf(l) == Chars(l, "own", <<"label">>)

InterleavedStart(l) == CommandLine(l)
LabeledStart(l) == LabelOf(l) \o CommandLine(l)
GroupedStart(l) == LabelOf(l) \o CommandLine(l)
PlainStart(l) == <<>>

Start(l) ==
  CASE mode = "interleaved" -> InterleavedStart(l)
    [] mode = "labeled" -> LabeledStart(l)
    [] mode = "grouped" -> GroupedStart(l)
    [] OTHER -> PlainStart(l)

(* write_leaf_trailing_output                                              *)
LeafTrailing(l, error, started, extra) ==
  extra \o (IF error THEN Line(l, "error") ELSE <<>>)
    \o (IF started THEN Chars(l, "own", <<"newline">>) ELSE <<>>)

InterleavedFinish(l, error, started) == LeafTrailing(l, error, started, <<>>)
LabeledFinish(l, error, started) == LeafTrailing(l, error, started, <<>>)
GroupedFinish(l, error, started) ==
  LeafTrailing(l, error, started,
    IF block[l] = <<>> THEN <<>> ELSE Line(l, "header") \o block[l])

PlainFinish(l, error) ==
  IF error THEN Line(l, "error")
  ELSE IF script[l].kind = "replay" /\ mode # "silent" THEN Line(l, "replayed")
  ELSE <<>>

Finish(l, error, started) ==
  CASE mode = "interleaved" -> InterleavedFinish(l, error, started)
    [] mode = "labeled" -> LabeledFinish(l, error, started)
    [] mode = "grouped" -> GroupedFinish(l, error, started)
    [] OTHER -> PlainFinish(l, error)

(* A replay's entry is the one that another leaf has left.                 *)
Begin(l) ==
  /\ busy = None /\ stage[l] = "idle" /\ ~cancelled
  /\ Alone => \A other \in Printers : stage[other] \in {"idle", "done"}
  /\ OwnLines(Start(l))
  /\ CASE script[l].kind = "builtin" ->
            /\ stage' = [stage EXCEPT ![l] = "writing"]
            /\ todo' = [todo EXCEPT ![l] = <<[stream |-> "out", content |-> left[l]["out"]]>>]
            /\ left' = [left EXCEPT ![l]["out"] = <<>>]
            /\ Writing(l, "out", <<>>, <<>>)
       [] script[l].kind = "replay" ->
            /\ stored # None
            /\ stage' = [stage EXCEPT ![l] = "writing"]
            /\ todo' = [todo EXCEPT ![l] = [i \in DOMAIN stored |->
                 [stored[i] EXCEPT !.content = [k \in DOMAIN @ |-> [@[k] EXCEPT !.leaf = l]]]]]
            /\ Writing(l, "out", <<>>, <<>>)
            /\ UNCHANGED left
       [] OTHER ->
            /\ stage' = [stage EXCEPT ![l] = IF Inherits(l) THEN "inherits" ELSE "piped"]
            /\ UNCHANGED <<left, todo, busy>>
  /\ UNCHANGED <<given, stack, capture, stored, failed, world>>

(* Hashing the inputs failed: finish() without start().                    *)
LookupFails(l) ==
  /\ busy = None /\ stage[l] = "idle" /\ script[l].kind = "cached"
  /\ Alone => \A other \in Printers : stage[other] \in {"idle", "done"}
  /\ OwnLines(Finish(l, TRUE, FALSE))
  /\ stage' = [stage EXCEPT ![l] = "done"]
  /\ cancelled' = TRUE
  /\ UNCHANGED <<given, left, stack, capture, stored, todo, failed, busy, nonblocking, broken>>

SpawnFails(l) ==
  /\ busy = None /\ stage[l] \in {"piped", "inherits"}
  /\ \A s \in Streams : left[l][s] = Chars(l, s, script[l][s])
  /\ stage' = [stage EXCEPT ![l] = "drained"]
  /\ failed' = failed \cup {l} /\ cancelled' = TRUE
  /\ UNCHANGED <<given, left, stack, capture, stored, todo, busy, terminal, nonblocking, broken>>

(* A child that has the terminal itself.                                   *)
ChildWrites(l, s) ==
  /\ stage[l] = "inherits" /\ left[l][s] # <<>> /\ ~broken
  /\ terminal' = Append(terminal, Head(left[l][s]))
  /\ left' = [left EXCEPT ![l][s] = Tail(@)]
  /\ UNCHANGED <<given, stage, stack, capture, stored, todo, failed, busy, world>>

(* One read of a pipe.                                                     *)
ReadChunk(l, s) ==
  /\ busy = None /\ stage[l] = "piped"
  /\ \E n \in 1 .. Len(left[l][s]) :
       /\ left' = [left EXCEPT ![l][s] = SubSeq(@, n + 1, Len(@))]
       /\ Send(l, s, SubSeq(left[l][s], 1, n))
  /\ UNCHANGED <<given, stage, capture, stored, todo, failed, terminal, world>>

(* Mutant: what was shown is captured, without its colours.                *)
CaptureShown(l, s, chunk) ==
  capture' = [capture EXCEPT ![l] = Append(@, [stream |-> s, content |->
    IF s \in stripped THEN SelectSeq(chunk, LAMBDA c : c.char \notin Colours) ELSE chunk])]

(* append_output_chunk                                                     *)
Capture(l, s, chunk) ==
  capture' = [capture EXCEPT ![l] =
    IF @ # <<>> /\ Last(@).stream = s
      THEN Append(Front(@), [Last(@) EXCEPT !.content = @ \o chunk])
      ELSE Append(@, [stream |-> s, content |-> chunk])]

ChunkWritten(l) ==
  /\ busy # None /\ busy.leaf = l /\ busy.rest = <<>> /\ stage[l] = "piped"
  /\ IF script[l].kind = "cached" THEN Capture(l, busy.stream, busy.chunk)
     ELSE UNCHANGED capture
  /\ busy' = None
  /\ UNCHANGED <<given, stage, left, stack, stored, todo, failed, terminal, world>>

(* The process is killed when a write fails, and the run with it.          *)
ChunkFails(l) ==
  /\ busy # None /\ busy.leaf = l /\ busy.rest # <<>> /\ broken /\ stage[l] = "piped"
  /\ stage' = [stage EXCEPT ![l] = "drained"]
  /\ failed' = failed \cup {l} /\ cancelled' = TRUE
  /\ busy' = None
  /\ UNCHANGED <<given, left, stack, capture, stored, todo, terminal, nonblocking, broken>>

(* Both pipes have ended, or the run was cancelled.                        *)
Drained(l) ==
  /\ busy = None /\ stage[l] \in {"piped", "inherits"}
  /\ cancelled \/ broken \/ \A s \in Streams : left[l][s] = <<>>
  /\ stage[l] = "piped" => cancelled \/ \A s \in Streams : left[l][s] = <<>>
  /\ stage' = [stage EXCEPT ![l] = "drained"]
  /\ UNCHANGED <<given, left, stack, capture, stored, todo, failed, busy, terminal, world>>

(* What a replay or a built-in writes, without a pause.                    *)
NextOutput(l) ==
  /\ LineOut(l) /\ stage[l] = "writing" /\ todo[l] # <<>>
  /\ todo' = [todo EXCEPT ![l] = Tail(@)]
  /\ Send(l, Head(todo[l]).stream, Head(todo[l]).content)
  /\ UNCHANGED <<given, stage, left, capture, stored, failed, terminal, world>>

(* The outputs are restored while other leaves go on.                      *)
ReplayEnds(l) ==
  /\ LineOut(l) /\ stage[l] = "writing" /\ todo[l] = <<>> /\ script[l].kind = "replay"
  /\ stage' = [stage EXCEPT ![l] = "drained"]
  /\ \/ UNCHANGED <<failed, cancelled>>
     \/ failed' = failed \cup {l} /\ cancelled' = TRUE
  /\ busy' = None
  /\ UNCHANGED <<given, left, stack, capture, stored, todo, terminal, nonblocking, broken>>

(* update_cache, and the end of run(), which drops the writers.            *)
Leave(l) ==
  /\ busy = None /\ stage[l] = "drained"
  /\ stored' = IF script[l].kind = "cached" /\ l \notin failed /\ ~cancelled
                 THEN capture[l] ELSE stored
  /\ stage' = [stage EXCEPT ![l] = "dropping"]
  /\ Writing(l, "own", <<>>, <<>>)
  /\ UNCHANGED <<given, left, stack, capture, todo, failed, terminal, world>>

(* Mutant: a line without a newline is dropped with its writer.            *)
NothingOnDrop(l, s) == <<>>

(* LabeledWriter::drop                                                     *)
OnDrop(l, s) == Chars(l, s, <<"label">>) \o held[l][s]

(* stdout's writer is dropped before stderr's.                             *)
DropWriter(l, s) ==
  /\ LineOut(l) /\ stage[l] = "dropping"
  /\ held[l][s] # <<>> /\ (s = "err" => held[l]["out"] = <<>>)
  /\ LET out == Shown(l, s, OnDrop(l, s)) IN
     /\ inColour' = [inColour EXCEPT ![l][s] = out.inside]
     /\ Writing(l, s, <<>>, out.text)
  /\ held' = [held EXCEPT ![l][s] = <<>>]
  /\ UNCHANGED <<given, stage, left, block, capture, stored, todo, failed, terminal, world>>

FinishOutput(l) ==
  /\ LineOut(l) /\ stage[l] = "dropping" /\ script[l].kind # "builtin"
  /\ \A s \in Streams : held[l][s] = <<>>
  /\ OwnLines(Finish(l, l \in failed, TRUE))
  /\ stage' = [stage EXCEPT ![l] = "done"]
  /\ busy' = None
  /\ UNCHANGED <<given, left, stack, capture, stored, todo, failed, world>>

(* A built-in's writer is dropped after its reporter has finished.         *)
BuiltinFinishes(l) ==
  /\ LineOut(l) /\ stage[l] = "writing" /\ todo[l] = <<>> /\ script[l].kind = "builtin"
  /\ OwnLines(Finish(l, l \in failed, TRUE))
  /\ stage' = [stage EXCEPT ![l] = "dropping"]
  /\ UNCHANGED <<given, left, stack, capture, stored, todo, failed, busy, world>>

BuiltinEnds(l) ==
  /\ LineOut(l) /\ stage[l] = "dropping" /\ script[l].kind = "builtin"
  /\ \A s \in Streams : held[l][s] = <<>>
  /\ stage' = [stage EXCEPT ![l] = "done"]
  /\ busy' = None
  /\ UNCHANGED <<given, left, stack, capture, stored, todo, failed, terminal, world>>

-----------------------------------------------------------------------------
(* The terminal goes away, or the run is cancelled; at most one of them    *)
(* and of a terminal that refuses befalls a behaviour.                     *)
Misfortune ==
  /\ ~nonblocking /\ ~broken /\ ~cancelled
  /\ \/ broken' = TRUE /\ UNCHANGED cancelled
     \/ cancelled' = TRUE /\ UNCHANGED broken
  /\ UNCHANGED <<given, stage, left, stack, capture, stored, todo, failed, busy, terminal,
                 nonblocking>>

OutputNext ==
  \/ Accept \/ Misfortune
  \/ \E l \in Printers :
       \/ Begin(l) \/ LookupFails(l) \/ SpawnFails(l) \/ ChunkWritten(l) \/ ChunkFails(l)
       \/ Drained(l) \/ NextOutput(l) \/ ReplayEnds(l) \/ Leave(l) \/ FinishOutput(l)
       \/ BuiltinFinishes(l) \/ BuiltinEnds(l)
       \/ \E s \in Streams : ChildWrites(l, s) \/ ReadChunk(l, s) \/ DropWriter(l, s)

OutputSpec == OutputInit /\ [][OutputNext]_outputVars

-----------------------------------------------------------------------------
(* Properties.                                                             *)
Printed(l, s) ==
  SelectSeq(terminal, LAMBDA c : c.leaf = l /\ c.stream = s /\ c.char # "label")

Clean(l, s, text) ==
  IF s \in stripped /\ ~Inherits(l)
    THEN SelectSeq(text, LAMBDA c : c.char \notin Colours) ELSE text

Texts(l, s) == Chars(l, s, script[l][s])

(* What is shown of a stream is a part from its front, without its colours *)
(* where they cannot be shown; and all of it once the leaf has ended, when *)
(* nothing was refused: a full terminal costs a streamed text nothing.     *)
ShownInOrder ==
  \A l \in Printers, s \in Streams :
    /\ script[l].kind # "replay" => IsPrefix(Printed(l, s), Clean(l, s, Texts(l, s)))
    /\ (stage[l] = "done" /\ l \notin failed /\ ~cancelled /\ ~broken
        /\ (mode = "grouped" => ~nonblocking) /\ script[l].kind # "replay")
       => Printed(l, s) = Clean(l, s, Texts(l, s))

(* A replay shows what the recorded run showed, in the same order.         *)
RunShown(l) ==
  LET own == SelectSeq(terminal, LAMBDA c : c.leaf = l /\ c.stream \in Streams) IN
  [i \in DOMAIN own |-> [own[i] EXCEPT !.leaf = None]]

ReplayedAlike ==
  \A l, r \in Printers :
    (script[l].kind = "cached" /\ script[r].kind = "replay"
     /\ stage[r] = "done" /\ ~broken /\ (mode = "grouped" => ~nonblocking))
    => RunShown(r) = IF mode = "silent" THEN <<>> ELSE RunShown(l)

(* The entry holds what the process printed, colours and all.              *)
StoredWhole ==
  stored # None =>
    /\ \A i \in 2 .. Len(stored) : stored[i].stream # stored[i - 1].stream
    /\ \E l \in Printers : script[l].kind = "cached" /\ \A s \in Streams :
         FlattenSeq([i \in DOMAIN stored |->
           IF stored[i].stream = s THEN stored[i].content ELSE <<>>]) = Texts(l, s)

(* Under --log=labeled a character stands behind its label or behind       *)
(* another one of the same line of the same stream.                        *)
LinesLabeled ==
  mode = "labeled" =>
    \A i \in DOMAIN terminal :
      terminal[i].stream \in Streams /\ terminal[i].char # "label" =>
        /\ i > 1
        /\ terminal[i - 1].leaf = terminal[i].leaf
        /\ terminal[i - 1].stream = terminal[i].stream
        /\ ~Ends(terminal[i - 1])

(* Under --log=grouped the texts of a leaf are together, behind a header.  *)
BlocksTogether ==
  mode = "grouped" =>
    \A l \in Printers :
      LET at == {i \in DOMAIN terminal : terminal[i].leaf = l /\ terminal[i].stream \in Streams}
      IN at # {} =>
           /\ Max(at) - Min(at) = Cardinality(at) - 1
           /\ Min(at) > 2 /\ terminal[Min(at) - 2].char = "header"

(* Nothing that is read is left in a writer.  The one text that ends up    *)
(* behind the separating newline is a built-in's line without a newline,   *)
(* under --log=labeled.                                                    *)
EndsWithLine ==
  (\A l \in Printers : stage[l] \in {"idle", "done"}) =>
    /\ \A l \in Printers, s \in Streams : held[l][s] = <<>>
    /\ (~Alone /\ ~nonblocking /\ ~broken /\ terminal # <<>>) =>
         \/ Ends(Last(terminal))
         \/ mode = "labeled" /\ script[Last(terminal).leaf].kind = "builtin"

(* What tasks print reaches the terminal whole, in order, labelled and     *)
(* grouped as asked, whatever the chunks it is read in, and a hit replays  *)
(* it alike (session/reporter, execute/pipe.rs).                           *)
OutputWhole ==
  /\ ShownInOrder /\ ReplayedAlike /\ StoredWhole /\ LinesLabeled /\ BlocksTogether
  /\ EndsWithLine
=============================================================================
