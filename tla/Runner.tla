------------------------------- MODULE Runner --------------------------------
(***************************************************************************)
(* pkg/runner: Run executes the command tree in the process of its caller  *)
(* and reads what the command writes, line by line, while it runs.         *)
(*                                                                         *)
(* A writer is handed the bytes of a stream in pieces that end anywhere:   *)
(* io.Writer promises no more, and cobra writes its help in small ones.    *)
(* Two atoms to a line are enough to tear it, and a newline is an atom of  *)
(* its own.                                                                *)
(***************************************************************************)
EXTENDS Naturals, SequencesExt

CONSTANTS
    MaxLines,    \* bound of the model: the lines a command writes to stdout
    MaxErrLines  \* bound of the model: the lines it writes to stderr

ASSUME RunnerAssumption == MaxLines \in Nat /\ MaxErrLines \in Nat

VARIABLES
    script,     \* what the command will do: its lines and how it ends
    run,        \* where Run is
    unwritten,  \* what is left of each stream
    partial,    \* lineCaptureWriter.partial of each stream
    seen,       \* what the line handlers have made of the lines so far
    ctxDone,    \* the caller's context is done
    outcome,    \* what Run returned: "none", "usage", "ctxErr" or "result"
    result      \* the RunResult

runnerVars == <<script, run, unwritten, partial, seen, ctxDone, outcome, result>>

Streams == {"stdout", "stderr"}

StdoutKinds == {"progress", "object", "raw", "blank"}
StderrKinds == {"text", "secret"}

(* The lines of a stream of the given kinds, each unlike the others.       *)
LinesOf(kinds) == [i \in DOMAIN kinds |-> [kind |-> kinds[i], id |-> i]]

Atom(kind, id, half) == [kind |-> kind, id |-> id, half |-> half]
Newline == Atom("newline", 0, 0)
Atoms == [kind : StdoutKinds \cup StderrKinds \cup {"newline", "redacted", "error"},
          id : Nat, half : 0..2]
Spelling(line) ==
    IF line.kind = "blank"
    THEN <<>>
    ELSE <<Atom(line.kind, line.id, 1), Atom(line.kind, line.id, 2)>>

(* What the command writes: its lines, and perhaps no newline at the end.  *)
Text(kinds, ended) ==
    LET text == FoldLeft(LAMBDA acc, line : acc \o Append(Spelling(line), Newline), <<>>, LinesOf(kinds))
    IN  IF ended \/ text = <<>> THEN text ELSE Front(text)

Scripts ==
    [stdout : SeqOf(StdoutKinds, MaxLines), stderr : SeqOf(StderrKinds, MaxErrLines),
     ended : BOOLEAN,                       \* whether the last lines end in a newline
     execErr : {"nil", "Error", "other"},   \* ExecuteContext's answer
     errText : {"lastLine", "ownText"}]     \* and its text

Nothing == <<>>  \* no payload

RunnerInit ==
    /\ script \in Scripts
    /\ run = "start"
    /\ unwritten = [s \in Streams |-> Text(script[s], script.ended)]
    /\ partial = [s \in Streams |-> <<>>]
    /\ seen = [finalPayload |-> Nothing, progressLast |-> Nothing,
               stderrLines |-> <<>>, events |-> <<>>]
    /\ ctxDone = FALSE
    /\ outcome = "none"
    /\ result = <<>>
-----------------------------------------------------------------------------
(* parseJSONLine and extractProgress: only a whole line of JSON parses.    *)
EventType(line) ==
    IF Len(line) # 2 \/ line[1].half # 1 \/ line[2].half # 2 \/ line[1].kind = "raw"
    THEN "stdout_raw"
    ELSE IF line[1].kind = "progress" THEN "progress" ELSE "stdout_json"

(* redact replaces the secret where it finds all of it.                    *)
Redact(text) ==
    IF \E i \in 1..(Len(text) - 1) : text[i].kind = "secret" /\ text[i].half = 1 /\ text[i + 1].half = 2
    THEN <<Atom("redacted", 0, 0)>>
    ELSE text

OnEvent(acc, type, raw) ==
    [acc EXCEPT !.events = Append(@, [type |-> type, raw |-> raw])]

HandleStdout(acc, line) ==
    LET type == EventType(line)
        noted == CASE type = "progress" -> [acc EXCEPT !.progressLast = line]
                   [] type = "stdout_json" -> [acc EXCEPT !.finalPayload = line]
                   [] OTHER -> acc
    IN  IF line = <<>> THEN acc ELSE OnEvent(noted, type, line)

HandleStderr(acc, line) ==
    LET text == Redact(line)
    IN  IF line = <<>> THEN acc
        ELSE OnEvent([acc EXCEPT !.stderrLines = Append(@, text)], "stderr", text)

Handle(s, acc, lines) ==
    IF s = "stdout" THEN FoldLeft(HandleStdout, acc, lines) ELSE FoldLeft(HandleStderr, acc, lines)

(* Mutant: strings.Cut, which stops at the first newline.                  *)
Split_FirstOnly(data) ==
    LET first == SelectInSeq(data, LAMBDA a : a = Newline)
    IN  IF first = 0 THEN [lines |-> <<>>, rest |-> data]
        ELSE [lines |-> <<SubSeq(data, 1, first - 1)>>, rest |-> SubSeq(data, first + 1, Len(data))]

(* strings.Split(data, "\n"): its last part is the rest, the others lines.  *)
Split(data) ==
    FoldLeft(LAMBDA acc, a :
               IF a = Newline THEN [lines |-> Append(acc.lines, acc.rest), rest |-> <<>>]
               ELSE [acc EXCEPT !.rest = Append(@, a)],
             [lines |-> <<>>, rest |-> <<>>], data)

(* Run refuses an empty Subcommand.                                        *)
Start ==
    /\ run = "start"
    /\ \/ run' = "command" /\ UNCHANGED outcome
       \/ run' = "returned" /\ outcome' = "usage"
    /\ UNCHANGED <<script, unwritten, partial, seen, ctxDone, result>>

(* Mutant: what is left of the last piece is forgotten.                    *)
Write_ForgetsPartial(s, n) ==
    LET parts == Split(SubSeq(unwritten[s], 1, n))
    IN  /\ run = "command"
        /\ partial' = [partial EXCEPT ![s] = parts.rest]
        /\ seen' = Handle(s, seen, parts.lines)
        /\ unwritten' = [unwritten EXCEPT ![s] = SubSeq(@, n + 1, Len(@))]
        /\ UNCHANGED <<script, run, ctxDone, outcome, result>>

(* lineCaptureWriter.Write of the next n atoms of stream s.                *)
Write(s, n) ==
    LET parts == Split(partial[s] \o SubSeq(unwritten[s], 1, n))
    IN  /\ run = "command"
        /\ partial' = [partial EXCEPT ![s] = parts.rest]
        /\ seen' = Handle(s, seen, parts.lines)
        /\ unwritten' = [unwritten EXCEPT ![s] = SubSeq(@, n + 1, Len(@))]
        /\ UNCHANGED <<script, run, ctxDone, outcome, result>>

(* ExecuteContext returns, when the command has written all it has to say. *)
ExecuteContext ==
    /\ run = "command"
    /\ \A s \in Streams : unwritten[s] = <<>>
    /\ run' = "flush"
    /\ UNCHANGED <<script, unwritten, partial, seen, ctxDone, outcome, result>>

(* Mutant: a cancelled run returns before it flushes.                      *)
Flush_UnlessCancelled ==
    /\ run = "flush"
    /\ seen' = IF ctxDone THEN seen
               ELSE Handle("stderr", Handle("stdout", seen, <<partial["stdout"]>>), <<partial["stderr"]>>)
    /\ partial' = [s \in Streams |-> <<>>]
    /\ run' = "check"
    /\ UNCHANGED <<script, unwritten, ctxDone, outcome, result>>

(* Both Flushes: a last line without a newline is a line all the same.     *)
Flush ==
    /\ run = "flush"
    /\ seen' = Handle("stderr", Handle("stdout", seen, <<partial["stdout"]>>), <<partial["stderr"]>>)
    /\ partial' = [s \in Streams |-> <<>>]
    /\ run' = "check"
    /\ UNCHANGED <<script, unwritten, ctxDone, outcome, result>>

(* The error of ExecuteContext: its code, and its text, which may be what  *)
(* the command has written last.                                           *)
Code == CASE script.execErr = "nil" -> 0
          [] script.execErr = "Error" -> 7
          [] script.execErr = "other" -> 10
ErrText(lines) ==
    IF script.errText = "lastLine" /\ lines # <<>> THEN Last(lines) ELSE <<Atom("error", 0, 0)>>

(* Mutant: the text of the error is always added to stderr.                *)
NoteError_Always(acc) ==
    LET text == ErrText(acc.stderrLines)
    IN  OnEvent([acc EXCEPT !.stderrLines = Append(@, text)], "stderr", text)

(* The text is added to stderr unless it is there already; the callback    *)
(* gets it in any case.                                                    *)
NoteError(acc) ==
    LET text == ErrText(acc.stderrLines)
        lines == acc.stderrLines
        noted == IF lines = <<>> \/ Last(lines) # text THEN Append(lines, text) ELSE lines
    IN  OnEvent([acc EXCEPT !.stderrLines = noted], "stderr", text)

(* The caller's context is asked first: a command that had finished before *)
(* it ended has no result.                                                 *)
Return ==
    /\ run = "check"
    /\ run' = "returned"
    /\ \/ ctxDone /\ outcome' = "ctxErr" /\ UNCHANGED <<seen, result>>
       \/ /\ ~ctxDone
          /\ outcome' = "result"
          /\ seen' = IF script.execErr = "nil" THEN seen ELSE NoteError(seen)
          /\ result' = [ExitCode |-> Code, FinalPayload |-> seen.finalPayload,
                        ProgressLast |-> seen.progressLast, Stderr |-> seen'.stderrLines]
    /\ UNCHANGED <<script, unwritten, partial, ctxDone>>

CtxEnds ==
    /\ ~ctxDone /\ run # "returned"
    /\ ctxDone' = TRUE
    /\ UNCHANGED <<script, run, unwritten, partial, seen, outcome, result>>

RunnerNext ==
    \/ Start \/ ExecuteContext \/ Flush \/ Return \/ CtxEnds
    \/ \E s \in Streams : \E n \in 1..Len(unwritten[s]) : Write(s, n)

RunnerSpec == RunnerInit /\ [][RunnerNext]_runnerVars
-----------------------------------------------------------------------------
(* What there is in s of the set S, in its order.                          *)
Keep(s, S) == FoldLeft(LAMBDA kept, x : IF x \in S THEN Append(kept, x) ELSE kept, <<>>, s)

OfKinds(kinds, wanted) == Keep(LinesOf(kinds), [kind : wanted, id : Nat])

(* What the callback should be told of a stream: its lines, one by one.    *)
StdoutEvents ==
    LET lines == OfKinds(script.stdout, StdoutKinds \ {"blank"})
        Type(k) == CASE k = "progress" -> "progress" [] k = "object" -> "stdout_json" [] k = "raw" -> "stdout_raw"
    IN  [i \in DOMAIN lines |-> [type |-> Type(lines[i].kind), raw |-> Spelling(lines[i])]]

StderrTexts ==
    LET lines == OfKinds(script.stderr, StderrKinds)
    IN  [i \in DOMAIN lines |->
           IF lines[i].kind = "secret" THEN <<Atom("redacted", 0, 0)>> ELSE Spelling(lines[i])]

StderrEvents == [i \in DOMAIN StderrTexts |-> [type |-> "stderr", raw |-> StderrTexts[i]]]

StdoutTypes == {"progress", "stdout_json", "stdout_raw"}
Told(types) == Keep(seen.events, [type : types, raw : Seq(Atoms)])

RunnerTypeOK ==
    /\ run \in {"start", "command", "flush", "check", "returned"}
    /\ outcome \in {"none", "usage", "ctxErr", "result"}
    /\ (outcome # "none") = (run = "returned")
    /\ \A s \in Streams : \A i \in DOMAIN partial[s] : partial[s][i] # Newline

(* However the streams were cut into pieces, the callback is told the      *)
(* lines of each in their order, none torn, dropped or of the wrong kind,  *)
(* and no stderr line with the key in it (runner.go:207, 224).             *)
EventsAreTheLines ==
    /\ IsPrefix(Told(StdoutTypes), StdoutEvents)
    /\ run \in {"command", "flush", "check"} => IsPrefix(Told({"stderr"}), StderrEvents)

Payload(lines) == IF lines = <<>> THEN Nothing ELSE Spelling(Last(lines))

(* A run that the context has cut off has no result, but its callback has  *)
(* been told every line: also the last one of a command that had finished  *)
(* before Run looked at the context (runner.go:123-129).                   *)
NothingIsUntold ==
    outcome \in {"ctxErr", "result"} =>
      /\ Told(StdoutTypes) = StdoutEvents
      /\ IsPrefix(StderrEvents, Told({"stderr"}))

(* A result says of the whole output what types.go:50-59 promises: the     *)
(* last JSON object that is not progress, the latest progress, the exit    *)
(* code, and stderr with the error at its end, once.                       *)
ResultIsTheOutput ==
    outcome = "result" =>
      LET ownError == script.execErr # "nil" /\ (script.errText = "ownText" \/ StderrTexts = <<>>)
      IN  /\ result.FinalPayload = Payload(OfKinds(script.stdout, {"object"}))
          /\ result.ProgressLast = Payload(OfKinds(script.stdout, {"progress"}))
          /\ (result.ExitCode = 0) = (script.execErr = "nil")
          /\ result.Stderr = StderrTexts \o (IF ownError THEN << <<Atom("error", 0, 0)>> >> ELSE <<>>)
=============================================================================
