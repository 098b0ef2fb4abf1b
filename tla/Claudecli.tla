----------------------------- MODULE Claudecli -----------------------------
(***************************************************************************)
(* internal/driver/claudecli: one run of the claude CLI, from the lines it *)
(* prints to the driver.Result the caller sees.  A run is data: whether    *)
(* the process starts, the lines of its stdout, whether more output than   *)
(* the pipe holds follows them, and its exit code.                         *)
(***************************************************************************)
EXTENDS Naturals, Sequences, SequencesExt

\* kind: how parseStream classifies the line; cost, message: of a "result" line
\* (message is FALSE where its error text is empty).
Line == [kind : {"event", "result", "error result", "bad result", "too long"},
         cost : Nat, message : BOOLEAN]

CliRun == [starts : BOOLEAN, lines : Seq(Line), more : BOOLEAN, exit0 : BOOLEAN]

\* What the loop of parseStream has found: the last result event ([] before
\* one), and whether it returned early with an error.
Unparsed == [result |-> <<>>, failed |-> FALSE]

\* One line.  Events and noise leave no trace; a result line that does not
\* parse, or a line over 4 MiB, ends the loop.
ParseLine(parsed, line) ==
    CASE parsed.failed -> parsed
      [] ~parsed.failed /\ line.kind \in {"result", "error result"} ->
            [parsed EXCEPT !.result = <<line>>]
      [] ~parsed.failed /\ line.kind \in {"bad result", "too long"} ->
            [parsed EXCEPT !.failed = TRUE]
      [] OTHER -> parsed

ParseStream(lines) == FoldLeft(ParseLine, Unparsed, lines)

\* Run reads stdout only while it parses: once parseStream has returned early, a
\* CLI with more to print than the pipe holds stops in its write, and Run in
\* cmd.Wait, until the context kills the CLI.
Blocks(run) == run.starts /\ run.more /\ ParseStream(run.lines).failed

\* Result: does Error have a text, and the cost it carries.  A run that did not
\* start, did not exit 0 or printed no result has no cost; an error result
\* without a text is, for the callers, a success.
Failure(cost) == [error |-> TRUE, cost |-> cost]
Success(cost) == [error |-> FALSE, cost |-> cost]

Run(run) ==
    LET result == ParseStream(run.lines).result IN
    CASE ~run.starts \/ ~run.exit0 \/ result = <<>> -> Failure(0)
      [] run.starts /\ run.exit0 /\ result # <<>> ->
            IF result[1].kind = "error result" /\ result[1].message
              THEN Failure(result[1].cost)
              ELSE Success(result[1].cost)
=============================================================================
