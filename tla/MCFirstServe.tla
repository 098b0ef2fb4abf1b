---------------------------- MODULE MCFirstServe ----------------------------
(* An instance of FirstServe for TLC.                                      *)
EXTENDS FirstServe

CONSTANTS r1, r2

Printed(k, c, m) == [kind |-> k, cost |-> c, message |-> m]

\* One line of every kind, and a result that another or garbage follows.
Outputs ==
    {<<>>, <<Printed("event", 0, FALSE)>>, <<Printed("result", 1, FALSE)>>,
     <<Printed("error result", 1, TRUE)>>,
     <<Printed("error result", 1, FALSE)>>, <<Printed("bad result", 0, FALSE)>>,
     <<Printed("result", 1, FALSE), Printed("error result", 2, TRUE)>>,
     <<Printed("result", 2, FALSE), Printed("too long", 0, FALSE)>>}

Ran(lines) == [starts |-> TRUE, lines |-> lines, more |-> FALSE, exit0 |-> TRUE]

\* Also one that exits 1 after its result, one that is not there, and one with
\* more to print than is read.
MCCliRuns ==
    {Ran(l) : l \in Outputs}
    \cup {[Ran(<<Printed("result", 2, FALSE)>>) EXCEPT !.exit0 = FALSE],
          [Ran(<<>>) EXCEPT !.starts = FALSE],
          [Ran(<<Printed("too long", 0, FALSE)>>) EXCEPT !.more = TRUE]}

Asks(route, clean, html, bare, ip, cred) ==
    [route |-> route, clean |-> clean, html |-> html, bare |-> bare, ip |-> ip,
     cred |-> cred]

\* A browser that knows everything, one on a bare path that knows nothing, an
\* API client without credentials, also on a path that is not clean, and one of a
\* bridge.
MCKinds == {Asks("app", TRUE, TRUE, FALSE, TRUE, TRUE),
            Asks("app", TRUE, TRUE, TRUE, FALSE, FALSE),
            Asks("app", TRUE, FALSE, FALSE, TRUE, FALSE),
            Asks("app", FALSE, FALSE, FALSE, TRUE, FALSE),
            Asks("bridge", TRUE, TRUE, FALSE, FALSE, FALSE)}

MCWires == {[ips |-> "public", cred |-> TRUE], [ips |-> "private", cred |-> FALSE]}
=============================================================================
