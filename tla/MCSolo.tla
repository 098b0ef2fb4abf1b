------------------------------- MODULE MCSolo -------------------------------
(* An instance of Solo for TLC.                                            *)
EXTENDS Solo

Rails == [valid |-> TRUE, fetches |-> TRUE, framework |-> "auto",
          found |-> "rails", db |-> "litestream", account |-> TRUE,
          committed |-> FALSE]

\* A Rails app with a database; one whose account is not known; a Go and a static
\* app without a database; a Go app that brings its database along; sources that cannot be fetched or tell nothing; a spec
\* that cannot be used.
MCSpecs == {Rails, [Rails EXCEPT !.account = FALSE],
            [Rails EXCEPT !.framework = "go", !.db = "none"],
            [Rails EXCEPT !.found = "static", !.db = "none"],
            [Rails EXCEPT !.framework = "go", !.committed = TRUE],
            [Rails EXCEPT !.fetches = FALSE], [Rails EXCEPT !.found = "none"],
            [Rails EXCEPT !.valid = FALSE]}

OneSpec == {Rails}
=============================================================================
