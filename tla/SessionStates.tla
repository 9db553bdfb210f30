--------------------------- MODULE SessionStates ---------------------------
(***************************************************************************)
(* The session states of ccc_agent/session.py, the terminal ones, and the  *)
(* transition table that Session.transition enforces on the in-memory      *)
(* object.  Nothing enforces the table on the durable record: whether      *)
(* session.json follows it is a property of the programs that save it.     *)
(***************************************************************************)
States == {"created", "mounting", "running", "finalizing", "frozen",
           "auto-committed", "pending-review", "committed", "aborted",
           "failed"}

TerminalStates == {"auto-committed", "committed", "aborted", "failed"}

\* Successors in the table; "aborted" and "failed" can be reached from every
\* state that is not terminal.
Successors(s) ==
    CASE s = "created"        -> {"mounting", "aborted", "failed"}
      [] s = "mounting"       -> {"running", "aborted", "failed"}
      [] s = "running"        -> {"finalizing", "aborted", "failed"}
      [] s = "finalizing"     -> {"frozen", "aborted", "failed"}
      [] s = "frozen"         -> {"auto-committed", "pending-review",
                                  "committed", "aborted", "failed"}
      [] s = "pending-review" -> {"committed", "aborted", "running", "failed"}
      [] OTHER                -> {}

\* States whose bundle `ccc-agent cleanup` removes (ctl.py).
CleanupStates == {"auto-committed", "committed", "aborted"}
=============================================================================
