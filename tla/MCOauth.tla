------------------------------ MODULE MCOauth -------------------------------
(***************************************************************************)
(* The daemon with one or two sources of the swap (two profiles list it, or *)
(* a tunnel has outlived a reload), and the command line next to it.        *)
(***************************************************************************)
EXTENDS Oauth

CONSTANTS t1, t2, t3, one, two, tool, daemon, cli

MCTask      == {t1, t2, t3}
MCSource    == {one, two, tool}
MCProcess   == {daemon, cli}
MCProcessOf == [s \in MCSource |-> IF s = tool THEN cli ELSE daemon]
MCCommand   == {tool}

\* A burst over two sources that exchange, with a crash.
Burst == [tasks |-> MCTask, sources |-> {one, two}, exchange |-> TRUE, revokes |-> FALSE,
          responses |-> 2, enrolments |-> 0, crashes |-> 1, logouts |-> 0]

\* An enrolment in the daemon, beside a burst.
Enrolment == [tasks |-> MCTask, sources |-> {one}, exchange |-> FALSE, revokes |-> FALSE,
              responses |-> 2, enrolments |-> 1, crashes |-> 0, logouts |-> 0]

\* An enrolment in either process, with token exchange, a crash and a logout.
Turmoil == [tasks |-> {t1, t2}, sources |-> {one, tool}, exchange |-> TRUE, revokes |-> FALSE,
            responses |-> 2, enrolments |-> 1, crashes |-> 1, logouts |-> 1]

\* A provider that revokes on reuse: a burst over one source, and an enrolment
\* beside two of them.
Strict == [tasks |-> MCTask, sources |-> {one}, exchange |-> FALSE, revokes |-> TRUE,
           responses |-> 3, enrolments |-> 0, crashes |-> 1, logouts |-> 1]
StrictTwice == [Strict EXCEPT !.tasks = {t1, t2}, !.sources = {one, two},
                              !.enrolments = 1, !.logouts = 0]

MCScenes == {Burst, Enrolment, Turmoil, Strict, StrictTwice}
=============================================================================
