----------------------------- MODULE RoundLine -----------------------------
(***************************************************************************)
(* What a repeating poll promises its owner, whatever statements, rolls,   *)
(* ticks and crashes go on behind it: one line of rounds, numbered without *)
(* a gap and each opened once, of which only the last is ever not over.  A *)
(* round is begun when all before it are over, and none is once the series *)
(* has been ended.  What is over stays over.                               *)
(***************************************************************************)
EXTENDS Integers

VARIABLES
    drafts,   \* the rounds, by number, that are not published yet
    running,  \* those that take answers or will
    over,     \* those that are closed or archived
    stopped   \* the running round was the last

lineVars == <<drafts, running, over, stopped>>

LineInit ==
    /\ drafts = {} /\ running = {} /\ over = {}
    /\ stopped = FALSE

\* The next number joins the line.
Begin(n) ==
    /\ ~stopped
    /\ drafts = {} /\ running = {} /\ over = 1..(n - 1)
    /\ drafts' = {n}
    /\ UNCHANGED <<running, over, stopped>>

Open(n) ==
    /\ n \in drafts
    /\ drafts' = drafts \ {n}
    /\ running' = running \cup {n}
    /\ UNCHANGED <<over, stopped>>

\* A draft may be archived as it is.
Finish(n) ==
    /\ n \in drafts \cup running
    /\ drafts' = drafts \ {n}
    /\ running' = running \ {n}
    /\ over' = over \cup {n}
    /\ UNCHANGED stopped

Stop ==
    /\ drafts = {} /\ running # {}
    /\ stopped' = TRUE
    /\ UNCHANGED <<drafts, running, over>>

LineNext ==
    \/ Begin(1)
    \/ \E n \in over : Begin(n + 1)
    \/ \E n \in drafts \cup running : Open(n) \/ Finish(n)
    \/ Stop

LineSpec == LineInit /\ [][LineNext]_lineVars
=============================================================================
