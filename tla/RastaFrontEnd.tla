--------------------------- MODULE RastaFrontEnd ---------------------------
(***************************************************************************)
(* What a front end promises about the commands of the screens, whatever   *)
(* it reads them with: one command at a time; while it runs, the session   *)
(* stays at the screen that asked for it; and that screen hears of it      *)
(* once, after the process ended, with the exit status it ended with and   *)
(* with everything it wrote, in order.  Only a command with a stream that  *)
(* could not be read to its end may be heard of in part, or, by a front    *)
(* end that abandons it, not at all.                                       *)
(***************************************************************************)
EXTENDS Naturals, Sequences

CONSTANTS Places,   \* the elements a session can be at
          Pieces,   \* what a command can write at a time
          Nobody,
          Abandons  \* does a front end drop such a command?

VARIABLES
    at,         \* where the session is
    running,    \* the place whose command is being collected, or Nobody
    wrote,      \* what that command has written to its standard output
    torn,       \* could not all of it be read?
    exit,       \* "no", "ok" or "failed"
    heard,      \* the outcome of the last command, until the next one starts
    over        \* has the program ended?

vars == <<at, running, wrote, torn, exit, heard, over>>

Silence == [to |-> Nobody, ok |-> TRUE, out |-> <<>>]

Init ==
    /\ at \in Places /\ running = Nobody
    /\ wrote = <<>> /\ torn = FALSE /\ exit = "no"
    /\ heard = Silence /\ over = FALSE

Move ==
    /\ ~over /\ running = Nobody
    /\ at' \in Places
    /\ UNCHANGED <<running, wrote, torn, exit, heard, over>>

Start ==
    /\ ~over /\ running = Nobody
    /\ running' = at
    /\ heard' = Silence
    /\ UNCHANGED <<at, wrote, torn, exit, over>>

\* The command cannot be started, and its screen hears that it failed.
NotStarted ==
    /\ ~over /\ running = Nobody
    /\ heard' = [to |-> at, ok |-> FALSE, out |-> <<>>]
    /\ at' \in Places
    /\ UNCHANGED <<running, wrote, torn, exit, over>>

Command ==
    /\ running # Nobody
    /\ \/ \E p \in Pieces : wrote' = Append(wrote, p) /\ UNCHANGED <<torn, exit>>
       \/ torn' = TRUE /\ UNCHANGED <<wrote, exit>>
       \/ exit = "no" /\ exit' \in {"ok", "failed"} /\ UNCHANGED <<wrote, torn>>
    /\ UNCHANGED <<at, running, heard, over>>

\* The pieces are the ones written, but for how the last one ends.
Same(out, written) ==
    /\ Len(out) = Len(written)
    /\ \A i \in 1..Len(out) : i < Len(out) => out[i] = written[i]

Hear ==
    /\ running # Nobody /\ exit # "no"
    /\ running' = Nobody
    /\ heard'.to = at /\ at = running
    /\ heard'.ok = (exit = "ok")
    /\ ~torn => Same(heard'.out, wrote)
    /\ at' \in Places
    /\ wrote' = <<>> /\ torn' = FALSE /\ exit' = "no"
    /\ UNCHANGED over

Abandon ==
    /\ Abandons /\ running # Nobody /\ torn
    /\ running' = Nobody
    /\ wrote' = <<>> /\ torn' = FALSE /\ exit' = "no"
    /\ UNCHANGED <<at, heard, over>>

\* The program may end at any time, and the command is heard of no more.
Stop ==
    /\ ~over /\ over' = TRUE
    /\ running' = Nobody /\ at' \in Places
    /\ wrote' = <<>> /\ torn' = FALSE /\ exit' = "no" /\ heard' = Silence

Next == Move \/ Start \/ NotStarted \/ Command \/ Hear \/ Abandon \/ Stop

Spec == Init /\ [][Next]_vars
=============================================================================
