---------------------------- MODULE DeadlineLoop ----------------------------
(***************************************************************************)
(* run_deadline of main.c: the busy-wait loop that starts a round of run() *)
(* calls at every deadline of a fixed grid, and skips the deadlines a long *)
(* round has made impossible to meet.                                      *)
(*                                                                         *)
(* The clock is current_time() in microseconds.  It may advance between    *)
(* any two steps of the loop by any amount: a round takes as long as its   *)
(* modules take, and the process may be preempted anywhere.                *)
(***************************************************************************)
EXTENDS Integers

CONSTANTS
    Interval,    \* interval of the main config, when it is positive
    Slack,       \* slack: 10 in the source
    Origin,      \* current_time() when the loop is entered
    MaxTime      \* bound: the clock stops here

ASSUME TimingAssumption ==
    Interval \in Nat \ {0} /\ Slack \in Nat /\ Origin \in Nat /\ MaxTime \in Nat

VARIABLES
    now,                 \* the clock
    next_deadline,
    start_time,          \* when the current or last round was started
    end_time,            \* when the last round ended
    spare,
    deadlines_skipped,
    running,             \* cleared by sigint_handler
    pc,                  \* "poll", "round", "skip" or "done"
    rounds,              \* history: rounds started
    due                  \* history: the deadline the current or last round was started for

vars == <<now, next_deadline, start_time, end_time, spare, deadlines_skipped, running, pc, rounds, due>>

Init ==
    /\ now = Origin
    /\ next_deadline = Interval + Origin
    /\ start_time = Origin /\ end_time = Origin /\ due = Origin
    /\ spare = 0 /\ deadlines_skipped = 0 /\ rounds = 0
    /\ running = TRUE
    /\ pc = "poll"

Tick ==
    /\ now < MaxTime
    /\ now' = now + 1
    /\ UNCHANGED <<next_deadline, start_time, end_time, spare, deadlines_skipped, running, pc, rounds, due>>

Sigint ==
    /\ running' = FALSE
    /\ UNCHANGED <<now, next_deadline, start_time, end_time, spare, deadlines_skipped, pc, rounds, due>>

(* Mutant: the next deadline is set from the clock, not from the last one. *)
StartRoundDrift ==
    /\ pc = "poll" /\ running /\ now >= next_deadline
    /\ start_time' = now
    /\ due' = next_deadline
    /\ next_deadline' = now + Interval
    /\ rounds' = rounds + 1
    /\ pc' = "round"
    /\ UNCHANGED <<now, end_time, spare, deadlines_skipped, running>>

(* A poll of the clock that finds the deadline reached; an earlier poll    *)
(* changes nothing.                                                        *)
StartRound ==
    /\ pc = "poll" /\ running /\ now >= next_deadline
    /\ start_time' = now
    /\ due' = next_deadline
    /\ next_deadline' = next_deadline + Interval
    /\ rounds' = rounds + 1
    /\ pc' = "round"
    /\ UNCHANGED <<now, end_time, spare, deadlines_skipped, running>>

(* Mutant: the end of the round is not looked at. *)
EndRoundUnchecked ==
    /\ pc = "round"
    /\ end_time' = now
    /\ spare' = next_deadline - (now + Slack)
    /\ pc' = "poll"
    /\ UNCHANGED <<now, next_deadline, start_time, deadlines_skipped, running, rounds, due>>

(* The last module has returned. *)
EndRound ==
    /\ pc = "round"
    /\ end_time' = now
    /\ spare' = next_deadline - (now + Slack)
    /\ pc' = IF spare' < 0 THEN "skip" ELSE "poll"
    /\ UNCHANGED <<now, next_deadline, start_time, deadlines_skipped, running, rounds, due>>

(* Mutant: one deadline too many is skipped. *)
SkipDeadlineTooFar ==
    /\ pc = "skip"
    /\ IF spare < Slack + Interval
       THEN /\ next_deadline' = next_deadline + Interval
            /\ spare' = spare + Interval
            /\ deadlines_skipped' = deadlines_skipped + 1
            /\ UNCHANGED pc
       ELSE /\ pc' = "poll"
            /\ UNCHANGED <<next_deadline, spare, deadlines_skipped>>
    /\ UNCHANGED <<now, start_time, end_time, running, rounds, due>>

(* Mutant: the deadline is moved the wrong way. *)
SkipDeadlineBack ==
    /\ pc = "skip" /\ spare < Slack
    /\ next_deadline' = next_deadline - Interval
    /\ spare' = spare - Interval
    /\ deadlines_skipped' = deadlines_skipped + 1
    /\ UNCHANGED <<pc, now, start_time, end_time, running, rounds, due>>

(* One test of `while(spare < slack)`. *)
SkipDeadline ==
    /\ pc = "skip"
    /\ IF spare < Slack
       THEN /\ next_deadline' = next_deadline + Interval
            /\ spare' = spare + Interval
            /\ deadlines_skipped' = deadlines_skipped + 1
            /\ UNCHANGED pc
       ELSE /\ pc' = "poll"
            /\ UNCHANGED <<next_deadline, spare, deadlines_skipped>>
    /\ UNCHANGED <<now, start_time, end_time, running, rounds, due>>

Leave ==
    /\ pc = "poll" /\ ~running
    /\ pc' = "done"
    /\ UNCHANGED <<now, next_deadline, start_time, end_time, spare, deadlines_skipped, running, rounds, due>>

Next == Tick \/ Sigint \/ StartRound \/ EndRound \/ SkipDeadline \/ Leave

Spec == Init /\ [][Next]_vars

-----------------------------------------------------------------------------

TypeOK ==
    /\ {now, next_deadline, start_time, end_time, deadlines_skipped, rounds, due} \subseteq Nat
    /\ spare \in Int
    /\ running \in BOOLEAN
    /\ pc \in {"poll", "round", "skip", "done"}

(* Deadlines stay on the grid laid out when the loop was entered: every    *)
(* grid point is either given to a round or counted in deadlines_skipped,  *)
(* so late rounds do not make the schedule drift.                          *)
OnGrid == next_deadline = Origin + Interval * (1 + rounds + deadlines_skipped)

(* After a round the next deadline lies at least Slack after its end: no   *)
(* backlog of missed deadlines is ever worked off in a burst ("ensure the  *)
(* next deadline can be met").                                             *)
NextCanBeMet == pc = "poll" /\ rounds > 0 => next_deadline >= end_time + Slack

(* Rounds start no earlier than the deadline they are due at, and at least *)
(* Slack after the end of the round before.                                *)
RoundsAreSpaced == pc = "round" /\ rounds > 1 => start_time >= end_time + Slack

(* No deadline that could be met is skipped: the last one skipped lies     *)
(* less than two slacks after the end of the round, or before it.          *)
SkipsAreNeeded ==
    pc = "poll" /\ rounds > 0 /\ next_deadline > due + Interval =>
        next_deadline - Interval < end_time + 2 * Slack

(* What the proofs need beside: how spare relates to the next deadline,    *)
(* and that the loop skips nothing before it has to.                       *)
SpareIsLeft ==
    /\ pc = "round" => next_deadline = due + Interval /\ rounds > 0
    /\ pc = "skip" => /\ spare = next_deadline - (end_time + Slack)
                      /\ rounds > 0
                      /\ next_deadline > due + Interval => next_deadline - Interval < end_time + 2 * Slack
    /\ pc = "round" /\ rounds > 1 => start_time >= end_time + Slack
=============================================================================
