---------------------------- MODULE SmvPublisher ----------------------------
(***************************************************************************)
(* run() of module_src/smv_publisher in the rounds of run_deadline         *)
(* (DeadlineLoop.tla): the sampled-value stream has a grid of its own, and *)
(* a sample is sent by the first round that finds its time reached.        *)
(*                                                                         *)
(* The other modules of a round, before and after the publisher, are the   *)
(* time it takes.  What a sample holds is left out, and so is smpCnt: the  *)
(* library wraps it, and sent counts on.                                   *)
(***************************************************************************)
EXTENDS DeadlineLoop

CONSTANTS
    SampleInterval,  \* interval of smv_publisher.ini
    Created          \* current_time() in init(), before the loop is entered

ASSUME SampleAssumption == SampleInterval \in Nat \ {0} /\ Created \in 0..Origin

VARIABLES
    transmit_deadline,
    at,         \* where run() is in this round: "before", "sending" or "after"
    sent,       \* history: samples sent, and when the last one was
    sent_at

svars == <<transmit_deadline, at, sent, sent_at>>

SInit ==
    /\ Init
    /\ transmit_deadline = Created + SampleInterval
    /\ at = "after" /\ sent = 0 /\ sent_at = Created

(* Mutant: the next sample is due an interval after now. *)
LookAtClockDrift ==
    /\ pc = "round" /\ at = "before"
    /\ IF now >= transmit_deadline
       THEN at' = "sending" /\ transmit_deadline' = now + SampleInterval
       ELSE at' = "after" /\ UNCHANGED transmit_deadline
    /\ UNCHANGED <<vars, sent, sent_at>>

(* run() reads the clock. *)
LookAtClock ==
    /\ pc = "round" /\ at = "before"
    /\ IF now >= transmit_deadline
       THEN at' = "sending" /\ transmit_deadline' = transmit_deadline + SampleInterval
       ELSE at' = "after" /\ UNCHANGED transmit_deadline
    /\ UNCHANGED <<vars, sent, sent_at>>

(* Mutant: run() sends until it has caught up. *)
SendBurst ==
    /\ pc = "round" /\ at = "sending"
    /\ sent' = sent + 1 /\ sent_at' = now
    /\ IF now >= transmit_deadline
       THEN transmit_deadline' = transmit_deadline + SampleInterval /\ UNCHANGED at
       ELSE at' = "after" /\ UNCHANGED transmit_deadline
    /\ UNCHANGED vars

(* The inputs are read, and SVPublisher_publish is called. *)
Send ==
    /\ pc = "round" /\ at = "sending"
    /\ sent' = sent + 1 /\ sent_at' = now
    /\ at' = "after"
    /\ UNCHANGED <<vars, transmit_deadline>>

SNext ==
    \/ StartRound /\ at' = "before" /\ UNCHANGED <<transmit_deadline, sent, sent_at>>
    \/ LookAtClock \/ Send
    \/ at = "after" /\ EndRound /\ UNCHANGED svars
    \/ (Tick \/ Sigint \/ SkipDeadline \/ Leave) /\ UNCHANGED svars

SSpec == SInit /\ [][SNext]_<<vars, svars>>

-----------------------------------------------------------------------------

STypeOK ==
    /\ TypeOK
    /\ {transmit_deadline, sent, sent_at} \subseteq Nat
    /\ at \in {"before", "sending", "after"}

(* The engine never makes the stream later than it must be: with rounds at *)
(* least as frequent as samples, the sample after those sent would have    *)
(* been due after the last round's deadline, but for one interval for each *)
(* deadline that the loop has skipped, and for what passed between init()  *)
(* and the loop; however long rounds take, and wherever in them the        *)
(* publisher runs.                                                         *)
LagIsSkipped ==
    SampleInterval >= Interval /\ at = "after" /\ rounds > 0 =>
        Origin + SampleInterval * (sent + 1 + deadlines_skipped) > due

(* A backlog of samples is sent one per round, at least a slack apart, and *)
(* never ahead of time: the n-th sample leaves no earlier than n intervals *)
(* after init().                                                           *)
SamplesAreSpaced ==
    [][sent' # sent =>
         /\ sent' = sent + 1 /\ now >= Created + SampleInterval * sent'
         /\ sent > 0 => now >= sent_at + Slack]_<<vars, svars>>
=============================================================================
