------------------------- MODULE DeadlineLoopProofs -------------------------
(***************************************************************************)
(* The schedule of run_deadline for every interval, slack and clock, and   *)
(* of the sampled values that are sent in its rounds.                      *)
(***************************************************************************)
EXTENDS SmvPublisher, TLAPS

USE TimingAssumption

LEMMA TypeInit == Init => TypeOK
  BY DEF Init, TypeOK

LEMMA TypeStep == TypeOK /\ [Next]_vars => TypeOK'
<1> SUFFICES ASSUME TypeOK, [Next]_vars PROVE TypeOK'
  OBVIOUS
<1> USE DEF TypeOK
<1>1. ASSUME Tick PROVE TypeOK'
  BY <1>1 DEF Tick
<1>2. ASSUME Sigint PROVE TypeOK'
  BY <1>2 DEF Sigint
<1>3. ASSUME StartRound PROVE TypeOK'
  BY <1>3 DEF StartRound
<1>4. ASSUME EndRound PROVE TypeOK'
  BY <1>4 DEF EndRound
<1>5. ASSUME SkipDeadline PROVE TypeOK'
  BY <1>5 DEF SkipDeadline
<1>6. ASSUME Leave PROVE TypeOK'
  BY <1>6 DEF Leave
<1>7. CASE UNCHANGED vars
  BY <1>7 DEF vars
<1> QED
  BY <1>1, <1>2, <1>3, <1>4, <1>5, <1>6, <1>7 DEF Next

(* The clock, the deadlines and the counters keep their types. *)
THEOREM TypeCorrect == Spec => []TypeOK
  BY TypeInit, TypeStep, PTL DEF Spec

-----------------------------------------------------------------------------

LEMMA OneMore ==
  ASSUME NEW a \in Nat, NEW n \in Nat
  PROVE  a * (n + 1) = a * n + a
  OBVIOUS

(* next_deadline is always the grid point that follows the rounds started  *)
(* and the deadlines skipped: run_deadline neither loses nor invents one.  *)
THEOREM DeadlinesOnGrid == Spec => []OnGrid
<1>1. Init => OnGrid
  BY DEF Init, OnGrid
<1>2. TypeOK /\ OnGrid /\ [Next]_vars => OnGrid'
  <2> SUFFICES ASSUME TypeOK, OnGrid, [Next]_vars PROVE OnGrid'
    OBVIOUS
  <2> DEFINE n == 1 + rounds + deadlines_skipped
  <2>1. n \in Nat /\ Interval * (n + 1) = Interval * n + Interval
    BY OneMore DEF TypeOK
  <2>2. CASE next_deadline' = next_deadline + Interval /\ n' = n + 1
    BY <2>1, <2>2 DEF OnGrid, TypeOK
  <2>3. CASE UNCHANGED <<next_deadline, rounds, deadlines_skipped>>
    BY <2>3 DEF OnGrid
  <2>4. StartRound => next_deadline' = next_deadline + Interval /\ n' = n + 1
    BY DEF StartRound, TypeOK
  <2>5. SkipDeadline => \/ next_deadline' = next_deadline + Interval /\ n' = n + 1
                        \/ UNCHANGED <<next_deadline, rounds, deadlines_skipped>>
    BY DEF SkipDeadline, TypeOK
  <2>6. Tick \/ Sigint \/ EndRound \/ Leave \/ UNCHANGED vars =>
            UNCHANGED <<next_deadline, rounds, deadlines_skipped>>
    BY DEF Tick, Sigint, EndRound, Leave, vars
  <2> QED
    BY <2>2, <2>3, <2>4, <2>5, <2>6 DEF Next
<1> QED
  BY <1>1, <1>2, TypeCorrect, PTL DEF Spec

-----------------------------------------------------------------------------

Spaced == SpareIsLeft /\ NextCanBeMet /\ SkipsAreNeeded

LEMMA SpacedStep == TypeOK /\ Spaced /\ [Next]_vars => Spaced'
<1> SUFFICES ASSUME TypeOK, Spaced, [Next]_vars PROVE Spaced'
  OBVIOUS
<1> USE DEF TypeOK, Spaced, SpareIsLeft, NextCanBeMet, SkipsAreNeeded
<1>1. ASSUME Tick PROVE Spaced'
  BY <1>1 DEF Tick
<1>2. ASSUME Sigint PROVE Spaced'
  BY <1>2 DEF Sigint
<1>3. ASSUME StartRound PROVE Spaced'
  BY <1>3 DEF StartRound
<1>4. ASSUME EndRound PROVE Spaced'
  BY <1>4 DEF EndRound
<1>5. ASSUME SkipDeadline PROVE Spaced'
  <2>1. CASE spare < Slack
    BY <1>5, <2>1 DEF SkipDeadline
  <2>2. CASE ~(spare < Slack)
    BY <1>5, <2>2 DEF SkipDeadline
  <2> QED
    BY <2>1, <2>2
<1>6. ASSUME Leave PROVE Spaced'
  BY <1>6 DEF Leave
<1>7. CASE UNCHANGED vars
  BY <1>7 DEF vars
<1> QED
  BY <1>1, <1>2, <1>3, <1>4, <1>5, <1>6, <1>7 DEF Next

LEMMA SpacedInvariant == Spec => []Spaced
<1>1. Init => Spaced
  BY DEF Init, Spaced, SpareIsLeft, NextCanBeMet, SkipsAreNeeded
<1> QED
  BY <1>1, SpacedStep, TypeCorrect, PTL DEF Spec

(* A backlog of missed deadlines is never worked off in a burst: between   *)
(* the end of a round and the next deadline there is at least the slack,   *)
(* and the round after starts no sooner, however long rounds take.         *)
THEOREM NoBursts == Spec => [](NextCanBeMet /\ RoundsAreSpaced)
<1>1. Spaced => NextCanBeMet /\ RoundsAreSpaced
  BY DEF Spaced, SpareIsLeft, RoundsAreSpaced
<1> QED
  BY <1>1, SpacedInvariant, PTL

(* Only deadlines closer than two slacks to the end of a round, or already *)
(* past, are skipped.                                                      *)
THEOREM NoNeedlessSkip == Spec => []SkipsAreNeeded
<1>1. Spaced => SkipsAreNeeded
  BY DEF Spaced
<1> QED
  BY <1>1, SpacedInvariant, PTL

-----------------------------------------------------------------------------
(* The sampled values.                                                     *)

USE SampleAssumption

(* The nominal time of the n-th sample, counted from the loop's start. *)
Nominal(n) == Origin + SampleInterval * n

LEMMA NominalNext ==
  ASSUME NEW n \in Nat
  PROVE  Nominal(n) \in Nat /\ Nominal(n + 1) = Nominal(n) + SampleInterval
  BY OneMore DEF Nominal

LEMMA Distribute ==
  ASSUME NEW a \in Nat, NEW m \in Nat, NEW n \in Nat
  PROVE  a * (m + 1 + n) = a * (m + 1) + a * n
  OBVIOUS

LEMMA LoopStep == [SNext]_<<vars, svars>> => [Next]_vars
  BY DEF SNext, Next, LookAtClock, Send

STyped == STypeOK /\ Spaced

(* Where the publisher is in the round, and which times have been reached. *)
Times ==
    /\ pc # "round" => at = "after" /\ sent_at <= end_time
    /\ pc = "round" => now >= due
    /\ rounds > 0 => next_deadline >= due + Interval
    /\ sent > 0 => rounds > 0
    /\ sent_at <= now /\ end_time <= now
    /\ at # "after" /\ sent > 0 => now >= sent_at + Slack

(* transmit_deadline is the time of the sample after those sent, and is    *)
(* reached before that one is.                                             *)
SampleGrid ==
    /\ at # "sending" => transmit_deadline = Created + SampleInterval * (sent + 1)
    /\ at = "sending" => /\ transmit_deadline = Created + SampleInterval * (sent + 2)
                         /\ now >= Created + SampleInterval * (sent + 1)

(* How late the stream may be at each point of a round. *)
Lag ==
    /\ pc # "round" => Nominal(sent + 1 + deadlines_skipped) > next_deadline - Interval
    /\ at = "before" => Nominal(sent + 1 + deadlines_skipped) > due - Interval
    /\ at = "sending" => Nominal(sent + 2 + deadlines_skipped) > due
    /\ pc = "round" /\ at = "after" => Nominal(sent + 1 + deadlines_skipped) > due

LEMMA STypedStep == STyped /\ [SNext]_<<vars, svars>> => STyped'
<1>. SUFFICES ASSUME STyped, [SNext]_<<vars, svars>> PROVE STyped'
  OBVIOUS
<1>1. TypeOK' /\ Spaced'
  BY LoopStep, TypeStep, SpacedStep DEF STyped, STypeOK
<1>2. UNCHANGED svars => STypeOK'
  BY <1>1 DEF STyped, STypeOK, svars
<1>3. CASE at' = "before" /\ UNCHANGED <<transmit_deadline, sent, sent_at>>
  BY <1>1, <1>3 DEF STyped, STypeOK
<1>4. CASE LookAtClock
  BY <1>1, <1>4 DEF LookAtClock, STyped, STypeOK
<1>5. CASE Send
  BY <1>1, <1>5 DEF Send, STyped, STypeOK, TypeOK
<1>. QED BY <1>1, <1>2, <1>3, <1>4, <1>5 DEF SNext, STyped

LEMMA TimesStep == STyped /\ Times /\ [SNext]_<<vars, svars>> => Times'
<1>. SUFFICES ASSUME STyped, Times, [SNext]_<<vars, svars>> PROVE Times'
  OBVIOUS
<1>. USE DEF STyped, STypeOK, TypeOK, Times
<1>1. CASE StartRound /\ at' = "before" /\ UNCHANGED <<transmit_deadline, sent, sent_at>>
  BY <1>1 DEF StartRound, Spaced, NextCanBeMet
<1>2. CASE LookAtClock
  BY <1>2 DEF LookAtClock, vars
<1>3. CASE Send
  BY <1>3 DEF Send, vars, Spaced, SpareIsLeft
<1>4. CASE at = "after" /\ EndRound /\ UNCHANGED svars
  BY <1>4 DEF EndRound, svars
<1>5. CASE (Tick \/ Sigint \/ Leave) /\ UNCHANGED svars
  BY <1>5 DEF Tick, Sigint, Leave, svars
<1>6. CASE SkipDeadline /\ UNCHANGED svars
  BY <1>6 DEF SkipDeadline, svars
<1>7. CASE UNCHANGED <<vars, svars>>
  BY <1>7 DEF vars, svars
<1>. QED BY <1>1, <1>2, <1>3, <1>4, <1>5, <1>6, <1>7 DEF SNext

LEMMA SampleGridStep == STyped /\ Times /\ SampleGrid /\ [SNext]_<<vars, svars>> => SampleGrid'
<1>. SUFFICES ASSUME STyped, Times, SampleGrid, [SNext]_<<vars, svars>> PROVE SampleGrid'
  OBVIOUS
<1>0. /\ sent \in Nat /\ now \in Nat /\ transmit_deadline \in Nat
      /\ at \in {"before", "sending", "after"}
  BY DEF STyped, STypeOK, TypeOK
<1>n. SampleInterval * (sent + 2) = SampleInterval * (sent + 1) + SampleInterval
  BY <1>0, OneMore
<1>1. CASE LookAtClock
  BY <1>0, <1>n, <1>1 DEF LookAtClock, SampleGrid, vars
<1>2. CASE Send
  <2>1. sent' + 1 = sent + 2 /\ at' = "after" /\ at = "sending" /\ transmit_deadline' = transmit_deadline
    BY <1>0, <1>2 DEF Send
  <2>. QED BY <2>1 DEF SampleGrid
<1> DEFINE Keeps == /\ UNCHANGED <<transmit_deadline, sent>> /\ now' \in Nat /\ now' >= now
                    /\ (at' = at) \/ (at' = "before" /\ at = "after")
<1>3. CASE Keeps
  <2>1. SampleInterval * (sent + 1) \in Nat
    BY <1>0
  <2>. QED BY <1>0, <1>3, <2>1 DEF SampleGrid
<1>4. CASE StartRound /\ at' = "before" /\ UNCHANGED <<transmit_deadline, sent, sent_at>>
  <2>. Keeps
    BY <1>0, <1>4 DEF StartRound, Times
  <2>. QED BY <1>3
<1>5. CASE (EndRound \/ Tick \/ Sigint \/ SkipDeadline \/ Leave) /\ UNCHANGED svars
  <2>. Keeps
    BY <1>0, <1>5 DEF EndRound, Tick, Sigint, SkipDeadline, Leave, svars
  <2>. QED BY <1>3
<1>6. CASE UNCHANGED <<vars, svars>>
  <2>. Keeps
    BY <1>0, <1>6 DEF vars, svars
  <2>. QED BY <1>3
<1>. QED BY <1>1, <1>2, <1>4, <1>5, <1>6 DEF SNext

LEMMA LagStep ==
  ASSUME SampleInterval >= Interval, STyped, Times, SampleGrid, Lag, [SNext]_<<vars, svars>>
  PROVE  Lag'
<1>0. /\ {now, next_deadline, due, deadlines_skipped, sent, transmit_deadline} \subseteq Nat
      /\ at \in {"before", "sending", "after"}
  BY DEF STyped, STypeOK, TypeOK
<1> DEFINE n == sent + deadlines_skipped
<1>n. /\ n \in Nat /\ sent + 1 + deadlines_skipped = n + 1 /\ sent + 2 + deadlines_skipped = n + 2
      /\ Nominal(n + 1) \in Nat /\ Nominal(n + 2) = Nominal(n + 1) + SampleInterval
  <2>1. n \in Nat /\ n + 1 \in Nat /\ n + 1 + 1 = n + 2
    BY <1>0
  <2>. QED BY <1>0, <2>1, NominalNext
<1>l. /\ pc # "round" => Nominal(n + 1) > next_deadline - Interval
      /\ at = "before" => Nominal(n + 1) > due - Interval
      /\ at = "sending" => Nominal(n + 2) > due
      /\ pc = "round" /\ at = "after" => Nominal(n + 1) > due
  BY <1>n DEF Lag
<1>. SUFFICES /\ pc' # "round" => Nominal(n' + 1) > next_deadline' - Interval
              /\ at' = "before" => Nominal(n' + 1) > due' - Interval
              /\ at' = "sending" => Nominal(n' + 2) > due'
              /\ pc' = "round" /\ at' = "after" => Nominal(n' + 1) > due'
  <2>1. sent' \in Nat /\ deadlines_skipped' \in Nat
    BY STypedStep DEF STyped, STypeOK, TypeOK
  <2>2. sent' + 1 + deadlines_skipped' = n' + 1 /\ sent' + 2 + deadlines_skipped' = n' + 2
    BY <2>1
  <2>. QED BY <2>2 DEF Lag, Nominal
<1>1. CASE StartRound /\ at' = "before" /\ UNCHANGED <<transmit_deadline, sent, sent_at>>
  <2>1. n' = n /\ due' = next_deadline /\ pc' = "round" /\ at' = "before" /\ pc = "poll"
    BY <1>1 DEF StartRound
  <2>. HIDE DEF n
  <2>. QED BY <1>l, <2>1
<1>2. CASE LookAtClock
  <2>1. n' = n /\ due' = due /\ pc' = "round" /\ at = "before"
    BY <1>2 DEF LookAtClock, vars
  <2>2. CASE now >= transmit_deadline
    <3>1. at' = "sending"
      BY <1>2, <2>2 DEF LookAtClock
    <3>. HIDE DEF n
    <3>. QED BY <1>0, <1>n, <1>l, <2>1, <3>1
  <2>3. CASE now < transmit_deadline
    <3>1. at' = "after" /\ transmit_deadline > due
      BY <1>0, <1>2, <2>1, <2>3 DEF LookAtClock, Times, vars
    <3>2. transmit_deadline = Created + SampleInterval * (sent + 1)
      BY <2>1 DEF SampleGrid
    <3>3. SampleInterval * (n + 1) = SampleInterval * (sent + 1) + SampleInterval * deadlines_skipped
      BY <1>0, <1>n, Distribute
    <3>4. SampleInterval * deadlines_skipped \in Nat /\ SampleInterval * (sent + 1) \in Nat
      BY <1>0
    <3>5. Nominal(n + 1) >= transmit_deadline
      BY <3>2, <3>3, <3>4 DEF Nominal
    <3>. HIDE DEF n
    <3>. QED BY <1>0, <1>n, <2>1, <3>1, <3>5
  <2>. QED BY <1>0, <2>2, <2>3
<1>3. CASE Send
  <2>1. n' + 1 = n + 2 /\ due' = due /\ pc' = "round" /\ at = "sending" /\ at' = "after"
    BY <1>0, <1>3 DEF Send, vars
  <2>. HIDE DEF n
  <2>. QED BY <1>l, <2>1
<1>4. CASE at = "after" /\ EndRound /\ UNCHANGED svars
  <2>1. n' = n /\ next_deadline' = next_deadline /\ pc = "round" /\ pc' # "round" /\ at' = "after"
    BY <1>4 DEF EndRound, svars
  <2>2. next_deadline - Interval = due
    BY <1>0, <2>1 DEF STyped, Spaced, SpareIsLeft
  <2>. HIDE DEF n
  <2>. QED BY <1>4, <1>l, <2>1, <2>2
<1>5. CASE SkipDeadline /\ UNCHANGED svars
  <2>1. pc = "skip" /\ pc' # "round" /\ at' = "after"
    BY <1>5 DEF SkipDeadline, Times, svars
  <2>2. CASE spare < Slack
    <3>1. n' + 1 = n + 2 /\ next_deadline' = next_deadline + Interval
      BY <1>0, <1>5, <2>2 DEF SkipDeadline, svars
    <3>. HIDE DEF n
    <3>. QED BY <1>0, <1>n, <1>l, <2>1, <3>1
  <2>3. CASE ~(spare < Slack)
    <3>1. n' = n /\ next_deadline' = next_deadline
      BY <1>5, <2>3 DEF SkipDeadline, svars
    <3>. HIDE DEF n
    <3>. QED BY <1>l, <2>1, <3>1
  <2>. QED BY <2>2, <2>3
<1>6. CASE (Tick \/ Sigint) /\ UNCHANGED svars
  <2>1. n' = n /\ UNCHANGED <<pc, at, next_deadline, due>>
    BY <1>6 DEF Tick, Sigint, svars
  <2>. HIDE DEF n
  <2>. QED BY <1>l, <2>1
<1>7. CASE Leave /\ UNCHANGED svars
  <2>1. n' = n /\ UNCHANGED <<at, next_deadline, due>> /\ pc = "poll" /\ pc' = "done"
    BY <1>7 DEF Leave, svars
  <2>. HIDE DEF n
  <2>. QED BY <1>l, <2>1
<1>8. CASE UNCHANGED <<vars, svars>>
  <2>1. n' = n /\ UNCHANGED <<pc, at, next_deadline, due>>
    BY <1>8 DEF vars, svars
  <2>. HIDE DEF n
  <2>. QED BY <1>l, <2>1
<1>. QED BY <1>1, <1>2, <1>3, <1>4, <1>5, <1>6, <1>7, <1>8 DEF SNext

SInv == STyped /\ Times /\ SampleGrid

LEMMA SampleInvariant == SSpec => []SInv
<1>1. SInit => SInv
  BY DEF SInit, SInv, Init, STyped, STypeOK, TypeOK, Spaced, SpareIsLeft, NextCanBeMet, SkipsAreNeeded,
         Times, SampleGrid
<1>2. SInv /\ [SNext]_<<vars, svars>> => SInv'
  BY STypedStep, TimesStep, SampleGridStep DEF SInv
<1>. QED BY <1>1, <1>2, PTL DEF SSpec

(* The stream of samples is never later than what the engine skipped:     *)
(* for every interval of the loop that is no longer than the one of the    *)
(* samples, every slack, and rounds of any length.                         *)
THEOREM StreamKeepsUp == SSpec => []LagIsSkipped
<1>1. SInit => Lag
  <2>1. Nominal(0 + 1) = Nominal(0) + SampleInterval /\ Nominal(0) = Origin
    BY NominalNext DEF Nominal
  <2>. QED BY <2>1 DEF SInit, Init, Lag
<1>2. SampleInterval >= Interval /\ SInv /\ Lag /\ [SNext]_<<vars, svars>> => Lag'
  BY LagStep DEF SInv
<1>3. SInv /\ Lag => LagIsSkipped
  <2>. SUFFICES ASSUME SInv, Lag, at = "after", rounds > 0
                PROVE  Nominal(sent + 1 + deadlines_skipped) > due
    BY DEF LagIsSkipped, Nominal
  <2>1. /\ {next_deadline, due, sent, deadlines_skipped} \subseteq Nat
        /\ Nominal(sent + 1 + deadlines_skipped) \in Nat
    BY NominalNext DEF SInv, STyped, STypeOK, TypeOK
  <2>. QED BY <2>1 DEF Lag, SInv, Times
<1>4. CASE SampleInterval >= Interval
  <2>1. SInv /\ Lag /\ [SNext]_<<vars, svars>> => Lag'
    BY <1>2, <1>4
  <2>. QED BY <1>1, <2>1, <1>3, SampleInvariant, PTL DEF SSpec
<1>5. CASE ~(SampleInterval >= Interval)
  <2>1. LagIsSkipped
    BY <1>5 DEF LagIsSkipped
  <2>. QED BY <2>1, PTL
<1>. QED BY <1>4, <1>5

(* A backlog is sent one sample a round, a slack apart, and no sample      *)
(* leaves ahead of its time: run() neither catches up in a burst nor lets  *)
(* its grid drift.                                                         *)
THEOREM SamplesKeepTime == SSpec => SamplesAreSpaced
<1>1. ASSUME SInv, [SNext]_<<vars, svars>>, sent' # sent
      PROVE  /\ sent' = sent + 1 /\ now >= Created + SampleInterval * sent'
             /\ sent > 0 => now >= sent_at + Slack
  <2>1. Send
    BY <1>1 DEF SNext, LookAtClock, svars
  <2>. QED BY <1>1, <2>1 DEF SInv, Send, SampleGrid, Times
<1>. QED BY <1>1, SampleInvariant, PTL DEF SSpec, SamplesAreSpaced
=============================================================================
