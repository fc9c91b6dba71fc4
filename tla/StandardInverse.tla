--------------------------- MODULE StandardInverse ---------------------------
(***************************************************************************)
(* The protection module si.c behind the sampled-value subscriber: event() *)
(* works through the samples between the index it saw last and the         *)
(* published one; for each it takes the RMS over a cycle of samples, and   *)
(* runs the standard inverse time-overcurrent characteristic on it.        *)
(*                                                                         *)
(* The two modules are in one engine, where event() runs inside the        *)
(* listener's callback or from the engine's round, or in two processes,    *)
(* where run() polls the ring while it is being written.  Currents are     *)
(* natural numbers, the RMS is rounded down, and TripTime is any curve.    *)
(* write_output_bool and the trip callback are one step here: the ring     *)
(* file's lock is the subject of SharedBuffer, dispatch that of Engine.    *)
(***************************************************************************)
EXTENDS Subscriber, Integers

CONSTANTS
    Deployments,  \* values of sameEngine considered
    SiItems,      \* max_items of si.c: buffer_entries of SI.ini, of its OWN output
    Vector,       \* vector: samples per cycle, 80 in the source
    UintRange,    \* 2^32: unsigned arithmetic wraps here
    Levels,       \* currents a sample may carry
    Threshold,    \* treshold: param_b
    TripTime(_),  \* trip_time for an average current, in the clock's unit
    MaxTime       \* bound: the clock stops here

(* read_input_smv does not check its index, so a SiItems beyond Entries    *)
(* would read behind the mapping: not a state modelled here.               *)
ASSUME SiAssumption ==
    /\ Kind = "SMV" /\ Deployments \subseteq BOOLEAN
    /\ SiItems \in 1 .. Entries /\ {Vector, UintRange} \subseteq Nat \ {0}
    /\ Levels \subseteq Nat /\ Threshold \in Nat /\ MaxTime \in Nat

VARIABLES
    sameEngine,    \* both modules in one engine, or each in its own process
    levels,        \* the current of each version the remote side made
    now,           \* current_time()
    dispatched,    \* the callback under way has called SI's event() already
    si_pc,         \* "out", "loop", "read" or "eval"
    old_index,     \* the index up to which samples are done
    cur,           \* index, as read at the start of event()
    window,        \* versions read for the RMS so far, newest first
    is_recording, total, sample_count, start_time, trip,
    done,          \* history: samples worked through
    lapped,        \* history: the ring was overwritten under the reader once
    due            \* history: the last sample asked for a trip

siVars == <<sameEngine, dispatched, si_pc, old_index, cur, window, is_recording, total, sample_count, start_time, trip, done, due>>
recordVars == <<is_recording, total, sample_count, start_time, trip, due>>
vars == <<subVars, levels, now, siVars, lapped>>

(* Mutant: samples count from before the first one. *)
InitBeforeFirst ==
    /\ SubInit
    /\ sameEngine \in Deployments
    /\ levels = <<>> /\ now = 0
    /\ dispatched = FALSE /\ si_pc = "out"
    /\ old_index = Entries - 1 /\ cur = 0 /\ window = <<>>
    /\ is_recording = FALSE /\ total = 0 /\ sample_count = 0 /\ start_time = 0 /\ trip = FALSE
    /\ done = 0 /\ lapped = FALSE /\ due = FALSE

(* Both modules initialised, in the order of main_config.ini: the header   *)
(* is written when si.c's init reads the index.                            *)
Init ==
    /\ SubInit
    /\ sameEngine \in Deployments
    /\ levels = <<>> /\ now = 0
    /\ dispatched = FALSE /\ si_pc = "out"
    /\ old_index = index /\ cur = 0 /\ window = <<>>
    /\ is_recording = FALSE /\ total = 0 /\ sample_count = 0 /\ start_time = 0 /\ trip = FALSE
    /\ done = 0 /\ lapped = FALSE /\ due = FALSE

-----------------------------------------------------------------------------
(* The subscriber's side. *)

(* Samples still needed by the reader have been overwritten. *)
Laps == Len(accepted') - done > Entries + 1 - Vector

SampleMade ==
    /\ RemoteChange
    /\ \E l \in Levels : levels' = Append(levels, l)
    /\ UNCHANGED <<now, siVars, lapped>>

SampleLost == Lose /\ UNCHANGED <<levels, now, siVars, lapped>>

SubscriberTicks ==
    /\ sameEngine => si_pc = "out"
    /\ Receive
    /\ lapped' = (lapped \/ Laps)
    /\ UNCHANGED <<levels, now, siVars>>

SubscriberStores ==
    /\ StoreWord \/ PublishIndex
    /\ UNCHANGED <<levels, now, siVars, lapped>>

(* In one engine the callback returns after SI's event() has. *)
SubscriberReturns ==
    /\ sameEngine => dispatched /\ si_pc = "out"
    /\ CallbackReturns
    /\ dispatched' = FALSE
    /\ UNCHANGED <<sameEngine, levels, now, si_pc, old_index, cur, window, recordVars, done, lapped>>

Tick ==
    /\ now < MaxTime /\ now' = now + 1
    /\ UNCHANGED <<subVars, levels, siVars, lapped>>

-----------------------------------------------------------------------------
(* event() of si.c. *)

(* event() is called, by the callback or by run(), and finds a new index.  *)
CallEvent ==
    /\ si_pc = "out" /\ ~dispatched
    /\ sameEngine => pc \in {"tick", "callback"}
    /\ old_index # index
    /\ cur' = index
    /\ si_pc' = "loop"
    /\ dispatched' = (sameEngine /\ pc = "callback")
    /\ UNCHANGED <<subVars, sameEngine, levels, now, old_index, window, recordVars, done, lapped>>

(* The callback's event() finds the index unchanged, and returns -1. *)
CallEventNoUpdate ==
    /\ si_pc = "out" /\ ~dispatched /\ sameEngine /\ pc = "callback"
    /\ old_index = index
    /\ dispatched' = TRUE
    /\ UNCHANGED <<subVars, sameEngine, levels, now, si_pc, old_index, cur, window, recordVars, done, lapped>>

LeaveEvent ==
    /\ si_pc = "loop" /\ (old_index = cur \/ trip)
    /\ si_pc' = "out"
    /\ UNCHANGED <<subVars, sameEngine, levels, now, dispatched, old_index, cur, window, recordVars, done, lapped>>

StartSample ==
    /\ si_pc = "loop" /\ old_index # cur /\ ~trip
    /\ si_pc' = "read" /\ window' = <<>>
    /\ UNCHANGED <<subVars, sameEngine, levels, now, dispatched, old_index, cur, recordVars, done, lapped>>

(* Mutant: the window runs forward from the sample. *)
ReadSlotForward(i) == (old_index + i) % SiItems

(* The slot read for the i-th sample of the window: old_index - i as an    *)
(* unsigned number, modulo the length of SI's own output.                  *)
ReadSlot(i) == ((old_index - i) % UintRange) % SiItems

ReadSample ==
    /\ si_pc = "read"
    /\ window' = Append(window, slots[ReadSlot(Len(window))][1])
    /\ si_pc' = IF Len(window') = Vector THEN "eval" ELSE "read"
    /\ UNCHANGED <<subVars, sameEngine, levels, now, dispatched, old_index, cur, recordVars, done, lapped>>

Current(v) == IF v = 0 THEN 0 ELSE levels[v]

SumOfSquares == LET sum[i \in 0 .. Len(window)] ==
                       IF i = 0 THEN 0 ELSE sum[i - 1] + Current(window[i]) * Current(window[i])
                IN  sum[Len(window)]

Rms == LET mean == SumOfSquares \div Vector
       IN  CHOOSE r \in 0 .. mean : r * r <= mean /\ (r + 1) * (r + 1) > mean

(* Pickup, averaging since the pickup, and the trip test.  start - now is  *)
(* what the code compares with the trip time.                              *)
Characteristic ==
    LET pickup == Rms > Threshold /\ ~is_recording
        records == is_recording \/ pickup
        sum == IF pickup THEN Rms ELSE total + Rms
        count == IF pickup THEN 1 ELSE sample_count + 1
        start == IF pickup THEN now ELSE start_time
        above == records /\ sum > Threshold * count
        trips == above /\ start - now > TripTime(sum \div count)
    IN  /\ start_time' = start
        /\ total' = IF records THEN sum ELSE total
        /\ sample_count' = IF records THEN count ELSE sample_count
        /\ is_recording' = above
        /\ trip' = (trip \/ trips)
        /\ due' = (above /\ now - start > TripTime(sum \div count))

(* The slot after s, modulo read_items of the input. *)
Following(s) == (s + 1) % Entries

(* Mutant: a sample that is not recorded is not stepped over. *)
EvaluateStuck ==
    /\ si_pc = "eval"
    /\ Characteristic
    /\ IF is_recording' THEN old_index' = Following(old_index) /\ done' = done + 1
                        ELSE UNCHANGED <<old_index, done>>
    /\ si_pc' = "loop"
    /\ UNCHANGED <<subVars, sameEngine, levels, now, dispatched, cur, window, lapped>>

Evaluate ==
    /\ si_pc = "eval"
    /\ Characteristic
    /\ old_index' = Following(old_index)
    /\ done' = done + 1
    /\ si_pc' = "loop"
    /\ UNCHANGED <<subVars, sameEngine, levels, now, dispatched, cur, window, lapped>>

Event == CallEvent \/ CallEventNoUpdate \/ LeaveEvent \/ StartSample \/ ReadSample \/ Evaluate

Next == SampleMade \/ SampleLost \/ SubscriberTicks \/ SubscriberStores \/ SubscriberReturns \/ Tick \/ Event

Spec == Init /\ [][Next]_vars

(* An event() that was called runs on. *)
FairSpec == Spec /\ WF_vars(Event)

-----------------------------------------------------------------------------

(* "measured current for vector amount of samples": the RMS of the n-th    *)
(* sample is taken over that sample and the Vector - 1 before it, unless   *)
(* the ring has been overwritten under the reader.                         *)
WindowIsLastCycle ==
    si_pc = "eval" /\ done + 1 >= Vector /\ ~lapped =>
        \A i \in 1 .. Vector : window[i] = accepted[done + 2 - i]

(* In one engine SI works through every accepted sample exactly once, and  *)
(* is one sample behind: event() stops before the sample the index names.  *)
OneSampleBehind ==
    sameEngine /\ pc = "tick" /\ si_pc = "out" /\ accepted # <<>> => done = Len(accepted) - 1

(* event() returns: the walk through the ring meets the index it runs to.  *)
EventReturns == si_pc # "out" ~> si_pc = "out"

(* "check if the time that the average value is above the treshold value,  *)
(* is longer then the SI trip time": when it is, the module has tripped.   *)
TripsWhenDue == due => trip
=============================================================================
