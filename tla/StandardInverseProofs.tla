------------------------ MODULE StandardInverseProofs ------------------------
(***************************************************************************)
(* Proofs about the protection module behind the sampled-value subscriber, *)
(* for every ring that one byte can index, every window and every bound.   *)
(***************************************************************************)
EXTENDS StandardInverse, SubscriberProofs

-----------------------------------------------------------------------------
(* The invariant, on top of RingInv, OrderInv and StartsEmpty of the       *)
(* subscriber. *)

SiTyped ==
    /\ sameEngine \in BOOLEAN /\ dispatched \in BOOLEAN /\ lapped \in BOOLEAN
    /\ si_pc \in {"out", "loop", "read", "eval"}
    /\ done \in Nat
    /\ window \in Seq(0 .. MaxVersions)
    /\ si_pc = "read" => Len(window) < Vector
    /\ si_pc = "eval" => Len(window) = Vector

(* event() is at the sample after those it has done; the index it runs to  *)
(* is that of a sample finished, and never before the one it is at.        *)
Walk ==
    /\ old_index = SlotOf(done + 1)
    /\ done = 0 \/ done + 1 <= Finished
    /\ si_pc # "out" => \E c \in done + 1 .. Finished :
                            cur = SlotOf(c) /\ (si_pc # "loop" => c # done + 1)

(* In one engine: event() runs once in each callback, and between packets  *)
(* all samples but the newest are done.                                    *)
OneLeft == IF accepted = <<>> THEN done = 0 ELSE done = Len(accepted) - 1
TwoLeft == IF Len(accepted) = 1 THEN done = 0 ELSE done = Len(accepted) - 2

Lockstep ==
    /\ pc = "tick" => si_pc = "out" /\ ~dispatched /\ OneLeft
    /\ pc \in {"store", "index"} => si_pc = "out" /\ ~dispatched /\ TwoLeft
    /\ pc = "callback" /\ ~dispatched => si_pc = "out" /\ TwoLeft
    /\ pc = "callback" /\ dispatched =>
          /\ si_pc = "out" => OneLeft
          /\ si_pc = "loop" => (OneLeft \/ TwoLeft) /\ cur = SlotOf(Len(accepted))
          /\ si_pc \in {"read", "eval"} => TwoLeft /\ cur = SlotOf(Len(accepted))

(* The samples a window still needs are in the ring, unless it was lapped, *)
(* and the window holds those it has read.                                 *)
InRing == lapped \/ accepted = <<>> \/ Len(accepted) - done <= Entries + 1 - Vector

WindowSoFar ==
    si_pc \in {"read", "eval"} /\ done + 1 >= Vector /\ ~lapped =>
        \A i \in 1 .. Len(window) : window[i] = accepted[done + 2 - i]

(* What the characteristic is computed from. *)
Measured ==
    /\ levels \in Seq(Levels) /\ Len(levels) = remote.version
    /\ \A s \in Slot : \A w \in 1 .. Words : slots[s][w] <= remote.version
    /\ \A i \in 1 .. Len(window) : window[i] <= remote.version
    /\ is_recording \in BOOLEAN /\ {total, sample_count} \subseteq Nat
    /\ now \in Nat /\ start_time \in 0 .. now

SubInv == SubTypeOK /\ InStep /\ RingInv /\ OrderInv /\ StartsEmpty

-----------------------------------------------------------------------------
(* The subscriber, with si.c behind it, is the subscriber alone.           *)

LEMMA SiConstants ==
    /\ Kind = "SMV" /\ Deployments \subseteq BOOLEAN
    /\ SiItems \in 1 .. Entries /\ Vector \in Nat \ {0} /\ UintRange \in Nat \ {0}
    /\ Levels \subseteq Nat /\ Threshold \in Nat
  BY SiAssumption

LEMMA SubStep == ASSUME [Next]_vars PROVE [SubNext]_subVars
<1>1. SampleMade \/ SampleLost \/ SubscriberTicks \/ SubscriberStores \/ SubscriberReturns => SubNext
  BY DEF SampleMade, SampleLost, SubscriberTicks, SubscriberStores, SubscriberReturns,
         SubNext, Remote, Listener
<1>2. Tick \/ CallEvent \/ CallEventNoUpdate \/ LeaveEvent \/ StartSample => UNCHANGED subVars
  BY DEF Tick, CallEvent, CallEventNoUpdate, LeaveEvent, StartSample
<1>3. ReadSample \/ Evaluate => UNCHANGED subVars
  BY DEF ReadSample, Evaluate
<1>4. UNCHANGED vars => UNCHANGED subVars
  BY DEF vars
<1>. QED
  BY <1>1, <1>2, <1>3, <1>4 DEF Next, Event

LEMMA SubAlways == ASSUME Entries <= ByteRange PROVE Spec => []SubInv
<1>1. Init => SubInv
  <2>1. Init => SubInit
    BY DEF Init
  <2>. QED BY <2>1, TypeInit, RingInit, OrderInit, EmptyInit DEF SubInv
<1>2. SubInv /\ [Next]_vars => SubInv'
  <2>. SUFFICES ASSUME SubInv, [SubNext]_subVars PROVE SubInv'
    BY SubStep
  <2>1. SubTypeOK' /\ InStep'
    BY TypeStep DEF SubInv
  <2>2. RingInv' /\ OrderInv' /\ StartsEmpty'
    BY RingStep, OrderStep, EmptyStep DEF SubInv
  <2>. QED BY <2>1, <2>2 DEF SubInv
<1>. QED
  BY <1>1, <1>2, PTL DEF Spec

LEMMA HistoryTyped ==
  ASSUME SubInv
  PROVE  Len(accepted) \in Nat /\ Finished \in Nat /\ Finished <= Len(accepted)
<1>1. Len(accepted) \in Nat /\ (accepted # <<>> => Len(accepted) > 0) /\ (pc # "tick" => accepted # <<>>)
  BY DEF SubInv, SubTypeOK, RingInv, Handling
<1>. QED
  BY <1>1 DEF Finished

(* What a step of the subscriber leaves of its history.                    *)
LEMMA HistoryKept ==
  ASSUME SubInv, SubInv', [SubNext]_subVars
  PROVE  /\ Len(accepted) \in Nat /\ Finished \in Nat /\ Finished <= Len(accepted)
         /\ Len(accepted') \in Nat /\ Finished' \in Nat /\ Finished' <= Len(accepted')
         /\ Finished <= Finished' /\ Len(accepted) <= Len(accepted')
         /\ \A n \in 1 .. Len(accepted) : accepted'[n] = accepted[n]
         /\ ~TakePacket => accepted' = accepted
<1>1. /\ Len(accepted) \in Nat /\ Len(accepted') \in Nat
      /\ (accepted # <<>> => Len(accepted) > 0) /\ (accepted' # <<>> => Len(accepted') > 0)
  BY DEF SubInv, SubTypeOK
<1>2. /\ (pc # "tick" => accepted # <<>>) /\ (pc' # "tick" => accepted' # <<>>)
  BY DEF SubInv, RingInv, Handling
<1>3. /\ Finished \in Nat /\ Finished <= Len(accepted)
      /\ Finished' \in Nat /\ Finished' <= Len(accepted')
  BY <1>1, <1>2 DEF Finished
<1>4. CASE TakePacket
  <2>1. Head(wire) \in Packet /\ pc = "tick" /\ pc' = "store"
    BY <1>4 DEF TakePacket, SubInv, SubTypeOK
  <2>2. Head(wire).version \in 1 .. MaxVersions
    BY <2>1 DEF Packet
  <2>3. Len(accepted') = Len(accepted) + 1 /\ \A n \in 1 .. Len(accepted) : accepted'[n] = accepted[n]
    BY <1>4, <2>2 DEF TakePacket, SubInv, SubTypeOK
  <2>4. Finished' = Finished
    BY <1>1, <2>1, <2>3 DEF Finished
  <2>. QED BY <1>1, <1>3, <1>4, <2>3, <2>4
<1>5. CASE ~TakePacket
  <2>1. accepted' = accepted
    BY <1>5 DEF SubNext, Remote, Receive, Listener, RemoteChange, Retransmit, Lose, SkipPacket,
                StoreWord, PublishIndex, CallbackReturns, subVars
  <2>2. pc \notin {"store", "index"} => pc' \notin {"store", "index"}
    BY <1>5 DEF SubNext, Remote, Receive, Listener, RemoteChange, Retransmit, Lose, SkipPacket,
                StoreWord, PublishIndex, CallbackReturns, subVars
  <2>. QED BY <1>1, <1>3, <2>1, <2>2 DEF Finished
<1>. QED
  BY <1>4, <1>5

-----------------------------------------------------------------------------
(* Types, and where event() is. *)

LEMMA ReadSlotTyped ==
  ASSUME NEW i \in Nat, old_index \in Slot
  PROVE  ReadSlot(i) \in Slot
<1>1. old_index - i \in Int
  BY Constants DEF Slot
<1>2. (old_index - i) % UintRange \in Nat
  BY <1>1, SiConstants, SMT
<1>3. ReadSlot(i) \in 0 .. SiItems - 1
  BY <1>2, SiConstants, Constants, SMT DEF ReadSlot
<1>. QED
  BY <1>3, SiConstants, Constants DEF Slot

LEMMA WindowGrows ==
  ASSUME SubInv, SiTyped, Walk, ReadSample
  PROVE  /\ Len(window) \in 0 .. Vector - 1 /\ Len(window') = Len(window) + 1
         /\ window' \in Seq(0 .. MaxVersions)
         /\ window'[Len(window) + 1] = slots[ReadSlot(Len(window))][1]
         /\ \A i \in 1 .. Len(window) : window'[i] = window[i]
         /\ ReadSlot(Len(window)) \in Slot
<1>. DEFINE v == slots[ReadSlot(Len(window))][1]
<1>1. Len(window) \in 0 .. Vector - 1 /\ window \in Seq(0 .. MaxVersions) /\ window' = Append(window, v)
  BY SiConstants DEF SiTyped, ReadSample
<1>2. old_index \in Slot
  BY Slots DEF Walk, SiTyped
<1>3. ReadSlot(Len(window)) \in Slot
  BY <1>1, <1>2, ReadSlotTyped
<1>4. v \in 0 .. MaxVersions
  BY <1>3, Constants DEF SubInv, SubTypeOK
<1>. HIDE DEF v
<1>5. /\ Len(window') = Len(window) + 1 /\ window' \in Seq(0 .. MaxVersions)
      /\ window'[Len(window) + 1] = v /\ \A i \in 1 .. Len(window) : window'[i] = window[i]
  BY <1>1, <1>4
<1>. QED
  BY <1>1, <1>3, <1>5 DEF v

(* What the steps outside event() leave of it. *)
LEMMA OutsideEvent ==
  ASSUME [Next]_vars, ~Event
  PROVE  /\ UNCHANGED <<sameEngine, si_pc, old_index, cur, window, done, recordVars>>
         /\ dispatched' = dispatched \/ (SubscriberReturns /\ dispatched' = FALSE)
         /\ lapped' = lapped \/ (SubscriberTicks /\ lapped' = (lapped \/ Laps))
         /\ TakePacket => SubscriberTicks
<1>1. SampleMade \/ SampleLost \/ SubscriberStores \/ Tick \/ UNCHANGED vars =>
        UNCHANGED <<siVars, lapped>>
  BY DEF SampleMade, SampleLost, SubscriberStores, Tick, vars
<1>2. UNCHANGED siVars =>
        UNCHANGED <<sameEngine, si_pc, old_index, cur, window, done, recordVars>> /\ dispatched' = dispatched
  BY DEF siVars, recordVars
<1>3. SubscriberTicks => UNCHANGED siVars /\ lapped' = (lapped \/ Laps)
  BY DEF SubscriberTicks
<1>4. SubscriberReturns =>
        UNCHANGED <<sameEngine, si_pc, old_index, cur, window, done, recordVars, lapped>> /\ dispatched' = FALSE
  BY DEF SubscriberReturns
<1>5. TakePacket => SubscriberTicks
  <2>1. TakePacket => pc = "tick" /\ accepted' = Append(accepted, Head(wire).version) /\ pc' = "store"
    BY DEF TakePacket
  <2>2. SampleMade \/ SampleLost \/ Tick \/ UNCHANGED vars => pc' = pc
    BY DEF SampleMade, RemoteChange, SampleLost, Lose, Tick, subVars, vars
  <2>3. SubscriberStores \/ SubscriberReturns => pc # "tick"
    BY DEF SubscriberStores, SubscriberReturns, StoreWord, PublishIndex, CallbackReturns
  <2>. QED BY <2>1, <2>2, <2>3 DEF Next
<1>. QED
  BY <1>1, <1>2, <1>3, <1>4, <1>5 DEF Next

LEMMA TypedStep ==
  ASSUME SubInv, SiTyped, Walk, [Next]_vars
  PROVE  SiTyped'
<1>1. CASE ~Event
  <2>1. UNCHANGED <<sameEngine, si_pc, window, done>> /\ dispatched' \in BOOLEAN /\ lapped' \in BOOLEAN
    BY <1>1, OutsideEvent DEF SiTyped
  <2>. QED BY <2>1 DEF SiTyped
<1>2. CASE CallEvent \/ CallEventNoUpdate \/ LeaveEvent
  BY <1>2 DEF SiTyped, CallEvent, CallEventNoUpdate, LeaveEvent
<1>3. CASE StartSample
  BY <1>3, SiConstants DEF SiTyped, StartSample
<1>4. CASE ReadSample
  <2>1. Len(window) \in 0 .. Vector - 1 /\ Len(window') = Len(window) + 1 /\ window' \in Seq(0 .. MaxVersions)
    BY <1>4, WindowGrows
  <2>2. /\ si_pc' = IF Len(window') = Vector THEN "eval" ELSE "read"
        /\ UNCHANGED <<sameEngine, dispatched, done, lapped>>
    BY <1>4 DEF ReadSample
  <2>3. Len(window') # Vector => Len(window') < Vector
    BY <2>1, SiConstants
  <2>. QED BY <2>1, <2>2, <2>3 DEF SiTyped
<1>5. CASE Evaluate
  BY <1>5 DEF SiTyped, Evaluate
<1>. QED
  BY <1>1, <1>2, <1>3, <1>4, <1>5 DEF Event

-----------------------------------------------------------------------------
(* The walk through the ring. *)

LEMMA FollowingSlot == ASSUME NEW n \in Nat PROVE Following(SlotOf(n + 1)) = SlotOf(n + 2)
<1>1. n + 1 \in Nat /\ n + 1 > 0 /\ (n + 1) + 1 = n + 2
  OBVIOUS
<1>. QED
  BY <1>1, Advance DEF Following

LEMMA WalkInit == ASSUME Init PROVE SiTyped /\ Walk
<1>1. SlotOf(0 + 1) = 0
  BY ZeroSlot
<1>2. /\ sameEngine \in BOOLEAN /\ ~dispatched /\ ~lapped /\ si_pc = "out"
      /\ done = 0 /\ window = <<>> /\ old_index = 0
  BY SiConstants DEF Init, SubInit
<1>3. dispatched \in BOOLEAN /\ lapped \in BOOLEAN
  BY DEF Init
<1>. QED
  BY <1>1, <1>2, <1>3 DEF SiTyped, Walk

(* The index event() finds is ahead of it. *)
LEMMA IndexAhead ==
  ASSUME SubInv, SiTyped, Walk, old_index # index
  PROVE  done + 1 \in 1 .. Finished /\ index = SlotOf(Finished)
<1>1. Finished \in Nat /\ done \in Nat
  BY HistoryTyped DEF SiTyped
<1>2. Finished > 0
  <2>1. SUFFICES ASSUME Finished = 0 PROVE FALSE
    BY <1>1
  <2>2. done = 0 /\ old_index = SlotOf(0 + 1)
    BY <1>1, <2>1 DEF Walk
  <2>3. index = 0 /\ old_index = 0
    BY <2>1, <2>2, ZeroSlot DEF SubInv, StartsEmpty
  <2>. QED BY <2>3
<1>3. index = SlotOf(Finished)
  BY <1>2 DEF SubInv, RingInv, IndexNamesLast
<1>. QED
  BY <1>1, <1>2, <1>3 DEF Walk

LEMMA WalkStep ==
  ASSUME SubInv, SubInv', SiTyped, Walk, [Next]_vars
  PROVE  Walk'
<1>0. /\ Finished \in Nat /\ Finished' \in Nat /\ Finished <= Finished' /\ done \in Nat
  BY HistoryKept, SubStep DEF SiTyped
<1>1. CASE UNCHANGED <<si_pc, old_index, cur, done>>
  <2>1. ASSUME si_pc # "out"
        PROVE  \E c \in done + 1 .. Finished' : cur = SlotOf(c) /\ (si_pc # "loop" => c # done + 1)
    <3>1. PICK c \in done + 1 .. Finished : cur = SlotOf(c) /\ (si_pc # "loop" => c # done + 1)
      BY <2>1 DEF Walk
    <3>2. c \in done + 1 .. Finished'
      BY <1>0
    <3>. QED BY <3>1, <3>2
  <2>2. done = 0 \/ done + 1 <= Finished'
    BY <1>0 DEF Walk
  <2>. QED BY <1>1, <2>1, <2>2 DEF Walk, SlotOf
<1>2. CASE CallEvent
  <2>1. /\ old_index # index /\ cur' = index /\ si_pc' = "loop"
        /\ UNCHANGED <<old_index, done>> /\ Finished' = Finished
    BY <1>2 DEF CallEvent, subVars, Finished
  <2>2. done + 1 \in 1 .. Finished /\ cur' = SlotOf(Finished)
    BY <2>1, IndexAhead
  <2>3. Finished \in done + 1 .. Finished
    BY <1>0, <2>2
  <2>. QED BY <2>1, <2>2, <2>3 DEF Walk, SlotOf
<1>3. CASE LeaveEvent
  <2>1. si_pc' = "out" /\ UNCHANGED <<old_index, done>> /\ Finished' = Finished
    BY <1>3 DEF LeaveEvent, subVars, Finished
  <2>. QED BY <2>1 DEF Walk, SlotOf
<1>4. CASE StartSample
  <2>1. /\ si_pc = "loop" /\ old_index # cur /\ si_pc' = "read"
        /\ UNCHANGED <<old_index, cur, done>> /\ Finished' = Finished
    BY <1>4 DEF StartSample, subVars, Finished
  <2>2. PICK c \in done + 1 .. Finished : cur = SlotOf(c)
    BY <2>1 DEF Walk
  <2>3. c # done + 1
    BY <2>1, <2>2 DEF Walk
  <2>. QED BY <2>1, <2>2, <2>3 DEF Walk, SlotOf
<1>5. CASE ReadSample
  <2>1. /\ si_pc = "read" /\ si_pc' \in {"read", "eval"}
        /\ UNCHANGED <<old_index, cur, done>> /\ Finished' = Finished
    BY <1>5 DEF ReadSample, subVars, Finished
  <2>. QED BY <2>1 DEF Walk, SlotOf
<1>6. CASE Evaluate
  <2>1. /\ si_pc = "eval" /\ si_pc' = "loop" /\ old_index' = Following(old_index) /\ done' = done + 1
        /\ cur' = cur /\ Finished' = Finished
    BY <1>6 DEF Evaluate, subVars, Finished
  <2>2. PICK c \in done + 1 .. Finished : cur = SlotOf(c) /\ c # done + 1
    BY <2>1 DEF Walk
  <2>3. c \in done' + 1 .. Finished /\ done' + 1 <= Finished
    BY <1>0, <2>1, <2>2
  <2>4. old_index' = SlotOf(done' + 1)
    <3>1. done' + 1 = done + 2
      BY <1>0, <2>1
    <3>. QED BY <1>0, <2>1, <3>1, FollowingSlot DEF Walk
  <2>. QED BY <2>1, <2>2, <2>3, <2>4 DEF Walk, SlotOf
<1>7. ~Event \/ CallEventNoUpdate => UNCHANGED <<si_pc, old_index, cur, done>>
  BY OutsideEvent DEF CallEventNoUpdate
<1>. QED
  BY <1>1, <1>2, <1>3, <1>4, <1>5, <1>6, <1>7 DEF Event

LEMMA WalkAlways == ASSUME Entries <= ByteRange PROVE Spec => [](SiTyped /\ Walk)
<1>1. SubInv /\ SiTyped /\ Walk /\ SubInv' /\ [Next]_vars => SiTyped' /\ Walk'
  BY TypedStep, WalkStep
<1>. QED
  BY WalkInit, SubAlways, <1>1, PTL DEF Spec

-----------------------------------------------------------------------------
(* The window. *)

(* A ring of max_items slots addressed with unsigned numbers.              *)
Divides == SiItems = Entries /\ UintRange % Entries = 0

(* Counting back from a slot, also through 0 and 2^32, ends at the slot of *)
(* the packet so many before.                                              *)
LEMMA CountingBack ==
  ASSUME Divides, NEW n \in Nat \ {0}, NEW j \in Nat, j < n, old_index = SlotOf(n)
  PROVE  ReadSlot(j) = SlotOf(n - j)
<1>. DEFINE q == (n - 1) \div Entries
            r == (n - 1) % Entries
            u == UintRange \div Entries
            k == (r - j) \div UintRange
            x == (r - j) % UintRange
            q2 == (n - j - 1) \div Entries
            r2 == (n - j - 1) % Entries
            q3 == x \div Entries
            r3 == x % Entries
<1>0. Entries \in Nat \ {0} /\ UintRange \in Nat \ {0} /\ n - 1 \in Int /\ n - j - 1 \in Int
  BY Constants, SiConstants
<1>1. r \in 0 .. Entries - 1 /\ q \in Int /\ n - 1 = Entries * q + r
  BY <1>0, SlotAndLapBack
<1>2. u \in Int /\ UintRange = Entries * u + (UintRange % Entries)
  BY <1>0, SlotAndLapBack
<1>3. UintRange = Entries * u
  BY <1>0, <1>2 DEF Divides
<1>4. r - j \in Int
  BY <1>1
<1>5. x \in 0 .. UintRange - 1 /\ k \in Int /\ r - j = UintRange * k + x
  BY <1>0, <1>4, SlotAndLapBack
<1>6. r2 \in 0 .. Entries - 1 /\ q2 \in Int /\ n - j - 1 = Entries * q2 + r2
  BY <1>0, SlotAndLapBack
<1>7. x \in Int
  BY <1>5
<1>8. r3 \in 0 .. Entries - 1 /\ q3 \in Int /\ x = Entries * q3 + r3
  BY <1>0, <1>7, SlotAndLapBack
<1>9. ReadSlot(j) = r3 /\ SlotOf(n - j) = r2
  BY DEF ReadSlot, SlotOf, Divides
<1>. HIDE DEF q, r, u, k, x, q2, r2, q3, r3
<1>10. UintRange * k = Entries * (u * k) /\ u * k \in Int
  BY <1>0, <1>2, <1>3, <1>5, SMT
<1>11. Entries * q \in Int /\ Entries * q2 \in Int /\ Entries * (u * k) \in Int
  BY <1>0, <1>1, <1>6, <1>10
<1>. DEFINE a == Entries * q
            b == Entries * q2
            c == Entries * (u * k)
<1>12. Entries * (q2 - q - u * k) = Entries * q2 - Entries * q - Entries * (u * k)
  BY <1>0, <1>1, <1>6, <1>10, SMT
<1>13. Entries * q3 + r3 = Entries * (q2 - q - u * k) + r2 /\ q2 - q - u * k \in Int
  <2>1. r - j = c + x /\ n - 1 = a + r /\ n - j - 1 = b + r2 /\ {a, b, c} \subseteq Int
    BY <1>1, <1>5, <1>6, <1>10, <1>11
  <2>2. Entries * (q2 - q - u * k) = b - a - c
    BY <1>12
  <2>. HIDE DEF a, b, c
  <2>3. x = b - a - c + r2
    BY <1>1, <1>5, <1>6, <2>1
  <2>. QED BY <1>1, <1>6, <1>8, <1>10, <2>2, <2>3
<1>14. r3 = r2
  BY ONLY <1>0, <1>6, <1>8, <1>13, UniqueSlot
<1>. QED
  BY <1>9, <1>14

LEMMA InRingStep ==
  ASSUME SubInv, SubInv', SiTyped, InRing, [Next]_vars
  PROVE  InRing'
<1>1. /\ Len(accepted) \in Nat /\ Len(accepted') \in Nat /\ done \in Nat
      /\ ~TakePacket => accepted' = accepted
  BY HistoryKept, SubStep DEF SiTyped
<1>2. CASE TakePacket
  <2>1. SubscriberTicks /\ pc = "tick"
    BY <1>2, OutsideEvent DEF TakePacket, Event, CallEvent, CallEventNoUpdate, LeaveEvent, StartSample,
                              ReadSample, Evaluate, subVars
  <2>2. lapped' = (lapped \/ Laps) /\ done' = done
    BY <2>1 DEF SubscriberTicks, siVars
  <2>3. CASE Laps
    BY <2>2, <2>3 DEF InRing
  <2>4. CASE ~Laps
    <3>1. Len(accepted') - done' <= Entries + 1 - Vector
      BY <1>1, <2>2, <2>4, SiConstants, Constants DEF Laps
    <3>. QED BY <3>1 DEF InRing
  <2>. QED BY <2>3, <2>4
<1>3. CASE ~TakePacket
  <2>1. done' \in {done, done + 1}
    BY OutsideEvent DEF Event, CallEvent, CallEventNoUpdate, LeaveEvent, StartSample, ReadSample, Evaluate
  <2>2. lapped => lapped'
    BY OutsideEvent DEF Event, CallEvent, CallEventNoUpdate, LeaveEvent, StartSample, ReadSample, Evaluate
  <2>. QED BY <1>1, <1>3, <2>1, <2>2, SiConstants, Constants DEF InRing
<1>. QED
  BY <1>2, <1>3

LEMMA WindowStep ==
  ASSUME Divides, SubInv, SubInv', SiTyped, Walk, InRing, WindowSoFar, [Next]_vars
  PROVE  WindowSoFar'
<1>0. /\ Len(accepted) \in Nat /\ Finished \in Nat /\ Finished <= Len(accepted) /\ done \in Nat
      /\ \A n \in 1 .. Len(accepted) : accepted'[n] = accepted[n]
      /\ Len(window) \in Nat
  BY HistoryKept, SubStep DEF SiTyped
<1>1. si_pc \in {"read", "eval"} => done + 1 < Finished /\ Len(window) <= Vector
  BY <1>0, SiConstants DEF Walk, SiTyped
<1>2. CASE ~Event \/ CallEventNoUpdate
  <2>1. UNCHANGED <<si_pc, window, done>>
    BY <1>2, OutsideEvent DEF CallEventNoUpdate
  <2>2. lapped => lapped'
    BY <1>2, OutsideEvent DEF CallEventNoUpdate
  <2>3. ASSUME si_pc \in {"read", "eval"}, done + 1 >= Vector, NEW i \in 1 .. Len(window)
        PROVE  accepted'[done + 2 - i] = accepted[done + 2 - i]
    <3>1. done + 2 - i \in 1 .. Len(accepted)
      BY <1>0, <1>1, <2>3, SiConstants
    <3>. QED BY <1>0, <3>1
  <2>. QED BY <2>1, <2>3, <2>2 DEF WindowSoFar
<1>3. CASE ReadSample
  <2>. DEFINE j == Len(window)
  <2>1. /\ j \in 0 .. Vector - 1 /\ Len(window') = j + 1
        /\ window'[j + 1] = slots[ReadSlot(j)][1]
        /\ \A i \in 1 .. j : window'[i] = window[i]
    BY <1>3, WindowGrows
  <2>2. si_pc = "read" /\ UNCHANGED <<subVars, old_index, done, lapped>>
    BY <1>3 DEF ReadSample
  <2>3. UNCHANGED <<accepted, slots>>
    BY <2>2 DEF subVars
  <2>4. ASSUME done + 1 >= Vector, ~lapped PROVE slots[ReadSlot(j)][1] = accepted[done + 1 - j]
    <3>1. done + 1 - j \in 1 .. Finished /\ done + 1 \in Nat \ {0} /\ j \in Nat /\ j < done + 1
      BY <1>0, <1>1, <2>1, <2>2, <2>4, SiConstants
    <3>2. (done + 1 - j) + Entries > Len(accepted)
      <4>1. accepted # <<>>
        BY <1>0, <3>1
      <4>2. Len(accepted) - done <= Entries + 1 - Vector
        BY <2>4, <4>1 DEF InRing
      <4>. QED BY <1>0, <2>1, <4>2, SiConstants, Constants
    <3>3. ReadSlot(j) = SlotOf(done + 1 - j)
      <4>1. old_index = SlotOf(done + 1)
        BY DEF Walk
      <4>. DEFINE n == done + 1
      <4>2. n \in Nat \ {0} /\ j \in Nat /\ j < n /\ old_index = SlotOf(n)
        BY <3>1, <4>1
      <4>. HIDE DEF j, n
      <4>3. ReadSlot(j) = SlotOf(n - j)
        BY ONLY <4>2, Divides, CountingBack
      <4>4. n - j = done + 1 - j
        BY <1>0, <2>1, <4>2 DEF n
      <4>. QED BY <4>3, <4>4
    <3>4. Whole(SlotOf(done + 1 - j), accepted[done + 1 - j])
      BY <3>1, <3>2 DEF SubInv, RingInv, RingKeepsLatest
    <3>. QED BY <3>3, <3>4, Constants DEF Whole
  <2>. HIDE DEF j
  <2>5. ASSUME done + 1 >= Vector, ~lapped, NEW i \in 1 .. Len(window')
        PROVE  window'[i] = accepted[done + 2 - i]
    <3>1. CASE i = j + 1
      <4>1. done + 2 - i = done + 1 - j
        BY <1>0, <2>1, <3>1
      <4>. QED BY <2>1, <2>4, <2>5, <3>1, <4>1
    <3>2. CASE i # j + 1
      <4>1. i \in 1 .. j
        BY <2>1, <3>2
      <4>. QED BY <2>1, <2>2, <2>5, <4>1 DEF WindowSoFar, j
    <3>. QED BY <3>1, <3>2
  <2>. QED BY <2>2, <2>3, <2>5 DEF WindowSoFar
<1>4. CASE CallEvent \/ LeaveEvent \/ Evaluate
  BY <1>4 DEF CallEvent, LeaveEvent, Evaluate, WindowSoFar
<1>5. CASE StartSample
  BY <1>5 DEF StartSample, WindowSoFar
<1>. QED
  BY <1>2, <1>3, <1>4, <1>5 DEF Event

(* The RMS of a sample is taken over that sample and the Vector - 1 before *)
(* it, however event() and the listener interleave, wherever the ring and  *)
(* the unsigned index wrap, as long as the ring is not overwritten under   *)
(* the reader; for a ring of the length si.c takes it for, and a length    *)
(* that divides 2^32.                                                      *)
THEOREM WindowsAreCycles ==
  ASSUME Entries <= ByteRange, Divides
  PROVE  Spec => []WindowIsLastCycle
<1>1. Init => InRing /\ WindowSoFar
  BY DEF Init, SubInit, InRing, WindowSoFar
<1>2. /\ SubInv /\ SubInv' /\ SiTyped /\ Walk /\ InRing /\ WindowSoFar /\ [Next]_vars
      => InRing' /\ WindowSoFar'
  BY InRingStep, WindowStep
<1>3. SiTyped /\ WindowSoFar => WindowIsLastCycle
  BY DEF SiTyped, WindowSoFar, WindowIsLastCycle
<1>. QED
  BY SubAlways, WalkAlways, <1>1, <1>2, <1>3, PTL DEF Spec

-----------------------------------------------------------------------------
(* Both modules in one engine. *)

(* The sample the index names, and the one before it, in a ring of two or  *)
(* more slots. *)
LEMMA NewestSlot ==
  ASSUME 1 < Entries, SubInv, SiTyped, Walk, accepted # <<>>
  PROVE  /\ OneLeft => old_index = SlotOf(Len(accepted))
         /\ TwoLeft /\ ~OneLeft => old_index # SlotOf(Len(accepted))
<1>1. Len(accepted) \in Nat \ {0} /\ done \in Nat /\ old_index = SlotOf(done + 1)
  BY DEF SubInv, SubTypeOK, SiTyped, Walk
<1>2. ASSUME OneLeft PROVE old_index = SlotOf(Len(accepted))
  <2>1. done + 1 = Len(accepted)
    BY <1>1, <1>2 DEF OneLeft
  <2>. QED BY <1>1, <2>1
<1>3. ASSUME TwoLeft, ~OneLeft PROVE old_index # SlotOf(Len(accepted))
  <2>1. done + 2 = Len(accepted)
    BY <1>1, <1>3 DEF OneLeft, TwoLeft
  <2>. DEFINE n == done + 1
              k == Len(accepted)
  <2>2. n \in Nat \ {0} /\ k \in Nat /\ n < k /\ k < n + Entries
    BY <1>1, <2>1, Constants
  <2>. HIDE DEF n, k
  <2>3. SlotOf(n) # SlotOf(k)
    BY <2>2, Distinct
  <2>. QED BY <1>1, <2>3 DEF n, k
<1>. QED
  BY <1>2, <1>3

(* Between packets, and while a packet is stored, the index names the last *)
(* one finished.                                                           *)
LEMMA TickFindsNothing ==
  ASSUME 1 < Entries, SubInv, SiTyped, Walk, Lockstep, pc = "tick"
  PROVE  old_index = index
<1>1. Finished = Len(accepted) /\ OneLeft
  BY DEF Finished, Lockstep
<1>2. CASE accepted = <<>>
  <2>1. done = 0 /\ Finished = 0
    BY <1>1, <1>2 DEF OneLeft
  <2>. QED BY <2>1, ZeroSlot DEF Walk, SubInv, StartsEmpty
<1>3. CASE accepted # <<>>
  <2>1. Finished > 0
    BY <1>1, <1>3 DEF SubInv, SubTypeOK
  <2>. QED BY <1>1, <1>3, <2>1, NewestSlot DEF SubInv, RingInv, IndexNamesLast
<1>. QED
  BY <1>2, <1>3

LEMMA LockstepKept ==
  ASSUME Lockstep, UNCHANGED <<pc, accepted, dispatched, si_pc, cur, done>>
  PROVE  Lockstep'
<1>1. OneLeft' = OneLeft /\ TwoLeft' = TwoLeft /\ SlotOf(Len(accepted))' = SlotOf(Len(accepted))
  BY DEF OneLeft, TwoLeft, SlotOf
<1>. QED
  BY <1>1 DEF Lockstep

LEMMA LockstepListens ==
  ASSUME SubInv, SubInv', SiTyped, Lockstep, sameEngine,
         SubscriberTicks \/ SubscriberStores \/ SubscriberReturns
  PROVE  Lockstep'
<1>1. CASE SubscriberTicks
  <2>1. UNCHANGED <<dispatched, si_pc, cur, done>> /\ si_pc = "out" /\ pc = "tick"
    BY <1>1 DEF SubscriberTicks, siVars, Receive, SkipPacket, TakePacket
  <2>2. CASE SkipPacket
    BY <2>1, <2>2, LockstepKept DEF SkipPacket
  <2>3. CASE TakePacket
    <3>1. pc' = "store" /\ ~dispatched' /\ OneLeft
      BY <2>1, <2>3 DEF TakePacket, Lockstep
    <3>2. Len(accepted) \in Nat /\ Len(accepted') = Len(accepted) + 1 /\ (accepted # <<>> => Len(accepted) > 0)
      <4>1. Head(wire) \in Packet
        BY <2>3 DEF TakePacket, SubInv, SubTypeOK
      <4>2. Head(wire).version \in 1 .. MaxVersions
        BY <4>1 DEF Packet
      <4>. QED BY <2>3, <4>2 DEF TakePacket, SubInv, SubTypeOK
    <3>3. TwoLeft'
      BY <2>1, <3>1, <3>2 DEF OneLeft, TwoLeft
    <3>. QED BY <2>1, <3>1, <3>3 DEF Lockstep
  <2>. QED BY <1>1, <2>2, <2>3 DEF SubscriberTicks, Receive
<1>2. CASE SubscriberStores
  <2>1. /\ UNCHANGED <<accepted, dispatched, si_pc, cur, done>>
        /\ pc \in {"store", "index"} /\ pc' \in {"store", "index", "callback"}
    BY <1>2 DEF SubscriberStores, siVars, StoreWord, PublishIndex
  <2>2. si_pc = "out" /\ ~dispatched /\ TwoLeft
    BY <2>1 DEF Lockstep
  <2>3. TwoLeft' /\ ~dispatched'
    BY <2>1, <2>2 DEF TwoLeft
  <2>. QED BY <2>1, <2>2, <2>3 DEF Lockstep
<1>3. CASE SubscriberReturns
  <2>1. /\ UNCHANGED <<accepted, si_pc, cur, done>> /\ ~dispatched' /\ si_pc = "out"
        /\ pc = "callback" /\ pc' = "tick"
    BY <1>3 DEF SubscriberReturns, CallbackReturns
  <2>2. dispatched
    BY <1>3 DEF SubscriberReturns
  <2>3. OneLeft'
    BY <2>1, <2>2 DEF Lockstep, OneLeft
  <2>. QED BY <2>1, <2>3 DEF Lockstep
<1>. QED
  BY <1>1, <1>2, <1>3

LEMMA LockstepEvent ==
  ASSUME 1 < Entries, SubInv, SubInv', SiTyped, Walk, Lockstep, sameEngine, ~trip, Event
  PROVE  Lockstep'
<1>0. /\ UNCHANGED <<pc, accepted>> /\ Len(accepted) \in Nat /\ done \in Nat
      /\ (pc # "tick" => accepted # <<>>) /\ (accepted # <<>> => Len(accepted) > 0)
  <2>1. UNCHANGED subVars
    BY DEF Event, CallEvent, CallEventNoUpdate, LeaveEvent, StartSample, ReadSample, Evaluate
  <2>. QED BY <2>1 DEF subVars, SubInv, SubTypeOK, SiTyped, RingInv, Handling
<1>1. SlotOf(Len(accepted))' = SlotOf(Len(accepted))
  BY <1>0 DEF SlotOf
<1>2. CASE CallEvent
  <2>1. old_index # index /\ si_pc' = "loop" /\ done' = done /\ pc \in {"tick", "callback"} /\ cur' = index
    BY <1>2 DEF CallEvent
  <2>2. pc = "callback" /\ ~dispatched
    BY <1>2, <2>1, TickFindsNothing DEF CallEvent
  <2>3. dispatched' = TRUE
    BY <1>2, <2>2 DEF CallEvent
  <2>4. Finished = Len(accepted) /\ Finished > 0
    BY <1>0, <2>2 DEF Finished
  <2>5. cur' = SlotOf(Len(accepted)) /\ TwoLeft
    BY <2>1, <2>2, <2>4 DEF SubInv, RingInv, IndexNamesLast, Lockstep
  <2>6. TwoLeft'
    BY <1>0, <2>1, <2>5 DEF TwoLeft
  <2>. QED BY <1>0, <1>1, <2>1, <2>2, <2>3, <2>5, <2>6 DEF Lockstep
<1>3. CASE CallEventNoUpdate
  <2>1. /\ pc = "callback" /\ old_index = index /\ si_pc = "out" /\ si_pc' = "out" /\ done' = done /\ ~dispatched
        /\ dispatched' = TRUE
    BY <1>3 DEF CallEventNoUpdate
  <2>2. Finished = Len(accepted) /\ Finished > 0
    BY <1>0, <2>1 DEF Finished
  <2>3. old_index = SlotOf(Len(accepted)) /\ TwoLeft
    BY <2>1, <2>2 DEF SubInv, RingInv, IndexNamesLast, Lockstep
  <2>4. OneLeft
    BY <1>0, <2>1, <2>3, NewestSlot
  <2>5. OneLeft'
    BY <1>0, <2>1, <2>4 DEF OneLeft
  <2>. QED BY <1>0, <2>1, <2>5 DEF Lockstep
<1>4. ASSUME si_pc # "out" PROVE pc = "callback" /\ dispatched /\ cur = SlotOf(Len(accepted))
  <2>1. pc = "callback"
    BY <1>4 DEF Lockstep, SubInv, SubTypeOK
  <2>2. dispatched
    BY <1>4, <2>1 DEF Lockstep
  <2>. QED BY <1>4, <2>1, <2>2 DEF Lockstep, SiTyped
<1>5. CASE LeaveEvent
  <2>1. si_pc = "loop" /\ si_pc' = "out" /\ old_index = cur /\ UNCHANGED <<done, dispatched>>
    BY <1>5 DEF LeaveEvent
  <2>2. OneLeft
    <3>1. OneLeft \/ TwoLeft
      BY <1>4, <2>1 DEF Lockstep
    <3>. QED BY <1>0, <1>4, <2>1, <3>1, NewestSlot
  <2>3. OneLeft'
    BY <1>0, <2>1, <2>2 DEF OneLeft
  <2>. QED BY <1>0, <1>4, <2>1, <2>3 DEF Lockstep
<1>6. CASE StartSample
  <2>1. si_pc = "loop" /\ si_pc' = "read" /\ old_index # cur /\ UNCHANGED <<done, dispatched, cur>>
    BY <1>6 DEF StartSample
  <2>2. TwoLeft
    <3>1. OneLeft \/ TwoLeft
      BY <1>4, <2>1 DEF Lockstep
    <3>. QED BY <1>0, <1>4, <2>1, <3>1, NewestSlot
  <2>3. TwoLeft'
    BY <1>0, <2>1, <2>2 DEF TwoLeft
  <2>. QED BY <1>0, <1>1, <1>4, <2>1, <2>3 DEF Lockstep
<1>7. CASE ReadSample
  <2>1. si_pc = "read" /\ si_pc' \in {"read", "eval"} /\ UNCHANGED <<done, dispatched, cur>>
    BY <1>7 DEF ReadSample
  <2>2. TwoLeft
    BY <1>4, <2>1 DEF Lockstep
  <2>3. TwoLeft'
    BY <1>0, <2>1, <2>2 DEF TwoLeft
  <2>. QED BY <1>0, <1>1, <1>4, <2>1, <2>3 DEF Lockstep
<1>8. CASE Evaluate
  <2>1. si_pc = "eval" /\ si_pc' = "loop" /\ done' = done + 1 /\ UNCHANGED <<dispatched, cur>>
    BY <1>8 DEF Evaluate
  <2>2. TwoLeft
    BY <1>4, <2>1 DEF Lockstep
  <2>3. Len(accepted) >= done + 2
    <3>1. Finished \in Nat /\ Finished <= Len(accepted)
      BY HistoryTyped
    <3>2. PICK c \in done + 1 .. Finished : c # done + 1
      BY <2>1 DEF Walk
    <3>. QED BY <1>0, <3>1, <3>2
  <2>4. OneLeft'
    BY <1>0, <2>1, <2>2, <2>3 DEF OneLeft, TwoLeft
  <2>. QED BY <1>0, <1>1, <1>4, <2>1, <2>4 DEF Lockstep
<1>. QED
  BY <1>2, <1>3, <1>5, <1>6, <1>7, <1>8 DEF Event

-----------------------------------------------------------------------------
(* The characteristic. *)

LEMMA Element == ASSUME NEW S, NEW s \in Seq(S), NEW i \in 1 .. Len(s) PROVE s[i] \in S
  OBVIOUS

LEMMA CurrentTyped ==
  ASSUME SubInv, SiTyped, Measured, NEW i \in 1 .. Len(window)
  PROVE  Current(window[i]) \in Nat
<1>1. window[i] \in 0 .. MaxVersions /\ window[i] <= Len(levels)
  <2>1. window \in Seq(0 .. MaxVersions)
    BY DEF SiTyped
  <2>2. window[i] \in 0 .. MaxVersions
    BY <2>1, Element
  <2>3. window[i] <= remote.version /\ Len(levels) = remote.version
    BY DEF Measured
  <2>. QED BY <2>2, <2>3
<1>2. window[i] # 0 => levels[window[i]] \in Nat
  <2>1. MaxVersions \in Nat /\ Len(levels) \in Nat
    BY SubscriberAssumption DEF Measured
  <2>2. window[i] # 0 => window[i] \in 1 .. Len(levels)
    BY <1>1, <2>1
  <2>3. \A v \in 1 .. Len(levels) : levels[v] \in Nat
    <3>1. levels \in Seq(Levels)
      BY DEF Measured
    <3>. QED BY <3>1, Element, SiConstants
  <2>. QED BY <2>2, <2>3
<1>. QED
  BY <1>1, <1>2 DEF Current

(* The RMS is a natural number: the sum of the squares is defined, and has *)
(* a root.                                                                 *)
LEMMA RmsTyped ==
  ASSUME SubInv, SiTyped, Measured
  PROVE  Rms \in Nat
<1>. DEFINE n == Len(window)
            square(i) == Current(window[i]) * Current(window[i])
            S == CHOOSE s : s = [i \in 0 .. Len(window) |->
                                   IF i = 0 THEN 0 ELSE s[i - 1] + Current(window[i]) * Current(window[i])]
            c == [i \in 1 .. n |-> square(i)]
<1>1. n \in Nat
  BY DEF SiTyped
<1>2. SumOfSquares = S[Len(window)]
  BY DEF SumOfSquares
<1>3. \A i \in 1 .. n : square(i) \in Nat
  BY CurrentTyped
<1>4. c \in [1 .. n -> Nat]
  BY <1>3
<1>5. PICK g \in [0 .. n -> Nat] : g = [i \in 0 .. n |-> IF i = 0 THEN 0 ELSE g[i - 1] + square(i)]
  <2>1. PICK g \in [0 .. n -> Nat] : g = [i \in 0 .. n |-> IF i = 0 THEN 0 ELSE g[i - 1] + c[i]]
    <3>. HIDE DEF n, c
    <3>. QED BY <1>1, <1>4, SumExists
  <2>2. \A i \in 0 .. n : i # 0 => c[i] = square(i)
    BY <1>1
  <2>. HIDE DEF c, square, n
  <2>3. g = [i \in 0 .. n |-> IF i = 0 THEN 0 ELSE g[i - 1] + square(i)]
    BY <2>1, <2>2
  <2>. QED BY <2>3
<1>6. S = [i \in 0 .. n |-> IF i = 0 THEN 0 ELSE S[i - 1] + square(i)]
  BY <1>5
<1>. HIDE DEF S, square
<1>7. S[n] \in Nat
  <2>. DEFINE T == {i \in Nat : i <= n => S[i] \in Nat}
  <2>1. T \subseteq Nat /\ 0 \in T
    BY <1>1, <1>6
  <2>2. ASSUME NEW i \in T PROVE i + 1 \in T
    <3>1. i \in Nat /\ (i + 1) - 1 = i
      OBVIOUS
    <3>2. ASSUME i + 1 <= n PROVE S[i + 1] \in Nat
      <4>1. i + 1 \in 1 .. n /\ i + 1 \in 0 .. n /\ i <= n
        BY <1>1, <3>1, <3>2
      <4>2. S[i] \in Nat /\ square(i + 1) \in Nat
        BY <1>3, <4>1
      <4>. HIDE DEF n
      <4>3. S[i + 1] = IF i + 1 = 0 THEN 0 ELSE S[(i + 1) - 1] + square(i + 1)
        BY <1>6, <4>1
      <4>. QED BY <3>1, <4>2, <4>3
    <3>. QED BY <3>1, <3>2
  <2>. HIDE DEF T
  <2>3. T = Nat
    BY <2>1, <2>2, Induction
  <2>. QED BY <1>1, <2>3 DEF T
<1>. DEFINE mean == SumOfSquares \div Vector
<1>8. mean \in Nat
  <2>1. SumOfSquares \in Nat
    BY <1>2, <1>7
  <2>. QED BY <2>1, SiConstants
<1>9. Rms = CHOOSE r \in 0 .. mean : r * r <= mean /\ (r + 1) * (r + 1) > mean
  BY DEF Rms
<1>. HIDE DEF mean
<1>10. Rms \in 0 .. mean
  BY <1>8, <1>9, RootExists
<1>. QED
  BY <1>8, <1>10

LEMMA LevelsStep ==
  ASSUME SubInv, Measured, [Next]_vars
  PROVE  /\ levels' \in Seq(Levels) /\ Len(levels') = remote'.version
         /\ remote.version <= remote'.version
<1>1. remote.version \in Nat /\ levels \in Seq(Levels) /\ Len(levels) = remote.version
  BY DEF SubInv, SubTypeOK, Measured
<1>2. CASE SampleMade
  <2>1. PICK l \in Levels : levels' = Append(levels, l)
    BY <1>2 DEF SampleMade
  <2>2. levels' \in Seq(Levels) /\ Len(levels') = Len(levels) + 1
    BY <1>1, <2>1
  <2>3. remote'.version = remote.version + 1
    BY <1>2 DEF SampleMade, RemoteChange
  <2>. QED BY <1>1, <2>2, <2>3
<1>3. CASE UNCHANGED <<levels, remote>>
  BY <1>1, <1>3
<1>4. SampleLost \/ SubscriberTicks \/ SubscriberStores \/ SubscriberReturns => UNCHANGED <<levels, remote>>
  BY DEF SampleLost, Lose, SubscriberTicks, Receive, SkipPacket, TakePacket, SubscriberStores, StoreWord,
         PublishIndex, SubscriberReturns, CallbackReturns, remoteVars
<1>5. Tick \/ Event \/ UNCHANGED vars => UNCHANGED <<levels, remote>>
  BY DEF Tick, Event, CallEvent, CallEventNoUpdate, LeaveEvent, StartSample, ReadSample, Evaluate, subVars, vars
<1>. QED
  BY <1>2, <1>3, <1>4, <1>5 DEF Next

(* No slot holds a version that was not made yet. *)
LEMMA SlotsStep ==
  ASSUME SubInv, Measured, [SubNext]_subVars, remote.version <= remote'.version, remote'.version \in Nat
  PROVE  \A s \in Slot : \A w \in 1 .. Words : slots'[s][w] <= remote'.version
<1>. SUFFICES ASSUME NEW s \in Slot, NEW w \in 1 .. Words PROVE slots'[s][w] <= remote'.version
  OBVIOUS
<1>1. /\ slots \in [Slot -> [1 .. Words -> 0 .. MaxVersions]] /\ remote.version \in Nat /\ MaxVersions \in Nat
      /\ slots[s][w] <= remote.version
  BY SubscriberAssumption DEF SubInv, SubTypeOK, Measured
<1>2. slots[s][w] \in Nat /\ slots[s][w] <= remote'.version
  <2>1. slots[s][w] \in 0 .. MaxVersions
    BY <1>1
  <2>. QED BY <1>1, <2>1
<1>3. CASE slots' = slots
  BY <1>2, <1>3
<1>4. CASE StoreWord
  <2>1. slots' = [slots EXCEPT ![buffer_index][word] = packet] /\ pc = "store"
    BY <1>4 DEF StoreWord
  <2>2. packet = LastAccepted
    BY <2>1 DEF SubInv, RingInv, Handling, LastAccepted
  <2>3. packet \in Nat /\ packet <= remote.version
    BY <1>1, <2>2, LastTyped DEF SubInv, OrderInv
  <2>4. slots'[s][w] = slots[s][w] \/ slots'[s][w] = packet
    BY <1>1, <2>1
  <2>. QED BY <1>1, <1>2, <2>3, <2>4
<1>5. ~StoreWord => slots' = slots
  BY DEF SubNext, Remote, Receive, Listener, RemoteChange, Retransmit, Lose, SkipPacket, TakePacket,
         PublishIndex, CallbackReturns, ringVars, subVars
<1>. QED
  BY <1>3, <1>4, <1>5

LEMMA WindowMade ==
  ASSUME SubInv, SiTyped, Walk, Measured, [Next]_vars, remote.version <= remote'.version, remote'.version \in Nat
  PROVE  \A i \in 1 .. Len(window') : window'[i] <= remote'.version
<1>1. /\ remote.version \in Nat /\ MaxVersions \in Nat
      /\ slots \in [Slot -> [1 .. Words -> 0 .. MaxVersions]] /\ window \in Seq(0 .. MaxVersions)
  BY SubscriberAssumption DEF SubInv, SubTypeOK, SiTyped
<1>2. ASSUME NEW i \in 1 .. Len(window) PROVE window[i] <= remote'.version
  <2>1. window[i] \in 0 .. MaxVersions
    BY <1>1, Element
  <2>2. window[i] <= remote.version
    BY DEF Measured
  <2>. QED BY <1>1, <2>1, <2>2
<1>3. CASE window' = window
  BY <1>2, <1>3
<1>4. CASE StartSample
  BY <1>4 DEF StartSample
<1>5. CASE ReadSample
  <2>. DEFINE v == slots[ReadSlot(Len(window))][1]
  <2>1. /\ Len(window) \in Nat /\ Len(window') = Len(window) + 1 /\ ReadSlot(Len(window)) \in Slot
        /\ window'[Len(window) + 1] = v
        /\ \A i \in 1 .. Len(window) : window'[i] = window[i]
    BY <1>5, WindowGrows
  <2>2. v \in 0 .. MaxVersions /\ v <= remote.version
    BY <1>1, <2>1, Constants DEF Measured
  <2>3. v <= remote'.version
    BY <1>1, <2>2
  <2>. HIDE DEF v
  <2>4. ASSUME NEW i \in 1 .. Len(window') PROVE window'[i] <= remote'.version
    <3>1. i = Len(window) + 1 \/ i \in 1 .. Len(window)
      BY <2>1
    <3>. QED BY <1>2, <2>1, <2>3, <3>1
  <2>. QED BY <2>4
<1>6. ~StartSample /\ ~ReadSample => window' = window
  BY OutsideEvent DEF Event, CallEvent, CallEventNoUpdate, LeaveEvent, Evaluate
<1>. QED
  BY <1>3, <1>4, <1>5, <1>6

(* Trip times are never negative: with a standard curve, and a current     *)
(* above the threshold.                                                    *)
TripTimesAreTimes == \A average \in Nat : TripTime(average) \in Nat

(* The average is over at least one sample, and start_time is not in the   *)
(* future: start_time - now is never larger than a trip time.              *)
LEMMA CharacteristicStep ==
  ASSUME TripTimesAreTimes, SubInv, SiTyped, Measured, ~trip, Characteristic
  PROVE  /\ is_recording' \in BOOLEAN /\ {total', sample_count'} \subseteq Nat
         /\ start_time' \in 0 .. now /\ ~trip'
<1>. DEFINE pickup == Rms > Threshold /\ ~is_recording
            records == is_recording \/ pickup
            sum == IF pickup THEN Rms ELSE total + Rms
            count == IF pickup THEN 1 ELSE sample_count + 1
            start == IF pickup THEN now ELSE start_time
            above == records /\ sum > Threshold * count
            trips == above /\ start - now > TripTime(sum \div count)
<1>1. /\ start_time' = start
      /\ total' = IF records THEN sum ELSE total
      /\ sample_count' = IF records THEN count ELSE sample_count
      /\ is_recording' = above
      /\ trip' = (trip \/ trips)
  BY DEF Characteristic
<1>2. Rms \in Nat
  BY RmsTyped
<1>3. total \in Nat /\ sample_count \in Nat /\ now \in Nat /\ start_time \in 0 .. now /\ is_recording \in BOOLEAN
  BY DEF Measured
<1>4. sum \in Nat /\ count \in Nat \ {0} /\ start \in 0 .. now
  BY <1>2, <1>3
<1>5. above \in BOOLEAN
  BY DEF above
<1>. HIDE DEF pickup, sum, count, start, above
<1>6. sum \div count \in Nat
  BY <1>4
<1>7. TripTime(sum \div count) \in Nat
  BY <1>6 DEF TripTimesAreTimes
<1>8. ~trips
  BY <1>3, <1>4, <1>7
<1>. HIDE DEF trips, records
<1>. QED
  BY <1>1, <1>3, <1>4, <1>5, <1>8

LEMMA MeasuredStep ==
  ASSUME TripTimesAreTimes, SubInv, SiTyped, Walk, Measured, ~trip, [Next]_vars, SubInv'
  PROVE  Measured' /\ ~trip'
<1>1. remote'.version \in Nat
  BY DEF SubInv, SubTypeOK
<1>2. /\ levels' \in Seq(Levels) /\ Len(levels') = remote'.version
      /\ \A s \in Slot : \A w \in 1 .. Words : slots'[s][w] <= remote'.version
      /\ \A i \in 1 .. Len(window') : window'[i] <= remote'.version
  BY <1>1, LevelsStep, SlotsStep, SubStep, WindowMade
<1>3. CASE Evaluate
  <2>1. Characteristic /\ now' = now
    BY <1>3 DEF Evaluate
  <2>. QED BY <1>2, <2>1, CharacteristicStep DEF Measured
<1>4. CASE ~Evaluate
  <2>1. UNCHANGED <<is_recording, total, sample_count, start_time>>
    BY <1>4, OutsideEvent DEF Event, CallEvent, CallEventNoUpdate, LeaveEvent, StartSample, ReadSample, recordVars
  <2>2. trip' = trip
    BY <1>4, OutsideEvent DEF Event, CallEvent, CallEventNoUpdate, LeaveEvent, StartSample, ReadSample, recordVars
  <2>3. now' = now \/ now' = now + 1
    BY <1>4 DEF Next, Tick, SampleMade, SampleLost, SubscriberTicks, SubscriberStores, SubscriberReturns, Event,
                CallEvent, CallEventNoUpdate, LeaveEvent, StartSample, ReadSample, vars
  <2>4. now' \in Nat /\ start_time \in 0 .. now'
    BY <2>3 DEF Measured
  <2>. QED BY <1>2, <2>1, <2>2, <2>4 DEF Measured
<1>. QED
  BY <1>3, <1>4

LEMMA MeasuredAlways ==
  ASSUME Entries <= ByteRange, TripTimesAreTimes
  PROVE  Spec => [](Measured /\ ~trip)
<1>1. Init => Measured /\ ~trip
  <2>. SUFFICES ASSUME Init PROVE Measured /\ ~trip
    OBVIOUS
  <2>1. /\ levels = <<>> /\ remote.version = 0 /\ window = <<>> /\ is_recording = FALSE
        /\ total = 0 /\ sample_count = 0 /\ start_time = 0 /\ now = 0
        /\ \A s \in Slot : \A w \in 1 .. Words : slots[s][w] = 0
    BY DEF Init, SubInit
  <2>2. ~trip
    BY DEF Init
  <2>3. Len(<<>>) = 0 /\ <<>> \in Seq(Levels)
    OBVIOUS
  <2>4. levels \in Seq(Levels) /\ Len(levels) = 0 /\ Len(window) = 0
    BY <2>1, <2>3
  <2>5. /\ \A s \in Slot : \A w \in 1 .. Words : slots[s][w] <= remote.version
        /\ \A i \in 1 .. Len(window) : window[i] <= remote.version
    BY <2>1, <2>4
  <2>6. is_recording \in BOOLEAN
    BY DEF Init
  <2>7. {total, sample_count} \subseteq Nat /\ now \in Nat /\ start_time \in 0 .. now
    BY <2>1
  <2>. QED BY <2>1, <2>2, <2>4, <2>5, <2>6, <2>7 DEF Measured
<1>2. /\ SubInv /\ SubInv' /\ SiTyped /\ Walk /\ Measured /\ ~trip /\ [Next]_vars
      => Measured' /\ ~trip'
  BY MeasuredStep
<1>. QED
  BY SubAlways, WalkAlways, <1>1, <1>2, PTL DEF Spec

(* si.c compares start_time - current_time() with the trip time, and a     *)
(* pickup is never in the future: whatever the currents are and however    *)
(* long they last, the protection does not trip.                           *)
THEOREM NeverTrips ==
  ASSUME Entries <= ByteRange, TripTimesAreTimes
  PROVE  Spec => []~trip
  BY MeasuredAlways, PTL

(* In one engine SI works through every sample accepted, exactly once, and *)
(* between packets it is one behind, for every ring of two or more slots   *)
(* that one byte can index.                                                *)
THEOREM StaysOneBehind ==
  ASSUME 1 < Entries, Entries <= ByteRange, TripTimesAreTimes
  PROVE  Spec => []OneSampleBehind
<1>1. Init => (sameEngine => Lockstep)
  <2>. SUFFICES ASSUME Init PROVE Lockstep
    OBVIOUS
  <2>1. pc = "tick" /\ si_pc = "out" /\ accepted = <<>> /\ done = 0
    BY DEF Init, SubInit
  <2>2. ~dispatched
    BY DEF Init
  <2>. QED BY <2>1, <2>2 DEF Lockstep, OneLeft
<1>2. /\ SubInv /\ SubInv' /\ SiTyped /\ Walk /\ ~trip /\ (sameEngine => Lockstep) /\ [Next]_vars
      => (sameEngine => Lockstep)'
  <2>. SUFFICES ASSUME SubInv, SubInv', SiTyped, Walk, ~trip, sameEngine => Lockstep, [Next]_vars, sameEngine'
                PROVE  Lockstep'
    OBVIOUS
  <2>1. sameEngine
    BY OutsideEvent DEF Event, CallEvent, CallEventNoUpdate, LeaveEvent, StartSample, ReadSample, Evaluate
  <2>2. SampleMade \/ SampleLost \/ Tick \/ UNCHANGED vars =>
          UNCHANGED <<pc, accepted, dispatched, si_pc, cur, done>>
    BY DEF SampleMade, RemoteChange, SampleLost, Lose, Tick, siVars, subVars, vars
  <2>. QED BY <2>1, <2>2, LockstepKept, LockstepListens, LockstepEvent DEF Next
<1>3. (sameEngine => Lockstep) => OneSampleBehind
  BY DEF Lockstep, OneLeft, OneSampleBehind
<1>. QED
  BY SubAlways, WalkAlways, MeasuredAlways, <1>1, <1>2, <1>3, PTL DEF Spec
=============================================================================
