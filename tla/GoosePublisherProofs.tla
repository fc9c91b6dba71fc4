------------------------ MODULE GoosePublisherProofs ------------------------
(***************************************************************************)
(* Proofs about the GOOSE publisher, for every number of inputs, ring      *)
(* size, lag limit, time to live and bound.                                *)
(***************************************************************************)
EXTENDS GoosePublisher, RingArithmetic, TLAPS

(* The variables the state number and the schedule depend on.              *)
Numbers ==
    /\ stNum \in Nat /\ now \in Nat
    /\ interval \in Nat /\ transmit_deadline \in Nat
    /\ sent.at \in Nat
    /\ pc \in {"out", "look", "update", "publish", "check"}
    /\ transmit_now \in BOOLEAN
    /\ \A p \in publications : p.stNum \in Nat

(* An element changes only after transmit_now is set, and a publication    *)
(* under a new stNum follows before event() is left.                       *)
ChangeIsPending ==
    /\ pc \in {"update", "publish"} => transmit_now
    /\ pc = "check" => ~transmit_now

(* No publication is ahead of stNum, and those under it carry the elements *)
(* as they are, while no change is pending.                                *)
NewestIsCurrent ==
    /\ \A p \in publications : p.stNum <= stNum
    /\ pc = "out" \/ ~transmit_now => \A p \in publications : p.stNum = stNum => p.values = element

IInv == Numbers /\ ChangeIsPending /\ NewestIsCurrent /\ StNumNamesState /\ RetransmitsInTime

LEMMA Half == ASSUME NEW n \in Nat PROVE n \div 2 \in Nat
  BY SMT

LEMMA InitInvariant == Init => IInv
<1>. SUFFICES ASSUME Init PROVE IInv
  OBVIOUS
<1>. USE GooseAssumption
<1>1. Numbers
  <2>1. Ttl \div 2 \in Nat
    BY Half
  <2>. QED BY <2>1 DEF Init, Numbers
<1>2. ChangeIsPending /\ NewestIsCurrent /\ StNumNamesState /\ RetransmitsInTime
  BY DEF Init, ChangeIsPending, NewestIsCurrent, StNumNamesState, RetransmitsInTime
<1>. QED BY <1>1, <1>2 DEF IInv

LEMMA StepInvariant == IInv /\ [Next]_vars => IInv'
<1>. SUFFICES ASSUME IInv, [Next]_vars PROVE IInv'
  OBVIOUS
<1>. USE GooseAssumption DEF IInv
<1>1. CASE Write
  BY <1>1 DEF Write, inputVars, timeVars, sentVars, callVars, Numbers, ChangeIsPending, NewestIsCurrent, StNumNamesState, RetransmitsInTime
<1>2. CASE Tick
  BY <1>2 DEF Tick, inputVars, timeVars, sentVars, callVars, Numbers, ChangeIsPending, NewestIsCurrent, StNumNamesState, RetransmitsInTime
<1>3. CASE Call
  BY <1>3 DEF Call, inputVars, timeVars, sentVars, callVars, Numbers, ChangeIsPending, NewestIsCurrent, StNumNamesState, RetransmitsInTime
<1>4. CASE LookNoUpdate
  BY <1>4 DEF LookNoUpdate, timeVars, sentVars, callVars, Numbers, ChangeIsPending, NewestIsCurrent, StNumNamesState, RetransmitsInTime
<1>5. CASE LookUpdate
  BY <1>5 DEF LookUpdate, timeVars, sentVars, callVars, Numbers, ChangeIsPending, NewestIsCurrent, StNumNamesState, RetransmitsInTime
<1>6. CASE UpdateElement
  BY <1>6 DEF UpdateElement, timeVars, sentVars, callVars, Numbers, ChangeIsPending, NewestIsCurrent, StNumNamesState, RetransmitsInTime
<1>7. CASE InputsDone
  BY <1>7 DEF InputsDone, AfterInputs, inputVars, timeVars, sentVars, callVars, Numbers, ChangeIsPending, NewestIsCurrent, StNumNamesState, RetransmitsInTime
<1>8. CASE PublishChange
  <2>1. Fast \div 2 \in Nat
    BY Half
  <2>2. Numbers'
    BY <1>8, <2>1 DEF PublishChange, Publication, inputVars, callVars, Numbers
  <2>3. \A p \in publications : p.stNum < stNum'
    BY <1>8 DEF PublishChange, Numbers, NewestIsCurrent
  <2>4. NewestIsCurrent' /\ StNumNamesState'
    BY <1>8, <2>2, <2>3 DEF PublishChange, Publication, inputVars, callVars, Numbers, NewestIsCurrent, StNumNamesState
  <2>5. ChangeIsPending' /\ RetransmitsInTime'
    BY <1>8 DEF PublishChange, callVars, ChangeIsPending, RetransmitsInTime
  <2>. QED BY <2>2, <2>4, <2>5
<1>9. CASE Retransmit
  <2>1. interval' \in Nat
    BY <1>9 DEF Retransmit, Slower, Numbers
  <2>2. interval' \div 2 \in Nat
    BY <2>1, Half
  <2>3. Numbers'
    BY <1>9, <2>1, <2>2 DEF Retransmit, Slower, Publication, inputVars, callVars, Numbers
  <2>4. NewestIsCurrent' /\ StNumNamesState'
    BY <1>9 DEF Retransmit, Publication, inputVars, callVars, Numbers, ChangeIsPending, NewestIsCurrent, StNumNamesState
  <2>5. transmit_deadline' <= now + interval' \div 2
    BY <1>9, <2>2 DEF Retransmit, Slower, Numbers
  <2>6. ChangeIsPending' /\ RetransmitsInTime'
    BY <1>9, <2>5 DEF Retransmit, callVars, ChangeIsPending, RetransmitsInTime
  <2>. QED BY <2>3, <2>4, <2>6
<1>10. CASE NotDue
  BY <1>10 DEF NotDue, inputVars, timeVars, sentVars, callVars, Numbers, ChangeIsPending, NewestIsCurrent, StNumNamesState, RetransmitsInTime
<1>11. CASE UNCHANGED vars
  BY <1>11 DEF vars, inputVars, timeVars, sentVars, callVars, Numbers, ChangeIsPending, NewestIsCurrent, StNumNamesState, RetransmitsInTime
<1>. QED
  BY <1>1, <1>2, <1>3, <1>4, <1>5, <1>6, <1>7, <1>8, <1>9, <1>10, <1>11 DEF Next, Publisher

LEMMA Invariance == Spec => []IInv
  BY InitInvariant, StepInvariant, PTL DEF Spec

(* event() and run() of publisher_mmap.c never publish two different data  *)
(* sets under one state number, however many inputs and whatever the       *)
(* writers do in between.                                                  *)
THEOREM StateNumbersNameStates == Spec => []StNumNamesState
  BY Invariance, PTL DEF IInv

(* run() of publisher_mmap.c schedules the next transmission after a       *)
(* retransmission within half of the announced time to live.               *)
THEOREM RetransmissionsInTime == Spec => []RetransmitsInTime
  BY Invariance, PTL DEF IInv

-----------------------------------------------------------------------------
(* Elements never go back. *)

(* An element that was caught up with is not newer than the item now in    *)
(* the slot it was taken from, and no element is newer than the last item. *)
FollowsRing ==
    /\ written \in [Input -> Nat] /\ element \in [Input -> Nat]
    /\ old_index \in [Input -> 0 .. Items - 1]
    /\ caughtUp \in [Input -> BOOLEAN]
    /\ pc = "update" => at \in Input
    /\ \A i \in Input : element[i] <= written[i]
    /\ \A i \in Input : caughtUp[i] => element[i] <= ItemAt(i, old_index[i])

(* Between writes: how the items of an input compare.                      *)
LEMMA ItemBounds ==
  ASSUME FollowsRing, NEW i \in Input, NEW s \in 0 .. Items - 1
  PROVE  /\ Index(i) \in 0 .. Items - 1
         /\ Behind(i, s) \in 0 .. Items - 1
         /\ ItemAt(i, s) \in Nat
         /\ ItemAt(i, s) <= written[i]
         /\ ItemAt(i, Index(i)) = written[i]
<1>. USE GooseAssumption
<1>1. Index(i) \in 0 .. Items - 1
  BY SlotAndLap DEF FollowsRing, Index
<1>2. Behind(i, s) \in 0 .. Items - 1 /\ Behind(i, Index(i)) = 0
  BY <1>1 DEF Behind
<1>. QED
  BY <1>1, <1>2 DEF ItemAt, FollowsRing

(* The slot after one that is behind holds a newer item, or none either.   *)
LEMMA NextIsNewer ==
  ASSUME FollowsRing, NEW i \in Input, old_index[i] # Index(i)
  PROVE  ItemAt(i, (old_index[i] + 1) % Items) >= ItemAt(i, old_index[i])
<1>. USE GooseAssumption
<1>. DEFINE s == old_index[i]
            t == (s + 1) % Items
<1>1. s \in 0 .. Items - 1 /\ Index(i) \in 0 .. Items - 1
  BY ItemBounds DEF FollowsRing
<1>2. s \in Nat /\ Items \in Nat \ {0} /\ s % Items = s
  BY <1>1, SMT
<1>3. t = IF s = Items - 1 THEN 0 ELSE s + 1
  BY <1>1, <1>2, NextSlot
<1>. HIDE DEF t
<1>4. Behind(i, t) = Behind(i, s) - 1 /\ Behind(i, s) \in Nat
  BY <1>1, <1>3 DEF Behind
<1>5. ItemAt(i, t) >= ItemAt(i, s)
  BY <1>4 DEF ItemAt, FollowsRing
<1>. QED
  BY <1>5 DEF t

(* A write replaces an item by a newer one and leaves the others.          *)
LEMMA WritesGrow ==
  ASSUME FollowsRing, Write, NEW i \in Input, NEW s \in 0 .. Items - 1
  PROVE  ItemAt(i, s)' >= ItemAt(i, s) /\ ItemAt(i, s)' \in Int /\ written'[i] >= written[i]
<1>. USE GooseAssumption
<1>1. written' \in [Input -> Nat] /\ (written'[i] = written[i] \/ written'[i] = written[i] + 1)
  BY DEF Write, FollowsRing
<1>2. CASE written'[i] = written[i]
  <2>1. ItemAt(i, s)' = ItemAt(i, s)
    BY <1>2 DEF ItemAt, Behind, Index
  <2>. QED BY <1>2, <2>1, ItemBounds DEF FollowsRing
<1>3. CASE written'[i] = written[i] + 1
  <2>1. Index(i)' = IF Index(i) = Items - 1 THEN 0 ELSE Index(i) + 1
    BY <1>3, NextSlot DEF Index, FollowsRing
  <2>2. Index(i) \in 0 .. Items - 1 /\ Behind(i, s) \in 0 .. Items - 1
    BY ItemBounds
  <2>3. Behind(i, s)' = IF s <= Index(i)' THEN Index(i)' - s ELSE Index(i)' + Items - s
    BY DEF Behind
  <2>4. Behind(i, s)' = IF Behind(i, s) = Items - 1 THEN 0 ELSE Behind(i, s) + 1
    BY <2>1, <2>2, <2>3 DEF Behind
  <2>5. ItemAt(i, s)' = IF Behind(i, s)' <= written'[i] THEN written'[i] - Behind(i, s)' ELSE 0
    BY DEF ItemAt
  <2>. QED
    BY <1>1, <1>3, <2>2, <2>4, <2>5 DEF ItemAt, FollowsRing
<1>. QED
  BY <1>1, <1>2, <1>3

LEMMA InitFollowsRing == Init => FollowsRing
<1>. SUFFICES ASSUME Init PROVE FollowsRing
  OBVIOUS
<1>. USE GooseAssumption
<1>1. \A i \in Input : Index(i) \in 0 .. Items - 1
  <2>. TAKE i \in Input
  <2>1. written[i] \in Nat /\ Items \in Nat \ {0}
    BY DEF Init
  <2>. QED BY <2>1, SlotAndLap DEF Index
<1>2. \A i \in Input : ItemAt(i, Index(i)) = written[i] /\ written[i] \in Nat
  BY <1>1 DEF Init, ItemAt, Behind
<1>. QED
  BY <1>2 DEF Init, FollowsRing

(* One step of the publisher or of a writer keeps FollowsRing, and lets no *)
(* element that was caught up with go back.                                *)
LEMMA StepFollowsRing ==
  ASSUME FollowsRing, [Next]_vars
  PROVE  FollowsRing' /\ \A i \in Input : caughtUp[i] => element'[i] >= element[i]
<1>. USE GooseAssumption
<1>0. \A i \in Input : old_index[i] \in 0 .. Items - 1 /\ element[i] \in Nat
  BY DEF FollowsRing
<1>1. CASE Write
  <2>1. UNCHANGED <<element, old_index, caughtUp, pc, at>> /\ written' \in [Input -> Nat]
    BY <1>1 DEF Write, inputVars, callVars, FollowsRing
  <2>2. \A i \in Input : /\ ItemAt(i, old_index[i])' >= ItemAt(i, old_index[i])
                         /\ ItemAt(i, old_index[i])' \in Int
                         /\ written'[i] >= written[i]
    <3>. TAKE i \in Input
    <3>2. \A s \in 0 .. Items - 1 : ItemAt(i, s)' >= ItemAt(i, s) /\ ItemAt(i, s)' \in Int /\ written'[i] >= written[i]
      BY <1>1, WritesGrow
    <3>. QED BY <1>0, <2>1, <3>2 DEF ItemAt, Behind, Index
  <2>3. \A i \in Input : ItemAt(i, old_index[i]) \in Nat
    BY <1>0, ItemBounds
  <2>. QED BY <1>0, <2>1, <2>2, <2>3 DEF FollowsRing
<1>2. CASE LookNoUpdate
  <2>1. UNCHANGED <<written, element, old_index, pc>> /\ pc = "look" /\ at \in Input
    BY <1>2 DEF LookNoUpdate
  <2>2. caughtUp' = [caughtUp EXCEPT ![at] = TRUE] /\ old_index[at] = Index(at)
    BY <1>2 DEF LookNoUpdate
  <2>3. element[at] <= ItemAt(at, old_index[at])
    BY <1>0, <2>1, <2>2, ItemBounds DEF FollowsRing
  <2>4. \A i \in Input : ItemAt(i, old_index[i])' = ItemAt(i, old_index[i])
    BY <2>1 DEF ItemAt, Behind, Index
  <2>. QED BY <1>0, <2>1, <2>2, <2>3, <2>4 DEF FollowsRing
<1>3. CASE LookUpdate
  <2>1. UNCHANGED <<written, element, caughtUp, at>> /\ at \in Input /\ old_index[at] # Index(at)
    BY <1>3 DEF LookUpdate
  <2>2. PICK s \in {Index(at), (old_index[at] + 1) % Items} : old_index' = [old_index EXCEPT ![at] = s]
    BY <1>3 DEF LookUpdate
  <2>3. s \in 0 .. Items - 1
    <3>1. old_index[at] + 1 \in Nat /\ Items \in Nat \ {0}
      BY <1>0, <2>1
    <3>2. (old_index[at] + 1) % Items \in 0 .. Items - 1
      BY <3>1, SlotAndLap
    <3>3. Index(at) \in 0 .. Items - 1
      BY <1>0, <2>1, ItemBounds
    <3>. QED BY <2>2, <3>2, <3>3
  <2>4. ItemAt(at, s) >= ItemAt(at, old_index[at])
    BY <1>0, <2>1, <2>2, ItemBounds, NextIsNewer DEF FollowsRing
  <2>5. \A i \in Input : ItemAt(i, old_index[i])' = ItemAt(i, old_index'[i])
    BY <2>1 DEF ItemAt, Behind, Index
  <2>6. \A i \in Input : old_index'[i] = IF i = at THEN s ELSE old_index[i]
    BY <2>1, <2>2 DEF FollowsRing
  <2>7. \A i \in Input : caughtUp[i] => element[i] <= ItemAt(i, old_index'[i])
    <3>1. ItemAt(at, s) \in Nat /\ ItemAt(at, old_index[at]) \in Nat
      BY <1>0, <2>1, <2>3, ItemBounds
    <3>2. caughtUp[at] => element[at] <= ItemAt(at, old_index[at])
      BY <2>1 DEF FollowsRing
    <3>3. caughtUp[at] => element[at] <= ItemAt(at, s)
      BY <1>0, <2>1, <2>4, <3>1, <3>2
    <3>. QED BY <2>6, <3>3 DEF FollowsRing
  <2>. QED BY <1>0, <2>1, <2>2, <2>3, <2>5, <2>7 DEF FollowsRing
<1>4. CASE UpdateElement
  <2>1. UNCHANGED <<written, old_index, caughtUp>> /\ pc = "update" /\ pc' = "look" /\ at \in Input
    BY <1>4 DEF UpdateElement, FollowsRing
  <2>2. element' = [element EXCEPT ![at] = ItemAt(at, old_index[at])]
    BY <1>4 DEF UpdateElement
  <2>3. \A i \in Input : ItemAt(i, old_index[i])' = ItemAt(i, old_index[i])
    BY <2>1 DEF ItemAt, Behind, Index
  <2>4. /\ ItemAt(at, old_index[at]) \in Nat /\ ItemAt(at, old_index[at]) <= written[at]
    BY <1>0, <2>1, ItemBounds
  <2>. QED BY <1>0, <2>1, <2>2, <2>3, <2>4 DEF FollowsRing
<1>5. CASE UNCHANGED <<written, old_index, element, caughtUp>> /\ pc' # "update"
  <2>1. \A i \in Input : ItemAt(i, old_index[i])' = ItemAt(i, old_index[i])
    BY <1>5 DEF ItemAt, Behind, Index
  <2>. QED BY <1>0, <1>5, <2>1 DEF FollowsRing
<1>6. CASE Tick \/ UNCHANGED vars
  <2>1. UNCHANGED <<written, old_index, element, caughtUp, pc, at>>
    BY <1>6 DEF Tick, vars, inputVars, callVars
  <2>2. \A i \in Input : ItemAt(i, old_index[i])' = ItemAt(i, old_index[i])
    BY <2>1 DEF ItemAt, Behind, Index
  <2>. QED BY <1>0, <2>1, <2>2 DEF FollowsRing
<1>7. Call \/ InputsDone \/ PublishChange \/ Retransmit \/ NotDue =>
        UNCHANGED <<written, old_index, element, caughtUp>> /\ pc' # "update"
  BY DEF Call, InputsDone, AfterInputs, PublishChange, Retransmit, NotDue, inputVars
<1>. QED
  BY <1>1, <1>2, <1>3, <1>4, <1>5, <1>6, <1>7 DEF Next, Publisher

(* event() of publisher_mmap.c: from the first time an input is caught up  *)
(* with, its element only takes items at least as new, for every ring size,*)
(* lag limit and pace of the writers.                                      *)
THEOREM ElementsNeverGoBack == Spec => NeverBackwards
<1>1. FollowsRing /\ [Next]_vars => FollowsRing'
  BY StepFollowsRing
<1>2. FollowsRing /\ [Next]_vars => [\A i \in Input : caughtUp[i] => element'[i] >= element[i]]_vars
  BY StepFollowsRing
<1>. QED
  BY InitFollowsRing, <1>1, <1>2, PTL DEF Spec, NeverBackwards

-----------------------------------------------------------------------------
(* The lag is bounded. *)

(* Each old_index is the slot of the write it stands for, less than a ring *)
(* behind the writer, unless the publisher has been lapped.                *)
TakenInRing ==
    /\ written \in [Input -> Nat] /\ taken \in [Input -> Nat]
    /\ old_index \in [Input -> 0 .. Items - 1]
    /\ ~lapped => \A i \in Input : /\ old_index[i] = taken[i] % Items
                                   /\ written[i] - taken[i] \in 0 .. Items - 1

(* diff, computed from two slots, is the number of writes between them.    *)
LEMMA AheadIsLag ==
  ASSUME TakenInRing, ~lapped, NEW i \in Input
  PROVE  Ahead(i) = written[i] - taken[i] /\ Index(i) \in 0 .. Items - 1
<1>. USE GooseAssumption
<1>. DEFINE w == written[i]
            t == taken[i]
            a == w \div Items
            r == w % Items
            b == t \div Items
            s == t % Items
<1>1. w \in Nat /\ t \in Nat /\ Items \in Nat \ {0} /\ w - t \in 0 .. Items - 1
  BY DEF TakenInRing
<1>2. r \in 0 .. Items - 1 /\ a \in Int /\ w = Items * a + r
  BY <1>1, SlotAndLap
<1>3. s \in 0 .. Items - 1 /\ b \in Int /\ t = Items * b + s
  BY <1>1, SlotAndLap
<1>4. Ahead(i) = IF r < s THEN r + Items - s ELSE r - s
  BY DEF Ahead, Index, TakenInRing
<1>. HIDE DEF w, t, a, r, b, s
<1>5. Items * 0 + (w - t) = Items * (a - b) + (r - s)
  BY <1>1, <1>2, <1>3, SMT
<1>6. CASE r >= s
  <2>1. r - s \in 0 .. Items - 1 /\ a - b \in Int
    BY <1>1, <1>2, <1>3, <1>6
  <2>2. w - t = r - s
    BY ONLY <1>1, <1>5, <2>1, UniqueSlot, 0 \in Int
  <2>. QED BY <1>2, <1>3, <1>4, <1>6, <2>2 DEF Index, w, t, r
<1>7. CASE r < s
  <2>1. (r - s) + Items \in 0 .. Items - 1 /\ a - b - 1 \in Int
    BY <1>1, <1>2, <1>3, <1>7
  <2>2. Items * 0 + (w - t) = Items * (a - b - 1) + ((r - s) + Items)
    <3>1. Items * (a - b - 1) = Items * (a - b) - Items
      BY <1>1, <1>2, <1>3, SMT
    <3>2. Items * (a - b) \in Int
      BY <1>1, <1>2, <1>3, SMT
    <3>. QED BY <1>1, <1>2, <1>3, <1>5, <3>1, <3>2
  <2>3. w - t = (r - s) + Items
    BY ONLY <1>1, <2>1, <2>2, UniqueSlot, 0 \in Int
  <2>. QED BY <1>1, <1>2, <1>3, <1>4, <1>7, <2>3 DEF Index, w, t, r
<1>. QED
  BY <1>2, <1>3, <1>6, <1>7

LEMMA InitTaken == Init => TakenInRing
<1>. SUFFICES ASSUME Init PROVE TakenInRing
  OBVIOUS
<1>. USE GooseAssumption
<1>1. ASSUME NEW i \in Input
      PROVE  /\ written[i] \in Nat /\ taken[i] \in Nat
             /\ old_index[i] = taken[i] % Items
             /\ written[i] - taken[i] \in 0 .. Items - 1
  <2>. DEFINE w == written[i]
              a == w \div Items
              r == w % Items
              t == a * Items
  <2>1. w \in Nat /\ Items \in Nat \ {0} /\ taken[i] = t /\ old_index[i] = 0
    BY DEF Init
  <2>2. r \in 0 .. Items - 1 /\ a \in Int /\ w = Items * a + r
    BY <2>1, SlotAndLap
  <2>3. a \in Nat
    BY <2>1, SMT
  <2>. HIDE DEF w, a, r
  <2>4. t = Items * a /\ t \in Nat
    BY <2>1, <2>3, SMT
  <2>5. w - t = r
    BY <2>1, <2>2, <2>4
  <2>6. t % Items = 0
    <3>. DEFINE b == t \div Items
                s == t % Items
    <3>1. s \in 0 .. Items - 1 /\ b \in Int /\ t = Items * b + s
      BY <2>1, <2>4, SlotAndLap
    <3>. HIDE DEF b, s, t
    <3>2. Items * b + s = Items * a + 0 /\ 0 \in 0 .. Items - 1
      BY <2>1, <2>2, <2>4, <3>1
    <3>3. s = 0
      BY ONLY <2>1, <2>2, <3>1, <3>2, UniqueSlot
    <3>. QED BY <3>3 DEF s
  <2>. QED BY <2>1, <2>2, <2>4, <2>5, <2>6 DEF w
<1>2. written \in [Input -> Nat] /\ taken \in [Input -> Nat]
  <2>1. DOMAIN written = Input /\ written \in [Input -> 0 .. MaxBefore]
    BY DEF Init
  <2>2. taken = [i \in Input |-> taken[i]]
    BY DEF Init
  <2>. QED BY <1>1, <2>1, <2>2
<1>3. old_index \in [Input -> 0 .. Items - 1]
  BY DEF Init
<1>. QED
  BY <1>1, <1>2, <1>3 DEF TakenInRing

(* An update takes over one item, or jumps to the newest; so it leaves the *)
(* publisher less than MAX_LAG behind.                                     *)
LEMMA UpdateTakes ==
  ASSUME TakenInRing, LookUpdate
  PROVE  TakenInRing' /\ (~lapped => written[at] - taken'[at] < MaxLag \/ written[at] = taken'[at])
<1>. USE GooseAssumption
<1>0. /\ at \in Input /\ old_index[at] # Index(at) /\ diff' = Ahead(at)
      /\ UNCHANGED <<written, lapped>>
      /\ old_index' = [old_index EXCEPT ![at] = IF diff' > MaxLag THEN Index(at) ELSE (@ + 1) % Items]
      /\ taken' = [taken EXCEPT ![at] = IF diff' > MaxLag THEN @ + diff' ELSE @ + 1]
  BY DEF LookUpdate
<1>1. /\ written[at] \in Nat /\ taken[at] \in Nat /\ old_index[at] \in 0 .. Items - 1
      /\ Items \in Nat \ {0} /\ MaxLag \in Nat
  BY <1>0 DEF TakenInRing
<1>2. Index(at) \in 0 .. Items - 1 /\ (old_index[at] + 1) % Items \in 0 .. Items - 1
  <2>1. old_index[at] + 1 \in Nat
    BY <1>1
  <2>. QED BY <1>1, <2>1, SlotAndLap DEF Index
<1>3. Ahead(at) \in Nat
  BY <1>1, <1>2 DEF Ahead
<1>4. taken'[at] \in Nat /\ \A i \in Input : i # at => taken'[i] = taken[i] /\ old_index'[i] = old_index[i]
  BY <1>0, <1>1, <1>3 DEF TakenInRing
<1>5. taken' \in [Input -> Nat] /\ old_index' \in [Input -> 0 .. Items - 1]
  BY <1>0, <1>1, <1>2, <1>3 DEF TakenInRing
<1>6. ASSUME ~lapped
      PROVE  /\ old_index'[at] = taken'[at] % Items /\ written[at] - taken'[at] \in 0 .. Items - 1
             /\ written[at] - taken'[at] < MaxLag \/ written[at] = taken'[at]
  <2>1. Ahead(at) = written[at] - taken[at] /\ old_index[at] = taken[at] % Items /\ Ahead(at) \in 0 .. Items - 1
    BY <1>0, <1>6, AheadIsLag DEF TakenInRing
  <2>2. CASE diff' > MaxLag
    <3>1. taken'[at] = written[at] /\ old_index'[at] = Index(at)
      BY <1>0, <1>1, <2>1, <2>2 DEF TakenInRing
    <3>. QED BY <1>1, <3>1 DEF Index
  <2>3. CASE ~(diff' > MaxLag)
    <3>1. taken'[at] = taken[at] + 1 /\ old_index'[at] = (old_index[at] + 1) % Items
      BY <1>0, <2>3 DEF TakenInRing
    <3>2. written[at] - taken[at] > 0
      <4>1. written[at] # taken[at]
        BY <1>0, <2>1 DEF Index
      <4>. QED BY <1>1, <2>1, <4>1
    <3>3. written[at] - taken[at] <= MaxLag
      BY <1>0, <1>1, <2>1, <2>3
    <3>4. (old_index[at] + 1) % Items = (taken[at] + 1) % Items
      <4>. DEFINE s == old_index[at]
      <4>1. s \in Nat /\ s % Items = s
        BY <1>1, SMT
      <4>2. (s + 1) % Items = IF s % Items = Items - 1 THEN 0 ELSE (s % Items) + 1
        BY ONLY <1>1, <4>1, NextSlot
      <4>3. (taken[at] + 1) % Items = IF taken[at] % Items = Items - 1 THEN 0 ELSE (taken[at] % Items) + 1
        BY ONLY <1>1, NextSlot
      <4>. QED BY <2>1, <4>1, <4>2, <4>3
    <3>. QED BY <1>1, <2>1, <3>1, <3>2, <3>3, <3>4
  <2>. QED BY <2>2, <2>3
<1>. QED
  BY <1>0, <1>4, <1>5, <1>6 DEF TakenInRing

LEMMA WriteKeepsTaken == ASSUME TakenInRing, Write PROVE TakenInRing'
<1>1. PICK i \in Input : /\ written' = [written EXCEPT ![i] = @ + 1]
                         /\ lapped' = (lapped \/ written'[i] - taken[i] >= Items)
  BY DEF Write
<1>2. UNCHANGED <<taken, old_index>>
  BY DEF Write, inputVars
<1>3. Items \in Nat \ {0}
  BY GooseAssumption
<1>4. written' \in [Input -> Nat] /\ written'[i] = written[i] + 1
      /\ \A j \in Input : j # i => written'[j] = written[j]
  BY <1>1 DEF TakenInRing
<1>5. ASSUME ~lapped' PROVE ~lapped /\ ~(written'[i] - taken[i] >= Items)
  BY <1>1, <1>5
<1>6. ASSUME ~lapped', NEW j \in Input
      PROVE  old_index[j] = taken[j] % Items /\ written'[j] - taken[j] \in 0 .. Items - 1
  BY <1>3, <1>4, <1>5, <1>6 DEF TakenInRing
<1>. QED
  BY <1>2, <1>4, <1>6 DEF TakenInRing

(* A look at an input that has moved leaves the publisher less than        *)
(* MAX_LAG items behind it, or not at all, unless a whole ring was written *)
(* since the look before: for every ring, lag limit and number of inputs.  *)
THEOREM LagStaysBounded == Spec => LagIsBounded
<1>1. TakenInRing /\ [Next]_vars => TakenInRing'
  <2>. SUFFICES ASSUME TakenInRing, [Next]_vars PROVE TakenInRing'
    OBVIOUS
  <2>1. LookNoUpdate \/ UpdateElement \/ Call \/ InputsDone => UNCHANGED <<written, taken, old_index, lapped>>
    BY DEF LookNoUpdate, UpdateElement, Call, InputsDone, inputVars
  <2>2. PublishChange \/ Retransmit \/ NotDue \/ Tick \/ UNCHANGED vars => UNCHANGED <<written, taken, old_index, lapped>>
    BY DEF PublishChange, Retransmit, NotDue, Tick, inputVars, vars
  <2>3. UNCHANGED <<written, taken, old_index, lapped>> => TakenInRing'
    BY DEF TakenInRing
  <2>. QED BY <2>1, <2>2, <2>3, UpdateTakes, WriteKeepsTaken DEF Next, Publisher
<1>. DEFINE Bounded == \A i \in Input : taken'[i] # taken[i] /\ ~lapped =>
                           written[i] - taken'[i] < MaxLag \/ written[i] = taken'[i]
<1>2. TakenInRing /\ [Next]_vars => [Bounded]_vars
  <2>. SUFFICES ASSUME TakenInRing, Next PROVE Bounded
    OBVIOUS
  <2>1. CASE LookUpdate
    <3>1. \A i \in Input : taken'[i] # taken[i] => i = at
      BY <2>1 DEF LookUpdate, TakenInRing
    <3>. QED BY <2>1, <3>1, UpdateTakes
  <2>2. CASE taken' = taken
    BY <2>2
  <2>3. ~LookUpdate => taken' = taken
    BY DEF Next, Publisher, Write, Tick, LookNoUpdate, UpdateElement, Call, InputsDone, PublishChange,
           Retransmit, NotDue, inputVars
  <2>. QED BY <2>1, <2>2, <2>3
<1>. QED
  BY InitTaken, <1>1, <1>2, PTL DEF Spec, LagIsBounded
=============================================================================
