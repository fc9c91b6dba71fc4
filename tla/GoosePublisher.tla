--------------------------- MODULE GoosePublisher ---------------------------
(***************************************************************************)
(* The GOOSE publisher, publisher_mmap.c: event() looks at the index of    *)
(* every input ring, takes over at most one item of each (or jumps to the  *)
(* newest when it lags), and publishes the data set under a new stNum if   *)
(* any input had moved; run() does the same and, when nothing moved,       *)
(* repeats the data set whenever its retransmission deadline has passed.   *)
(*                                                                         *)
(* The inputs are written by other processes at any time, between the      *)
(* publisher's read of an index and its read of the item too.  An item is  *)
(* the number of the write that stored it, so an older item is a smaller   *)
(* number; the lock around it is the subject of SharedBuffer.              *)
(***************************************************************************)
EXTENDS Naturals

CONSTANTS
    Inputs,      \* input_count: 1 .. Inputs
    Items,       \* items of each input ring
    MaxLag,      \* MAX_LAG
    Ttl,         \* ttl
    Fast,        \* GOOSE_FAST_RETRANSMIT_TTL
    MaxBefore,   \* bound: writes made before the publisher is initialised
    MaxWrites,   \* bound: writes made to an input
    MaxTime      \* bound: the clock stops here

ASSUME GooseAssumption ==
    /\ {Inputs, Items, Fast, Ttl} \subseteq Nat \ {0}
    /\ {MaxLag, MaxBefore, MaxWrites, MaxTime} \subseteq Nat
    /\ MaxBefore <= MaxWrites

VARIABLES
    written,            \* writes made to each input
    old_index,          \* the slot of each input taken over last
    element,            \* the value of each data set member
    now,                \* current_time()
    interval, transmit_deadline,
    stNum,
    pc,                 \* "out", "look", "update", "publish" or "check"
    caller,             \* who called event(): "run" or "chain"
    at,                 \* the input being looked at
    transmit_now,
    diff,               \* how far the input is ahead, when pc is "update"
    sent,               \* history: the last publication
    publications,       \* history: the data sets published with their stNum
    taken,              \* history: the write each old_index stands for
    caughtUp,           \* history: the input was seen without an update
    lapped              \* history: an input got a whole ring ahead

inputVars == <<old_index, element, taken, caughtUp>>
timeVars == <<interval, transmit_deadline>>
sentVars == <<stNum, sent, publications>>
callVars == <<caller, at, transmit_now, diff>>
vars == <<written, now, inputVars, timeVars, sentVars, pc, callVars, lapped>>

Input == 1 .. Inputs

(* read_index of an input whose header was written before any item. *)
Index(i) == written[i] % Items

(* How many items slot s is behind the index. *)
Behind(i, s) == IF s <= Index(i) THEN Index(i) - s ELSE Index(i) + Items - s

(* The item in slot s: the slots behind the index hold the writes before   *)
(* the last one, or 0 where there was none.                                *)
ItemAt(i, s) == IF Behind(i, s) <= written[i] THEN written[i] - Behind(i, s) ELSE 0

-----------------------------------------------------------------------------
(* init: the elements take the current items, but old_index starts at 0    *)
(* whatever was written before.                                            *)
Init ==
    /\ written \in [Input -> 0 .. MaxBefore]
    /\ old_index = [i \in Input |-> 0]
    /\ element = [i \in Input |-> ItemAt(i, Index(i))]
    /\ now = 0
    /\ interval = Ttl /\ transmit_deadline = Ttl \div 2
    /\ stNum = 0
    /\ pc = "out" /\ caller = "run" /\ at = 1 /\ transmit_now = FALSE /\ diff = 0
    /\ sent = [at |-> 0, by |-> "none"] /\ publications = {}
    /\ taken = [i \in Input |-> (written[i] \div Items) * Items]
    /\ caughtUp = [i \in Input |-> FALSE]
    /\ lapped = FALSE

Write ==
    /\ \E i \in Input :
          /\ written[i] < MaxWrites
          /\ written' = [written EXCEPT ![i] = @ + 1]
          /\ lapped' = (lapped \/ written'[i] - taken[i] >= Items)
    /\ UNCHANGED <<now, inputVars, timeVars, sentVars, pc, callVars>>

Tick ==
    /\ now < MaxTime /\ now' = now + 1
    /\ UNCHANGED <<written, inputVars, timeVars, sentVars, pc, callVars, lapped>>

-----------------------------------------------------------------------------
(* run() calls event(); so does the engine when a trigger fires. *)
Call ==
    /\ pc = "out"
    /\ caller' \in {"run", "chain"}
    /\ at' = 1 /\ transmit_now' = FALSE
    /\ pc' = "look"
    /\ UNCHANGED <<written, now, inputVars, timeVars, sentVars, diff, lapped>>

AfterInputs(updated) ==
    IF updated THEN "publish" ELSE IF caller = "run" THEN "check" ELSE "out"

(* Mutant: the difference is not corrected where the ring wraps. *)
AheadNoWrap(i) == IF Index(i) < old_index[i] THEN 1 ELSE Index(i) - old_index[i]

(* diff: how many items the index is ahead, the wrap corrected. *)
Ahead(i) ==
    IF Index(i) < old_index[i] THEN Index(i) + Items - old_index[i] ELSE Index(i) - old_index[i]

(* The next input has no update. *)
LookNoUpdate ==
    /\ pc = "look" /\ at \in Input /\ old_index[at] = Index(at)
    /\ at' = at + 1
    /\ caughtUp' = [caughtUp EXCEPT ![at] = TRUE]
    /\ UNCHANGED <<written, now, old_index, element, taken, timeVars, sentVars, pc, caller, transmit_now, diff, lapped>>

(* The next input has an update: one slot on, or a jump to the newest.     *)
LookUpdate ==
    /\ pc = "look" /\ at \in Input /\ old_index[at] # Index(at)
    /\ transmit_now' = TRUE
    /\ diff' = Ahead(at)
    /\ old_index' = [old_index EXCEPT ![at] = IF diff' > MaxLag THEN Index(at) ELSE (@ + 1) % Items]
    /\ taken' = [taken EXCEPT ![at] = IF diff' > MaxLag THEN @ + diff' ELSE @ + 1]
    /\ pc' = "update"
    /\ UNCHANGED <<written, now, element, caughtUp, timeVars, sentVars, caller, at, lapped>>

(* Mutant: the item is read at the slot after. *)
UpdateElementAhead ==
    /\ pc = "update"
    /\ element' = [element EXCEPT ![at] = ItemAt(at, (old_index[at] + 1) % Items)]
    /\ at' = at + 1
    /\ pc' = "look"
    /\ UNCHANGED <<written, now, old_index, taken, caughtUp, timeVars, sentVars, caller, transmit_now, diff, lapped>>

(* Mutant: the item is read at the slot before. *)
UpdateElementEarly ==
    /\ pc = "update"
    /\ element' = [element EXCEPT ![at] = ItemAt(at, (old_index[at] + Items - 1) % Items)]
    /\ at' = at + 1
    /\ pc' = "look"
    /\ UNCHANGED <<written, now, old_index, taken, caughtUp, timeVars, sentVars, caller, transmit_now, diff, lapped>>

(* update_function reads the item; the writer may have gone on by now.     *)
UpdateElement ==
    /\ pc = "update"
    /\ element' = [element EXCEPT ![at] = ItemAt(at, old_index[at])]
    /\ at' = at + 1
    /\ pc' = "look"
    /\ UNCHANGED <<written, now, old_index, taken, caughtUp, timeVars, sentVars, caller, transmit_now, diff, lapped>>

InputsDone ==
    /\ pc = "look" /\ at \notin Input
    /\ pc' = AfterInputs(transmit_now)
    /\ UNCHANGED <<written, now, inputVars, timeVars, sentVars, callVars, lapped>>

Publication(n) == [stNum |-> n, values |-> element]

(* Mutant: the state number is only increased for the chain's calls. *)
PublishChangeSameState ==
    /\ pc = "publish"
    /\ stNum' = IF caller = "chain" THEN stNum + 1 ELSE stNum
    /\ interval' = Fast
    /\ transmit_deadline' = transmit_deadline + Fast \div 2
    /\ sent' = [at |-> now, by |-> "change"]
    /\ publications' = publications \cup {Publication(stNum')}
    /\ pc' = "out"
    /\ UNCHANGED <<written, now, inputVars, callVars, lapped>>

(* A change is published at once, under a new stNum; the time of the next  *)
(* retransmission is counted from the deadline there was, not from now.    *)
PublishChange ==
    /\ pc = "publish"
    /\ stNum' = stNum + 1
    /\ interval' = Fast
    /\ transmit_deadline' = transmit_deadline + Fast \div 2
    /\ sent' = [at |-> now, by |-> "change"]
    /\ publications' = publications \cup {Publication(stNum')}
    /\ pc' = "out"
    /\ UNCHANGED <<written, now, inputVars, callVars, lapped>>

(* Mutant: the deadline is a whole interval later. *)
SlowerFull ==
    /\ interval' = IF 2 * interval > Ttl THEN Ttl ELSE 2 * interval
    /\ transmit_deadline' = transmit_deadline + interval'

(* The interval is doubled, up to ttl. *)
Slower ==
    /\ interval' = IF 2 * interval > Ttl THEN Ttl ELSE 2 * interval
    /\ transmit_deadline' = transmit_deadline + interval' \div 2

(* run() after an event() without change: retransmit if it is time to. *)
Retransmit ==
    /\ pc = "check" /\ now >= transmit_deadline
    /\ Slower
    /\ sent' = [at |-> now, by |-> "retransmit"]
    /\ publications' = publications \cup {Publication(stNum)}
    /\ pc' = "out"
    /\ UNCHANGED <<written, now, inputVars, stNum, callVars, lapped>>

NotDue ==
    /\ pc = "check" /\ now < transmit_deadline
    /\ pc' = "out"
    /\ UNCHANGED <<written, now, inputVars, timeVars, sentVars, callVars, lapped>>

Publisher == \/ Call \/ LookNoUpdate \/ LookUpdate \/ UpdateElement \/ InputsDone
             \/ PublishChange \/ Retransmit \/ NotDue

Next == Write \/ Tick \/ Publisher

Spec == Init /\ [][Next]_vars

(* The engine calls run() in every round. *)
FairSpec == Spec /\ WF_vars(Publisher)

-----------------------------------------------------------------------------

(* What a subscriber relies on when it drops a GOOSE whose stNum it has    *)
(* seen: publications under one stNum carry the same data set.             *)
StNumNamesState == \A p, q \in publications : p.stNum = q.stNum => p.values = q.values

(* Once an input has been caught up with, its element never goes back to   *)
(* an older item, jumps and wraps and overtaking writers included.         *)
NeverBackwards == [][\A i \in Input : caughtUp[i] => element'[i] >= element[i]]_vars

(* An update leaves the publisher less than MAX_LAG items behind, or not   *)
(* behind at all, unless the ring was lapped: "if we start lagging more    *)
(* then MAX_LAG items, make a jump to the most recent value".              *)
LagIsBounded ==
    [][\A i \in Input : taken'[i] # taken[i] /\ ~lapped =>
          written[i] - taken'[i] < MaxLag \/ written[i] = taken'[i]]_vars

(* When the writers stop, every element becomes the last item written,     *)
(* unless a whole ring was written between two looks.                      *)
CatchesUp == <>[](lapped \/ \A i \in Input : element[i] = written[i])

(* "schedule for half the ttl time": after a retransmission the next is    *)
(* due before half the announced time to live is over.                     *)
RetransmitsInTime ==
    sent.by = "retransmit" => transmit_deadline <= sent.at + interval \div 2

(* The same of every publication. *)
ScheduledForHalfTtl ==
    sent.by # "none" => transmit_deadline <= sent.at + interval \div 2
=============================================================================
