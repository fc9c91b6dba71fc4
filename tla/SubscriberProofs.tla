-------------------------- MODULE SubscriberProofs --------------------------
(***************************************************************************)
(* Proofs about the receiving modules: what the ring and its index hold at *)
(* any moment of the listener, for every ring that one byte can index.     *)
(***************************************************************************)
EXTENDS Subscriber, RingArithmetic, TLAPS

USE SubscriberAssumption

LEMMA Constants == Entries \in Nat \ {0} /\ ByteRange \in Nat \ {0} /\ Words \in Nat \ {0}
  OBVIOUS

LEMMA IndexByte == ASSUME NEW s \in Slot PROVE s % ByteRange \in Slot
<1>1. s \in Nat /\ s % ByteRange \in 0 .. ByteRange - 1 /\ s % ByteRange <= s
  BY Constants, SMT DEF Slot
<1>. QED
  BY <1>1, Constants DEF Slot

LEMMA SlotAfter == ASSUME NEW s \in Slot PROVE (s + 1) % Entries \in Slot
<1>1. s + 1 \in Nat
  BY Constants DEF Slot
<1>. QED
  BY <1>1, Constants, SlotAndLap DEF Slot

(* The remote side counts stNum with its versions, and the listener leaves *)
(* its loop with the last word.                                            *)
InStep == remote.stNum = remote.version /\ (pc = "store" => word <= Words)

LEMMA TypeInit == SubInit => SubTypeOK /\ InStep
  BY Constants DEF SubInit, SubTypeOK, InStep, Slot

LEMMA TypeStep == SubTypeOK /\ InStep /\ [SubNext]_subVars => SubTypeOK' /\ InStep'
<1>. SUFFICES ASSUME SubTypeOK, InStep, [SubNext]_subVars PROVE SubTypeOK' /\ InStep'
  OBVIOUS
<1>. USE DEF SubTypeOK, InStep, ringVars, remoteVars
<1>1. CASE RemoteChange
  <2>1. remote' \in [version : 1 .. MaxVersions, stNum : 1 .. MaxVersions] /\ remote'.stNum = remote'.version
    BY <1>1 DEF RemoteChange
  <2>2. PICK fits \in BOOLEAN :
           wire' = Append(wire, [version |-> remote'.version, stNum |-> remote'.stNum, fits |-> fits])
    BY <1>1 DEF RemoteChange
  <2>3. [version |-> remote'.version, stNum |-> remote'.stNum, fits |-> fits] \in Packet
    BY <2>1 DEF Packet
  <2>4. wire' \in Seq(Packet) /\ Len(wire') = Len(wire) + 1
    BY <2>2, <2>3
  <2>. QED BY <1>1, <2>1, <2>4 DEF RemoteChange
<1>2. CASE Retransmit
  <2>1. [version |-> remote.version, stNum |-> remote.stNum, fits |-> TRUE] \in Packet
    BY <1>2 DEF Retransmit, Packet
  <2>2. wire' \in Seq(Packet) /\ Len(wire') = Len(wire) + 1
    BY <1>2, <2>1 DEF Retransmit
  <2>. QED BY <1>2, <2>2 DEF Retransmit
<1>3. CASE Lose
  BY <1>3 DEF Lose
<1>4. CASE SkipPacket
  BY <1>4 DEF SkipPacket
<1>5. CASE TakePacket
  <2>1. Head(wire) \in Packet
    BY <1>5 DEF TakePacket
  <2>2. Head(wire).version \in 1 .. MaxVersions /\ Head(wire).stNum \in 1 .. MaxVersions
    BY <2>1 DEF Packet
  <2>3. buffer_index' \in Slot
    BY <1>5, SlotAfter DEF TakePacket
  <2>4. accepted' \in Seq(1 .. MaxVersions)
    BY <1>5, <2>2 DEF TakePacket
  <2>5. wire' \in Seq(Packet) /\ Len(wire') <= MaxWire
    BY <1>5 DEF TakePacket
  <2>6. old_stNum' \in 0 .. MaxVersions /\ packet' \in 0 .. MaxVersions
    BY <1>5, <2>2 DEF TakePacket
  <2>7. word' \in 1 .. Words + 1 /\ word' <= Words
    BY <1>5, Constants DEF TakePacket
  <2>. QED BY <1>5, <2>3, <2>4, <2>5, <2>6, <2>7 DEF TakePacket
<1>6. CASE StoreWord
  <2>1. slots' \in [Slot -> [1 .. Words -> 0 .. MaxVersions]]
    BY <1>6 DEF StoreWord
  <2>2. word' \in 1 .. Words + 1 /\ (word # Words => word' <= Words)
    BY <1>6, Constants DEF StoreWord
  <2>. QED BY <1>6, <2>1, <2>2 DEF StoreWord
<1>7. CASE PublishIndex
  BY <1>7, IndexByte DEF PublishIndex
<1>8. CASE CallbackReturns
  BY <1>8 DEF CallbackReturns
<1>9. CASE UNCHANGED subVars
  BY <1>9 DEF subVars
<1>. QED
  BY <1>1, <1>2, <1>3, <1>4, <1>5, <1>6, <1>7, <1>8, <1>9 DEF SubNext, Remote, Receive, Listener

LEMMA TypeInvariant == SubSpec => [](SubTypeOK /\ InStep)
  BY TypeInit, TypeStep, PTL DEF SubSpec

(* Every variable of the receiving module keeps its type; the published    *)
(* index names a slot even where its byte cannot count them all.           *)
THEOREM SubTypeCorrect == SubSpec => []SubTypeOK
  BY TypeInvariant, PTL

-----------------------------------------------------------------------------
(* The ring. *)

(* Where the listener is with the packet accepted last.                    *)
Handling ==
    /\ accepted = <<>> => buffer_index = Entries - 1 /\ pc = "tick"
    /\ accepted # <<>> => buffer_index = SlotOf(Len(accepted))
    /\ pc # "tick" => packet = accepted[Len(accepted)]
    /\ pc = "store" => \A w \in 1 .. Words : w < word => slots[buffer_index][w] = packet
    /\ pc = "index" => Whole(buffer_index, packet)

(* The index names the slot of the last packet finished.                   *)
IndexNamesLast == Finished > 0 => index = SlotOf(Finished)

RingInv == Handling /\ IndexNamesLast /\ RingKeepsLatest

LEMMA Slots == ASSUME NEW n \in Nat \ {0} PROVE SlotOf(n) \in Slot
  BY Constants, SlotAndLap DEF SlotOf, Slot

LEMMA Distinct ==
  ASSUME NEW n \in Nat \ {0}, NEW k \in Nat, n < k, k < n + Entries
  PROVE  SlotOf(n) # SlotOf(k)
<1>1. n - 1 \in Nat /\ k - 1 \in Nat /\ n - 1 < k - 1 /\ k - 1 < (n - 1) + Entries
  BY Constants
<1>. QED
  BY <1>1, Constants, SlotsDiffer DEF SlotOf

LEMMA Advance ==
  ASSUME NEW n \in Nat
  PROVE  /\ n = 0 => ((Entries - 1) + 1) % Entries = SlotOf(n + 1)
         /\ n > 0 => (SlotOf(n) + 1) % Entries = SlotOf(n + 1)
<1>1. ((Entries - 1) + 1) % Entries = 0 /\ 0 % Entries = 0
  BY Constants, SMT
<1>2. ASSUME n > 0 PROVE (SlotOf(n) + 1) % Entries = SlotOf(n + 1)
  <2>. DEFINE r == (n - 1) % Entries
  <2>1. n - 1 \in Nat /\ r \in 0 .. Entries - 1
    BY <1>2, Constants, SlotAndLap
  <2>2. r % Entries = r
    BY <2>1, Constants, SMT
  <2>3. (r + 1) % Entries = IF r = Entries - 1 THEN 0 ELSE r + 1
    <3>1. r \in Nat
      BY <2>1, Constants
    <3>. HIDE DEF r
    <3>2. (r + 1) % Entries = IF r % Entries = Entries - 1 THEN 0 ELSE (r % Entries) + 1
      BY <3>1, Constants, NextSlot
    <3>. QED BY <3>2, <2>2
  <2>4. ((n - 1) + 1) % Entries = IF r = Entries - 1 THEN 0 ELSE r + 1
    BY <2>1, Constants, NextSlot
  <2>5. (n - 1) + 1 = n /\ (n + 1) - 1 = n
    OBVIOUS
  <2>. QED BY <2>3, <2>4, <2>5 DEF SlotOf
<1>. QED
  BY <1>1, <1>2 DEF SlotOf

LEMMA RingInit == SubInit => RingInv
  BY DEF SubInit, RingInv, Handling, IndexNamesLast, RingKeepsLatest, Finished

(* A step of the listener, for a ring whose slots one byte can count.      *)
LEMMA RingStep ==
  ASSUME Entries <= ByteRange, SubTypeOK, InStep, RingInv, [SubNext]_subVars
  PROVE  RingInv'
<1>. USE DEF RingInv
<1>0. Len(accepted) \in Nat /\ (accepted # <<>> => Len(accepted) > 0)
  BY DEF SubTypeOK
<1>1. CASE UNCHANGED <<buffer_index, slots, index, pc, packet, word, accepted>>
  BY <1>1 DEF Handling, IndexNamesLast, RingKeepsLatest, Finished, Whole
<1>2. CASE TakePacket
  <2>1. /\ pc = "tick" /\ pc' = "store" /\ word' = 1 /\ UNCHANGED <<slots, index>>
        /\ buffer_index' = (buffer_index + 1) % Entries
    BY <1>2 DEF TakePacket
  <2>2. /\ Len(accepted') = Len(accepted) + 1 /\ accepted' # <<>>
        /\ accepted'[Len(accepted')] = packet'
        /\ \A n \in 1 .. Len(accepted) : accepted'[n] = accepted[n]
    <3>. DEFINE v == Head(wire).version
    <3>1. Head(wire) \in Packet
      BY <1>2 DEF TakePacket, SubTypeOK
    <3>2. v \in 1 .. MaxVersions
      BY <3>1 DEF Packet
    <3>3. accepted' = Append(accepted, v) /\ packet' = v
      BY <1>2 DEF TakePacket
    <3>4. accepted \in Seq(1 .. MaxVersions)
      BY DEF SubTypeOK
    <3>. HIDE DEF v
    <3>5. /\ Len(Append(accepted, v)) = Len(accepted) + 1
          /\ Append(accepted, v)[Len(accepted) + 1] = v
          /\ \A n \in 1 .. Len(accepted) : Append(accepted, v)[n] = accepted[n]
      BY <3>2, <3>4
    <3>6. Append(accepted, v) # <<>>
      BY <1>0, <3>5
    <3>. QED BY <3>3, <3>5, <3>6
  <2>3. buffer_index' = SlotOf(Len(accepted'))
    BY <1>0, <2>1, <2>2, Advance DEF Handling
  <2>4. Handling'
    BY <2>1, <2>2, <2>3, Constants DEF Handling
  <2>5. Finished' = Finished /\ Finished = Len(accepted)
    BY <1>0, <2>1, <2>2 DEF Finished
  <2>6. IndexNamesLast'
    BY <2>1, <2>5 DEF IndexNamesLast, SlotOf
  <2>7. ASSUME NEW n \in 1 .. Finished', n + Entries > Len(accepted') PROVE Whole(SlotOf(n), accepted[n])
    <3>1. n \in 1 .. Finished /\ n + Entries > Len(accepted)
      BY <1>0, <2>2, <2>5, <2>7, Constants
    <3>. QED BY <3>1 DEF RingKeepsLatest
  <2>8. \A n \in 1 .. Finished' : accepted'[n] = accepted[n]
    BY <2>2, <2>5
  <2>9. RingKeepsLatest'
    BY <2>1, <2>7, <2>8 DEF RingKeepsLatest, Whole, SlotOf
  <2>. QED BY <2>4, <2>6, <2>9
<1>3. CASE StoreWord
  <2>1. /\ pc = "store" /\ UNCHANGED <<buffer_index, index, packet, accepted>>
        /\ word' = word + 1 /\ pc' = IF word = Words THEN "index" ELSE "store"
        /\ slots' = [slots EXCEPT ![buffer_index][word] = packet]
    BY <1>3 DEF StoreWord, remoteVars
  <2>2. /\ accepted # <<>> /\ buffer_index = SlotOf(Len(accepted)) /\ buffer_index \in Slot
        /\ word \in 1 .. Words
    BY <2>1, Constants DEF Handling, InStep, SubTypeOK
  <2>3. \A w \in 1 .. Words : slots'[buffer_index][w] = IF w = word THEN packet ELSE slots[buffer_index][w]
    BY <2>1, <2>2 DEF SubTypeOK
  <2>4. \A w \in 1 .. Words : w <= word => slots'[buffer_index][w] = packet
    BY <2>1, <2>2, <2>3, Constants DEF Handling
  <2>5. Handling'
    BY <2>1, <2>2, <2>4, Constants DEF Handling, Whole
  <2>6. Finished' = Finished /\ Finished = Len(accepted) - 1
    BY <2>1 DEF Finished
  <2>7. IndexNamesLast'
    BY <2>1, <2>6 DEF IndexNamesLast, SlotOf
  <2>8. ASSUME NEW n \in 1 .. Finished, n + Entries > Len(accepted) PROVE slots'[SlotOf(n)] = slots[SlotOf(n)]
    <3>1. n \in Nat \ {0} /\ n < Len(accepted) /\ Len(accepted) < n + Entries
      BY <1>0, <2>6, <2>8, Constants
    <3>2. SlotOf(n) # buffer_index /\ SlotOf(n) \in Slot
      BY <1>0, <2>2, <3>1, Distinct, Slots
    <3>. QED BY <2>1, <2>2, <3>2 DEF SubTypeOK
  <2>9. RingKeepsLatest'
    BY <2>1, <2>6, <2>8 DEF RingKeepsLatest, Whole, SlotOf
  <2>. QED BY <2>5, <2>7, <2>9
<1>4. CASE PublishIndex
  <2>1. /\ pc = "index" /\ pc' = "callback" /\ UNCHANGED <<buffer_index, slots, packet, accepted>>
        /\ index' = buffer_index % ByteRange
    BY <1>4 DEF PublishIndex, remoteVars
  <2>2. accepted # <<>> /\ buffer_index = SlotOf(Len(accepted)) /\ packet = accepted[Len(accepted)]
    BY <2>1 DEF Handling
  <2>3. buffer_index \in 0 .. Entries - 1
    BY DEF SubTypeOK, Slot
  <2>4. buffer_index % ByteRange = buffer_index
    BY <2>3, Constants, SMT
  <2>5. Finished' = Len(accepted) /\ Finished = Len(accepted) - 1
    BY <2>1 DEF Finished
  <2>6. Handling'
    BY <2>1 DEF Handling
  <2>7. IndexNamesLast'
    BY <2>1, <2>2, <2>4, <2>5 DEF IndexNamesLast, SlotOf
  <2>8. Whole(SlotOf(Len(accepted)), accepted[Len(accepted)])
    BY <2>1, <2>2 DEF Handling
  <2>9. \A n \in 1 .. Len(accepted) : n + Entries > Len(accepted) => Whole(SlotOf(n), accepted[n])
    BY <1>0, <2>5, <2>8 DEF RingKeepsLatest
  <2>10. RingKeepsLatest'
    BY <2>1, <2>5, <2>9 DEF RingKeepsLatest, Whole, SlotOf
  <2>. QED BY <2>6, <2>7, <2>10
<1>5. CASE CallbackReturns
  <2>1. pc = "callback" /\ pc' = "tick" /\ UNCHANGED <<buffer_index, slots, index, packet, accepted>>
    BY <1>5 DEF CallbackReturns, remoteVars, ringVars
  <2>2. Finished' = Finished /\ accepted # <<>>
    BY <2>1 DEF Finished, Handling
  <2>. QED BY <2>1, <2>2 DEF Handling, IndexNamesLast, RingKeepsLatest, Whole, SlotOf
<1>6. RemoteChange \/ Retransmit \/ Lose \/ SkipPacket \/ UNCHANGED subVars =>
        UNCHANGED <<buffer_index, slots, index, pc, packet, word, accepted>>
  BY DEF RemoteChange, Retransmit, Lose, SkipPacket, subVars
<1>. QED
  BY <1>1, <1>2, <1>3, <1>4, <1>5, <1>6 DEF SubNext, Remote, Receive, Listener

LEMMA RingInvariant == ASSUME Entries <= ByteRange PROVE SubSpec => []RingInv
<1>1. SubTypeOK /\ InStep /\ RingInv /\ [SubNext]_subVars => RingInv'
  BY RingStep
<1>. QED
  BY RingInit, TypeInvariant, <1>1, PTL DEF SubSpec

(* The listener overwrites only the oldest item: between any two of its    *)
(* stores the ring holds the last Entries packets, whole and in order.     *)
THEOREM RingKeepsPackets == ASSUME Entries <= ByteRange PROVE SubSpec => []RingKeepsLatest
  BY RingInvariant, PTL DEF RingInv

(* As long as one byte counts the slots, the index names the newest whole  *)
(* item, however many packets are lost or repeated.                        *)
THEOREM IndexNamesNewest == ASSUME Entries <= ByteRange PROVE SubSpec => []PublishedIsNewest
<1>1. SubTypeOK /\ RingInv => PublishedIsNewest
  <2>. SUFFICES ASSUME SubTypeOK, RingInv, Finished > 0 
                PROVE  /\ index = SlotOf(Finished)
                       /\ Entries > 1 \/ pc \in {"tick", "callback"} => Whole(index, accepted[Finished])
    BY DEF PublishedIsNewest
  <2>1. Len(accepted) \in Nat
    BY DEF SubTypeOK
  <2>2. Finished \in Nat /\ Finished \in 1 .. Finished
    BY <2>1 DEF Finished
  <2>3. Entries > 1 \/ pc \in {"tick", "callback"} => Finished + Entries > Len(accepted)
    BY <2>1, Constants DEF Finished, SubTypeOK
  <2>. QED BY <2>2, <2>3 DEF RingInv, IndexNamesLast, RingKeepsLatest
<1>. QED
  BY <1>1, TypeInvariant, RingInvariant, PTL

-----------------------------------------------------------------------------
(* The order of the packets. *)

LastAccepted == IF accepted = <<>> THEN 0 ELSE accepted[Len(accepted)]

(* How versions follow each other on the wire: a sample is never sent      *)
(* twice, a GOOSE state may be.                                            *)
Before(v, w) == IF Kind = "SMV" THEN v < w ELSE v <= w

WireInOrder ==
    /\ \A i \in 1 .. Len(wire) : /\ wire[i].stNum = wire[i].version
                                 /\ wire[i].version <= remote.version
                                 /\ Before(LastAccepted, wire[i].version)
    /\ \A i, j \in 1 .. Len(wire) : i < j => Before(wire[i].version, wire[j].version)

OrderInv ==
    /\ WireInOrder
    /\ LastAccepted <= remote.version
    /\ Kind = "GOOSE" => old_stNum = LastAccepted
    /\ StoredInOrder

LEMMA OrderInit == SubInit => OrderInv
  BY DEF SubInit, OrderInv, WireInOrder, LastAccepted, StoredInOrder

LEMMA LastTyped == SubTypeOK => LastAccepted \in 0 .. MaxVersions
  BY DEF SubTypeOK, LastAccepted

LEMMA PacketsTyped ==
  ASSUME SubTypeOK
  PROVE  \A i \in 1 .. Len(wire) : wire[i].version \in 1 .. MaxVersions /\ wire[i].stNum \in 1 .. MaxVersions
<1>1. \A i \in 1 .. Len(wire) : wire[i] \in Packet
  BY DEF SubTypeOK
<1>. QED
  BY <1>1 DEF Packet

(* A packet that comes after all others may be put on the wire.            *)
LEMMA Sent ==
  ASSUME SubTypeOK, OrderInv, NEW p \in Packet,
         p.stNum = p.version, p.version <= remote'.version, remote'.version \in Nat,
         remote.version <= remote'.version,
         Before(remote.version, p.version),
         wire' = Append(wire, p),
         UNCHANGED <<accepted, old_stNum>>
  PROVE  OrderInv'
<1>. DEFINE n == Len(wire)
<1>1. /\ n \in Nat /\ Len(wire') = n + 1 /\ wire'[n + 1] = p
      /\ \A i \in 1 .. n : wire'[i] = wire[i]
  BY DEF SubTypeOK
<1>2. LastAccepted' = LastAccepted /\ StoredInOrder' /\ LastAccepted \in Nat
  BY LastTyped DEF OrderInv, LastAccepted, StoredInOrder
<1>3. p.version \in Nat /\ remote.version \in Nat
  BY DEF Packet, SubTypeOK
<1>4. /\ \A i \in 1 .. n : /\ wire[i].version \in Nat /\ wire[i].stNum = wire[i].version
                           /\ wire[i].version <= remote.version
                           /\ Before(LastAccepted, wire[i].version)
      /\ \A i, j \in 1 .. n : i < j => Before(wire[i].version, wire[j].version)
      /\ LastAccepted <= remote.version
  BY PacketsTyped DEF OrderInv, WireInOrder
<1>. HIDE DEF n
<1>5. \A i \in 1 .. n + 1 : i \in 1 .. n \/ i = n + 1
  BY <1>1
<1>6. Before(LastAccepted, p.version)
  BY <1>2, <1>3, <1>4 DEF Before
<1>7. \A i \in 1 .. n : Before(wire[i].version, p.version) /\ wire[i].version <= remote'.version
  BY <1>3, <1>4 DEF Before
<1>8. ASSUME NEW i \in 1 .. n + 1
      PROVE  /\ wire'[i].stNum = wire'[i].version
             /\ wire'[i].version <= remote'.version
             /\ Before(LastAccepted, wire'[i].version)
  <2>1. CASE i \in 1 .. n
    <3>1. wire'[i] = wire[i]
      BY <1>1, <2>1
    <3>. QED BY <3>1, <1>4, <1>7, <2>1
  <2>2. CASE i = n + 1
    BY <1>1, <1>6, <2>2
  <2>. QED BY <1>5, <2>1, <2>2
<1>9. ASSUME NEW i \in 1 .. n + 1, NEW j \in 1 .. n + 1, i < j
      PROVE  Before(wire'[i].version, wire'[j].version)
  <2>1. i \in 1 .. n /\ wire'[i] = wire[i]
    BY <1>1, <1>9
  <2>2. CASE j \in 1 .. n
    <3>1. wire'[j] = wire[j]
      BY <1>1, <2>2
    <3>. QED BY <2>1, <2>2, <3>1, <1>4, <1>9
  <2>3. CASE j = n + 1
    BY <1>1, <1>7, <2>1, <2>3
  <2>. QED BY <1>5, <2>2, <2>3
<1>10. WireInOrder'
  BY <1>1, <1>2, <1>8, <1>9 DEF WireInOrder, Before
<1>11. LastAccepted' <= remote'.version
  BY <1>2, <1>3, <1>4
<1>. QED
  BY <1>2, <1>10, <1>11 DEF OrderInv

(* What is behind the head keeps its order when the head leaves.           *)
LEMMA HeadLeaves ==
  ASSUME SubTypeOK, OrderInv, wire # <<>>, wire' = Tail(wire), UNCHANGED remote
  PROVE  /\ \A i \in 1 .. Len(wire') : /\ wire'[i].stNum = wire'[i].version
                                       /\ wire'[i].version <= remote'.version
                                       /\ Before(LastAccepted, wire'[i].version)
                                       /\ Before(Head(wire).version, wire'[i].version)
         /\ \A i, j \in 1 .. Len(wire') : i < j => Before(wire'[i].version, wire'[j].version)
         /\ Head(wire) = wire[1] /\ 1 \in 1 .. Len(wire)
<1>1. /\ Len(wire) \in Nat /\ Len(wire) > 0 /\ Len(wire') = Len(wire) - 1
      /\ \A i \in 1 .. Len(wire') : wire'[i] = wire[i + 1]
      /\ Head(wire) = wire[1]
  BY DEF SubTypeOK
<1>2. \A i \in 1 .. Len(wire') : i + 1 \in 1 .. Len(wire) /\ 1 < i + 1
  BY <1>1
<1>3. 1 \in 1 .. Len(wire)
  BY <1>1
<1>4. ASSUME NEW i \in 1 .. Len(wire')
      PROVE  /\ wire'[i].stNum = wire'[i].version
             /\ wire'[i].version <= remote'.version
             /\ Before(LastAccepted, wire'[i].version)
             /\ Before(Head(wire).version, wire'[i].version)
  <2>1. wire'[i] = wire[i + 1] /\ i + 1 \in 1 .. Len(wire) /\ 1 < i + 1
    BY <1>1, <1>2
  <2>. QED BY <2>1, <1>1, <1>3 DEF OrderInv, WireInOrder
<1>5. ASSUME NEW i \in 1 .. Len(wire'), NEW j \in 1 .. Len(wire'), i < j
      PROVE  Before(wire'[i].version, wire'[j].version)
  <2>1. /\ wire'[i] = wire[i + 1] /\ i + 1 \in 1 .. Len(wire)
        /\ wire'[j] = wire[j + 1] /\ j + 1 \in 1 .. Len(wire)
    BY <1>1, <1>2
  <2>2. i + 1 < j + 1
    BY <1>1, <1>5
  <2>. QED BY <2>1, <2>2 DEF OrderInv, WireInOrder
<1>. QED
  BY <1>1, <1>3, <1>4, <1>5

LEMMA OrderStep ==
  ASSUME SubTypeOK, InStep, OrderInv, [SubNext]_subVars
  PROVE  OrderInv'
<1>0. /\ LastAccepted \in Nat /\ remote.version \in Nat /\ remote.stNum = remote.version
      /\ LastAccepted <= remote.version
  BY LastTyped DEF SubTypeOK, InStep, OrderInv
<1>1. CASE RemoteChange
  <2>1. PICK fits \in BOOLEAN :
           wire' = Append(wire, [version |-> remote'.version, stNum |-> remote'.stNum, fits |-> fits])
    BY <1>1 DEF RemoteChange
  <2>. DEFINE p == [version |-> remote'.version, stNum |-> remote'.stNum, fits |-> fits]
  <2>2. /\ remote'.version = remote.version + 1 /\ remote'.stNum = remote'.version
        /\ remote.version < MaxVersions /\ UNCHANGED <<accepted, old_stNum>>
    BY <1>0, <1>1 DEF RemoteChange
  <2>3. p \in Packet /\ p.stNum = p.version /\ p.version = remote.version + 1
    BY <1>0, <2>2 DEF Packet
  <2>4. Before(remote.version, p.version) /\ wire' = Append(wire, p)
    BY <1>0, <2>1, <2>3 DEF Before
  <2>. HIDE DEF p
  <2>5. p.version <= remote'.version /\ remote'.version \in Nat /\ remote.version <= remote'.version
    BY <1>0, <2>2, <2>3
  <2>. QED BY <2>2, <2>3, <2>4, <2>5, Sent
<1>2. CASE Retransmit
  <2>. DEFINE p == [version |-> remote.version, stNum |-> remote.stNum, fits |-> TRUE]
  <2>1. /\ Kind = "GOOSE" /\ remote.version > 0 /\ wire' = Append(wire, p)
        /\ UNCHANGED <<remote, accepted, old_stNum>>
    BY <1>2 DEF Retransmit
  <2>2. p \in Packet /\ p.stNum = p.version /\ p.version = remote.version
    BY <1>0, <2>1 DEF Packet, SubTypeOK
  <2>. HIDE DEF p
  <2>3. /\ Before(remote.version, p.version)
        /\ p.version <= remote'.version /\ remote'.version \in Nat /\ remote.version <= remote'.version
    BY <1>0, <2>1, <2>2 DEF Before
  <2>. QED BY <2>1, <2>2, <2>3, Sent
<1>3. CASE Lose \/ SkipPacket
  <2>1. wire # <<>> /\ wire' = Tail(wire) /\ UNCHANGED <<remote, accepted, old_stNum>>
    BY <1>3 DEF Lose, SkipPacket
  <2>2. WireInOrder'
    BY <2>1, HeadLeaves DEF WireInOrder, LastAccepted, Before
  <2>. QED BY <2>1, <2>2 DEF OrderInv, LastAccepted, StoredInOrder
<1>4. CASE TakePacket
  <2>. DEFINE v == Head(wire).version
  <2>1. /\ wire # <<>> /\ wire' = Tail(wire) /\ UNCHANGED remote /\ accepted' = Append(accepted, v)
        /\ IsNew(Head(wire)) /\ old_stNum' = IF Kind = "GOOSE" THEN Head(wire).stNum ELSE old_stNum
    BY <1>4 DEF TakePacket, remoteVars
  <2>2. Head(wire) = wire[1] /\ 1 \in 1 .. Len(wire)
    BY <2>1, HeadLeaves
  <2>3. /\ v \in 1 .. MaxVersions /\ Head(wire).stNum = v
        /\ v <= remote.version /\ Before(LastAccepted, v)
    BY <2>2, PacketsTyped DEF OrderInv, WireInOrder
  <2>4. LastAccepted < v
    <3>1. CASE Kind = "SMV"
      BY <2>3, <3>1 DEF Before
    <3>2. CASE Kind = "GOOSE"
      <4>1. v # LastAccepted
        BY <2>1, <2>3, <3>2 DEF IsNew, OrderInv
      <4>2. LastAccepted <= v
        BY <2>3, <3>2 DEF Before
      <4>. QED BY <1>0, <2>3, <4>1, <4>2
    <3>. QED BY <3>1, <3>2
  <2>5. \A i \in 1 .. Len(wire') : Before(v, wire'[i].version)
    BY <2>1, HeadLeaves
  <2>. HIDE DEF v
  <2>6. accepted \in Seq(1 .. MaxVersions)
    BY DEF SubTypeOK
  <2>7. /\ Len(accepted) \in Nat /\ Len(accepted') = Len(accepted) + 1
        /\ accepted'[Len(accepted) + 1] = v
        /\ \A n \in 1 .. Len(accepted) : accepted'[n] = accepted[n]
    BY <2>1, <2>3, <2>6
  <2>8. LastAccepted' = v
    <3>1. accepted' # <<>>
      BY <2>7
    <3>. QED BY <2>7, <3>1 DEF LastAccepted
  <2>9. StoredInOrder'
    <3>1. ASSUME NEW n \in 1 .. Len(accepted') - 1 PROVE accepted'[n] < accepted'[n + 1]
      <4>1. n \in 1 .. Len(accepted) /\ accepted'[n] = accepted[n]
        BY <2>7
      <4>2. CASE n = Len(accepted)
        <5>1. accepted[n] = LastAccepted
          BY <4>1, <4>2 DEF LastAccepted
        <5>. QED BY <2>4, <2>7, <4>1, <4>2, <5>1
      <4>3. CASE n # Len(accepted)
        <5>1. n \in 1 .. Len(accepted) - 1 /\ n + 1 \in 1 .. Len(accepted)
          BY <2>7, <4>1, <4>3
        <5>2. accepted'[n + 1] = accepted[n + 1]
          BY <2>7, <5>1
        <5>. QED BY <4>1, <5>1, <5>2 DEF OrderInv, StoredInOrder
      <4>. QED BY <4>2, <4>3
    <3>. QED BY <3>1 DEF StoredInOrder
  <2>10. WireInOrder'
    <3>1. \A i \in 1 .. Len(wire') : wire'[i].stNum = wire'[i].version /\ wire'[i].version <= remote'.version
      BY <2>1, HeadLeaves
    <3>2. \A i, j \in 1 .. Len(wire') : i < j => Before(wire'[i].version, wire'[j].version)
      BY <2>1, HeadLeaves
    <3>. QED BY <2>5, <2>8, <3>1, <3>2 DEF WireInOrder, Before
  <2>. QED BY <2>1, <2>3, <2>8, <2>9, <2>10 DEF OrderInv
<1>5. CASE UNCHANGED <<remote, wire, old_stNum, accepted>>
  BY <1>5 DEF OrderInv, WireInOrder, Before, LastAccepted, StoredInOrder
<1>6. Listener \/ UNCHANGED subVars => UNCHANGED <<remote, wire, old_stNum, accepted>>
  BY DEF Listener, StoreWord, PublishIndex, CallbackReturns, remoteVars, subVars
<1>. QED
  BY <1>1, <1>2, <1>3, <1>4, <1>5, <1>6 DEF SubNext, Remote, Receive

LEMMA OrderInvariant == SubSpec => []OrderInv
<1>1. SubTypeOK /\ InStep /\ OrderInv /\ [SubNext]_subVars => OrderInv'
  BY OrderStep
<1>. QED
  BY OrderInit, TypeInvariant, <1>1, PTL DEF SubSpec

(* The stNum filter lets each state of the remote side into the ring once, *)
(* in order, for any number of repetitions, losses and states.             *)
THEOREM StatesStoredInOrder == SubSpec => []StoredInOrder
  BY OrderInvariant, PTL DEF OrderInv

-----------------------------------------------------------------------------
(* The ring file is a channel of states. *)

(* Before the first packet is finished the index names the empty slot 0.   *)
StartsEmpty == Finished = 0 => index = 0 /\ (pc # "index" => slots[0][Words] = 0)

LEMMA ZeroSlot == SlotOf(1) = 0 /\ 0 \in Slot /\ Words \in 1 .. Words
<1>1. 0 % Entries = 0 /\ 1 - 1 = 0
  BY Constants, SMT
<1>. QED
  BY <1>1, Constants DEF SlotOf, Slot

LEMMA EmptyInit == SubInit => StartsEmpty
  BY ZeroSlot DEF SubInit, StartsEmpty

LEMMA EmptyStep ==
  ASSUME Entries <= ByteRange, SubTypeOK, InStep, RingInv, StartsEmpty, [SubNext]_subVars
  PROVE  StartsEmpty'
<1>0. Len(accepted) \in Nat /\ (accepted # <<>> => Len(accepted) > 0)
  BY DEF SubTypeOK
<1>1. CASE UNCHANGED <<slots, index, pc, accepted>>
  BY <1>1 DEF StartsEmpty, Finished
<1>2. CASE TakePacket
  <2>1. pc = "tick" /\ pc' = "store" /\ UNCHANGED <<slots, index>> /\ Len(accepted') = Len(accepted) + 1
    <3>1. Head(wire) \in Packet
      BY <1>2 DEF TakePacket, SubTypeOK
    <3>2. Head(wire).version \in 1 .. MaxVersions
      BY <3>1 DEF Packet
    <3>. QED BY <1>2, <3>2 DEF TakePacket, SubTypeOK
  <2>2. Finished' = Finished
    BY <1>0, <2>1 DEF Finished
  <2>. QED BY <2>1, <2>2 DEF StartsEmpty
<1>3. CASE StoreWord
  <2>1. /\ pc = "store" /\ UNCHANGED <<buffer_index, index, accepted>>
        /\ pc' = IF word = Words THEN "index" ELSE "store"
        /\ slots' = [slots EXCEPT ![buffer_index][word] = packet]
    BY <1>3 DEF StoreWord, remoteVars
  <2>2. Finished' = Finished
    BY <2>1 DEF Finished
  <2>3. ASSUME word # Words PROVE slots'[0][Words] = slots[0][Words]
    <3>1. word \in 1 .. Words /\ buffer_index \in Slot
      BY <2>1, Constants DEF SubTypeOK, InStep
    <3>. QED BY <2>1, <2>3, <3>1, ZeroSlot DEF SubTypeOK
  <2>. QED BY <2>1, <2>2, <2>3 DEF StartsEmpty
<1>4. CASE PublishIndex \/ CallbackReturns
  <2>1. Finished' = Len(accepted) /\ accepted # <<>>
    BY <1>4 DEF PublishIndex, CallbackReturns, Finished, RingInv, Handling
  <2>. QED BY <1>0, <2>1 DEF StartsEmpty
<1>5. RemoteChange \/ Retransmit \/ Lose \/ SkipPacket \/ UNCHANGED subVars =>
        UNCHANGED <<slots, index, pc, accepted>>
  BY DEF RemoteChange, Retransmit, Lose, SkipPacket, subVars
<1>. QED
  BY <1>1, <1>2, <1>3, <1>4, <1>5 DEF SubNext, Remote, Receive, Listener

LEMMA ChannelInit == SubInit => Channel!Init
  BY ZeroSlot DEF SubInit, Channel!Init

(* Each step of the receiving module and of the remote side is a step of   *)
(* the channel or leaves it as it is.                                      *)
LEMMA ChannelStep ==
  ASSUME 1 < Entries, Entries <= ByteRange,
         SubTypeOK, InStep, RingInv, OrderInv, StartsEmpty, [SubNext]_subVars
  PROVE  [Channel!Next]_(Channel!channelVars)
<1>0. /\ Len(accepted) \in Nat /\ (accepted # <<>> => Len(accepted) > 0)
      /\ remote.version \in Nat
  BY DEF SubTypeOK
<1>1. CASE UNCHANGED <<remote, slots, index>>
  BY <1>1 DEF Channel!channelVars
<1>2. CASE RemoteChange
  <2>1. remote'.version = remote.version + 1 /\ UNCHANGED <<slots, index>>
    BY <1>0, <1>2 DEF RemoteChange
  <2>. QED BY <2>1 DEF Channel!Next, Channel!Make
<1>3. CASE StoreWord
  <2>1. /\ pc = "store" /\ UNCHANGED <<remote, index>>
        /\ slots' = [slots EXCEPT ![buffer_index][word] = packet]
        /\ word \in 1 .. Words /\ buffer_index \in Slot
    BY <1>3, Constants DEF StoreWord, remoteVars, SubTypeOK, InStep
  <2>2. /\ accepted # <<>> /\ buffer_index = SlotOf(Len(accepted))
        /\ packet = accepted[Len(accepted)] /\ Finished = Len(accepted) - 1
    BY <2>1 DEF RingInv, Handling, Finished
  <2>3. CASE Finished = 0
    <3>1. buffer_index = 0 /\ index = 0 /\ slots[index][Words] = 0
      <4>1. Len(accepted) = 1
        BY <1>0, <2>2, <2>3
      <4>2. buffer_index = 0
        BY <2>2, <4>1, ZeroSlot
      <4>3. index = 0 /\ slots[0][Words] = 0
        BY <2>1, <2>3 DEF StartsEmpty
      <4>. QED BY <4>2, <4>3
    <3>2. packet \in 1 .. remote.version
      <4>1. packet = LastAccepted
        BY <2>2 DEF LastAccepted
      <4>2. Len(accepted) \in 1 .. Len(accepted)
        BY <1>0, <2>2
      <4>3. accepted[Len(accepted)] \in 1 .. MaxVersions
        BY <4>2 DEF SubTypeOK
      <4>. QED BY <1>0, <2>2, <4>1, <4>3 DEF OrderInv
    <3>3. slots'[index'][Words] = IF word = Words THEN packet ELSE 0
      BY <2>1, <3>1, ZeroSlot DEF SubTypeOK
    <3>. QED BY <1>0, <2>1, <3>1, <3>2, <3>3 DEF Channel!Next, Channel!Show, Channel!channelVars
  <2>4. CASE Finished # 0
    <3>1. Finished \in Nat \ {0} /\ Finished < Len(accepted) /\ Len(accepted) < Finished + Entries
      BY <1>0, <2>2, <2>4, Constants
    <3>2. index # buffer_index /\ index \in Slot
      <4>1. index = SlotOf(Finished)
        BY <3>1 DEF RingInv, IndexNamesLast
      <4>2. SlotOf(Finished) # SlotOf(Len(accepted))
        BY <1>0, <3>1, Distinct
      <4>3. index \in Slot
        BY DEF SubTypeOK
      <4>. QED BY <2>2, <4>1, <4>2, <4>3
    <3>3. slots'[index'] = slots[index]
      BY <2>1, <3>2 DEF SubTypeOK
    <3>. QED BY <2>1, <3>3 DEF Channel!channelVars
  <2>. QED BY <2>3, <2>4
<1>4. CASE PublishIndex
  <2>1. /\ pc = "index" /\ UNCHANGED <<remote, slots>>
        /\ index' = buffer_index % ByteRange /\ buffer_index \in 0 .. Entries - 1
    BY <1>4 DEF PublishIndex, remoteVars, SubTypeOK, Slot
  <2>2. /\ accepted # <<>> /\ buffer_index = SlotOf(Len(accepted)) /\ Whole(buffer_index, packet)
        /\ packet = accepted[Len(accepted)] /\ Finished = Len(accepted) - 1
    BY <2>1 DEF RingInv, Handling, Finished
  <2>3. index' = buffer_index
    <3>1. buffer_index % ByteRange = buffer_index
      BY <2>1, Constants, SMT
    <3>. QED BY <2>1, <3>1
  <2>4. slots'[index'][Words] = packet
    BY <2>1, <2>2, <2>3, ZeroSlot DEF Whole
  <2>5. CASE Finished = 0
    <3>1. buffer_index = 0 /\ index = 0
      <4>1. Len(accepted) = 1
        BY <1>0, <2>2, <2>5
      <4>. QED BY <2>2, <2>5, <4>1, ZeroSlot DEF StartsEmpty
    <3>. QED BY <2>1, <2>3, <3>1 DEF Channel!channelVars
  <2>6. CASE Finished # 0
    <3>1. Finished \in 1 .. Finished /\ Finished + Entries > Len(accepted) /\ Finished > 0
      BY <1>0, <2>2, <2>6, Constants
    <3>2. slots[index][Words] = accepted[Finished]
      <4>1. Whole(SlotOf(Finished), accepted[Finished]) /\ index = SlotOf(Finished)
        BY <3>1 DEF RingInv, RingKeepsLatest, IndexNamesLast
      <4>. QED BY <4>1, ZeroSlot DEF Whole
    <3>3. accepted[Finished] < packet
      <4>1. Finished \in 1 .. Len(accepted) - 1 /\ Finished + 1 = Len(accepted)
        BY <1>0, <2>2, <3>1
      <4>. QED BY <2>2, <4>1 DEF OrderInv, StoredInOrder
    <3>4. packet <= remote.version /\ packet \in Nat /\ accepted[Finished] \in Nat
      <4>1. packet = LastAccepted
        BY <2>2 DEF LastAccepted
      <4>2. Finished \in 1 .. Len(accepted)
        BY <1>0, <2>2, <3>1
      <4>3. accepted[Finished] \in 1 .. MaxVersions
        BY <4>2 DEF SubTypeOK
      <4>. QED BY <4>1, <4>3 DEF OrderInv, SubTypeOK
    <3>5. packet \in accepted[Finished] + 1 .. remote.version
      BY <1>0, <3>3, <3>4
    <3>. QED BY <2>1, <2>4, <3>2, <3>5 DEF Channel!Next, Channel!Show
  <2>. QED BY <2>5, <2>6
<1>5. Retransmit \/ Lose \/ SkipPacket \/ TakePacket \/ CallbackReturns \/ UNCHANGED subVars =>
        UNCHANGED <<remote, slots, index>>
  BY DEF Retransmit, Lose, SkipPacket, TakePacket, CallbackReturns, remoteVars, ringVars, subVars
<1>. QED
  BY <1>1, <1>2, <1>3, <1>4, <1>5 DEF SubNext, Remote, Receive, Listener

(* With at least two slots, and no more than one byte counts, the ring     *)
(* file of a receiving module is a channel that shows the remote states in *)
(* order, whatever is lost, repeated or skipped.                           *)
THEOREM SubscriberIsChannel ==
  ASSUME 1 < Entries, Entries <= ByteRange
  PROVE  SubSpec => ImplementsChannel
<1>1. SubTypeOK /\ InStep /\ RingInv /\ StartsEmpty /\ [SubNext]_subVars => StartsEmpty'
  BY EmptyStep
<1>2. SubTypeOK /\ InStep /\ RingInv /\ OrderInv /\ StartsEmpty /\ [SubNext]_subVars =>
        [Channel!Next]_(Channel!channelVars)
  BY ChannelStep
<1>3. SubSpec => []StartsEmpty
  BY EmptyInit, TypeInvariant, RingInvariant, <1>1, PTL DEF SubSpec
<1>4. SubSpec => Channel!Spec
  BY ChannelInit, TypeInvariant, RingInvariant, OrderInvariant, <1>2, <1>3, PTL DEF SubSpec, Channel!Spec
<1>. QED
  BY <1>4 DEF ImplementsChannel
=============================================================================
