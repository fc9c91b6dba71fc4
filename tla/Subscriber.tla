----------------------------- MODULE Subscriber -----------------------------
(***************************************************************************)
(* The two receiving modules, smv_subscriber and goose_subscriber: packets *)
(* of one remote publisher arrive over the network, and the listener that  *)
(* libiec61850 calls from tick() stores them in the ring file, word by     *)
(* word and without the lock of mem_file.c, then publishes the index of    *)
(* the item, by storing ONE BYTE of the header's index field.              *)
(*                                                                         *)
(* A packet carries a version of the remote data.  The remote side and     *)
(* the network are not under src/: a sampled-value publisher sends a new   *)
(* version in every packet, a GOOSE publisher repeats the current version  *)
(* under the same stNum until it changes; the wire keeps order and may     *)
(* lose packets.                                                           *)
(***************************************************************************)
EXTENDS Naturals, Sequences

CONSTANTS
    Kind,        \* "SMV" or "GOOSE": which of the two modules
    Entries,     \* max_items: buffer_entries of the module's config
    ByteRange,   \* values of the one byte stored as the index: 256
    Words,       \* stores that fill an item
    MaxVersions, \* bound: versions the remote side makes
    MaxWire,     \* bound: packets on the wire
    MaxDrops     \* bound: packets lost

ASSUME SubscriberAssumption ==
    /\ Kind \in {"SMV", "GOOSE"}
    /\ {Entries, ByteRange, Words} \subseteq Nat \ {0}
    /\ {MaxVersions, MaxWire, MaxDrops} \subseteq Nat

VARIABLES
    remote,        \* the remote publisher: [version, stNum]
    wire,          \* packets under way: [version, stNum, fits]
    drops,         \* packets lost so far
    buffer_index,  \* slot last filled, -1 (here Entries - 1, modulo Entries) at first
    old_stNum,     \* the last stNum accepted (GOOSE)
    slots,         \* the items of the ring file, each a function of its words
    index,         \* the index in the header
    pc,            \* where the listener is: "tick", "store", "index", "callback"
    packet,        \* the version in the packet being handled
    word,          \* the next word to store
    accepted       \* history: versions handed to the ring, in order

subVars == <<remote, wire, drops, buffer_index, old_stNum, slots, index, pc, packet, word, accepted>>
remoteVars == <<remote, wire, drops>>
ringVars == <<slots, index>>

Packet == [version : 1 .. MaxVersions, stNum : 1 .. MaxVersions, fits : BOOLEAN]
Slot == 0 .. Entries - 1

SubInit ==
    /\ remote = [version |-> 0, stNum |-> 0]
    /\ wire = <<>> /\ drops = 0
    /\ buffer_index = Entries - 1      \* the next one is (-1 + 1) % Entries = 0
    /\ old_stNum = 0
    /\ slots = [s \in Slot |-> [w \in 1 .. Words |-> 0]]
    /\ index = 0
    /\ pc = "tick" /\ packet = 0 /\ word = 1
    /\ accepted = <<>>

-----------------------------------------------------------------------------
(* The remote side and the network. *)

(* New remote data: a new sample, or a change of the GOOSE data set.       *)
RemoteChange ==
    /\ remote.version < MaxVersions
    /\ remote' = [version |-> remote.version + 1, stNum |-> remote.stNum + 1]
    /\ Len(wire) < MaxWire
    /\ \E fits \in BOOLEAN :
          /\ Kind = "GOOSE" => fits
          /\ wire' = Append(wire, [version |-> remote'.version, stNum |-> remote'.stNum, fits |-> fits])
    /\ UNCHANGED <<drops, buffer_index, old_stNum, slots, index, pc, packet, word, accepted>>

(* A GOOSE publisher repeats what it sent last. *)
Retransmit ==
    /\ Kind = "GOOSE" /\ remote.version > 0
    /\ Len(wire) < MaxWire
    /\ wire' = Append(wire, [version |-> remote.version, stNum |-> remote.stNum, fits |-> TRUE])
    /\ UNCHANGED <<remote, drops, buffer_index, old_stNum, slots, index, pc, packet, word, accepted>>

Lose ==
    /\ wire # <<>> /\ drops < MaxDrops
    /\ wire' = Tail(wire) /\ drops' = drops + 1
    /\ UNCHANGED <<remote, buffer_index, old_stNum, slots, index, pc, packet, word, accepted>>

-----------------------------------------------------------------------------
(* tick() and the listener. *)

(* Mutant: the GOOSE listener takes every repetition for a change. *)
IsNewRepeats(p) == IF Kind = "SMV" THEN p.fits ELSE TRUE

(* Mutant: the GOOSE listener wants exactly the next stNum. *)
IsNewInSequence(p) == IF Kind = "SMV" THEN p.fits ELSE p.stNum = old_stNum + 1

(* What makes a listener store a packet: a sample of the expected size, a  *)
(* GOOSE whose stNum differs from the last one.                            *)
IsNew(p) == IF Kind = "SMV" THEN p.fits ELSE p.stNum # old_stNum

(* A tick that finds a packet the listener does not store. *)
SkipPacket ==
    /\ pc = "tick" /\ wire # <<>> /\ ~IsNew(Head(wire))
    /\ wire' = Tail(wire)
    /\ UNCHANGED <<remote, drops, buffer_index, old_stNum, slots, index, pc, packet, word, accepted>>

(* Mutant: the slot number is not taken modulo max_items. *)
TakePacketNoWrap ==
    /\ pc = "tick" /\ wire # <<>> /\ IsNew(Head(wire))
    /\ wire' = Tail(wire)
    /\ old_stNum' = IF Kind = "GOOSE" THEN Head(wire).stNum ELSE old_stNum
    /\ buffer_index' = IF accepted = <<>> THEN 0 ELSE buffer_index + 1
    /\ packet' = Head(wire).version /\ word' = 1
    /\ accepted' = Append(accepted, Head(wire).version)
    /\ pc' = "store"
    /\ UNCHANGED <<remote, drops, slots, index>>

(* Mutant: the index is published before the item is stored. *)
TakePacketPublishes ==
    /\ pc = "tick" /\ wire # <<>> /\ IsNew(Head(wire))
    /\ wire' = Tail(wire)
    /\ old_stNum' = IF Kind = "GOOSE" THEN Head(wire).stNum ELSE old_stNum
    /\ buffer_index' = (buffer_index + 1) % Entries
    /\ packet' = Head(wire).version /\ word' = 1
    /\ accepted' = Append(accepted, Head(wire).version)
    /\ index' = buffer_index' % ByteRange
    /\ pc' = "store"
    /\ UNCHANGED <<remote, drops, slots>>

(* A tick that finds a packet to store. *)
TakePacket ==
    /\ pc = "tick" /\ wire # <<>> /\ IsNew(Head(wire))
    /\ wire' = Tail(wire)
    /\ old_stNum' = IF Kind = "GOOSE" THEN Head(wire).stNum ELSE old_stNum
    /\ buffer_index' = (buffer_index + 1) % Entries
    /\ packet' = Head(wire).version /\ word' = 1
    /\ accepted' = Append(accepted, Head(wire).version)
    /\ pc' = "store"
    /\ UNCHANGED <<remote, drops, slots, index>>

(* Mutant: the last word of the item, the sample counter, is not stored. *)
StoreWordShort ==
    /\ pc = "store"
    /\ slots' = IF word < Words THEN [slots EXCEPT ![buffer_index][word] = packet] ELSE slots
    /\ word' = word + 1
    /\ pc' = IF word = Words THEN "index" ELSE "store"
    /\ UNCHANGED <<remoteVars, buffer_index, old_stNum, index, packet, accepted>>

(* One store of a word of the item. *)
StoreWord ==
    /\ pc = "store"
    /\ slots' = [slots EXCEPT ![buffer_index][word] = packet]
    /\ word' = word + 1
    /\ pc' = IF word = Words THEN "index" ELSE "store"
    /\ UNCHANGED <<remoteVars, buffer_index, old_stNum, index, packet, accepted>>

(* The one byte of the index that is stored; the other three stay 0. *)
PublishIndex ==
    /\ pc = "index"
    /\ index' = buffer_index % ByteRange
    /\ pc' = "callback"
    /\ UNCHANGED <<remoteVars, buffer_index, old_stNum, slots, packet, word, accepted>>

(* callback_event_cb returns, and the listener with it. *)
CallbackReturns ==
    /\ pc = "callback"
    /\ pc' = "tick"
    /\ UNCHANGED <<remoteVars, buffer_index, old_stNum, ringVars, packet, word, accepted>>

Listener == StoreWord \/ PublishIndex \/ CallbackReturns
Receive == SkipPacket \/ TakePacket
Remote == RemoteChange \/ Retransmit \/ Lose

SubNext == Remote \/ Receive \/ Listener

SubSpec == SubInit /\ [][SubNext]_subVars

(* The engine calls run() round after round, so ticks keep coming and a    *)
(* listener runs on; a GOOSE publisher repeats for ever.                   *)
SubFairness == WF_subVars(Retransmit) /\ WF_subVars(Receive) /\ WF_subVars(Listener)

FairSubSpec == SubSpec /\ SubFairness

-----------------------------------------------------------------------------

SubTypeOK ==
    /\ remote \in [version : 0 .. MaxVersions, stNum : 0 .. MaxVersions]
    /\ wire \in Seq(Packet) /\ Len(wire) <= MaxWire
    /\ drops \in 0 .. MaxDrops
    /\ buffer_index \in Slot /\ index \in Slot
    /\ old_stNum \in 0 .. MaxVersions
    /\ slots \in [Slot -> [1 .. Words -> 0 .. MaxVersions]]
    /\ pc \in {"tick", "store", "index", "callback"}
    /\ packet \in 0 .. MaxVersions /\ word \in 1 .. Words + 1
    /\ accepted \in Seq(1 .. MaxVersions)

Whole(s, v) == \A w \in 1 .. Words : slots[s][w] = v

(* The n-th packet accepted goes to slot (n - 1) % Entries. *)
SlotOf(n) == (n - 1) % Entries

(* How many accepted packets are completely stored and published. *)
Finished == IF pc \in {"store", "index"} THEN Len(accepted) - 1 ELSE Len(accepted)

(* "the module will increment the sample-counter index in the              *)
(* output-file": once a packet is handled the header names the slot of the *)
(* newest item, and that slot holds all of it, also while the next packet  *)
(* is being stored.                                                        *)
PublishedIsNewest ==
    Finished > 0 =>
        /\ index = SlotOf(Finished)
        /\ Entries > 1 \/ pc \in {"tick", "callback"} => Whole(index, accepted[Finished])

(* The ring keeps the last Entries packets, whole and in order, whatever   *)
(* was lost or repeated; only the slot being filled is in between.         *)
RingKeepsLatest ==
    \A n \in 1 .. Finished :
        n + Entries > Len(accepted) => Whole(SlotOf(n), accepted[n])

(* Each state of the remote side takes one item of the ring at most, in    *)
(* the order of the states, however often it is repeated on the wire: the  *)
(* pollers of the ring see changes, not repetitions.                       *)
StoredInOrder == \A n \in 1 .. Len(accepted) - 1 : accepted[n] < accepted[n + 1]

(* What a poller finds: the last word of the item the index names.         *)
Channel == INSTANCE StateChannel WITH made <- remote.version, seen <- slots[index][Words]

(* The ring file is a channel of states: the item its index names is never *)
(* one that was not sent, and never an earlier one than before, between    *)
(* any two stores of the listener and whatever is lost or repeated.        *)
ImplementsChannel == Channel!Spec

(* A state the remote side keeps is stored and published in the end: what  *)
(* the network loses comes again with a repetition.                        *)
StateGetsThrough ==
    \A v \in 1 .. MaxVersions :
        [](remote.version = v => <>(remote.version # v \/ (index = buffer_index /\ Whole(index, v))))
=============================================================================
