---------------------------- MODULE SharedBuffer ----------------------------
(***************************************************************************)
(* One ring file in /dev/shm and the accessors of mem_file.c, at the grain *)
(* of single loads and stores, for any set of processes that map the file. *)
(*                                                                         *)
(* The file has a header (size, items, index, type, semaphore) and a ring  *)
(* of items.  Every accessor spins until the semaphore byte reads 0, then  *)
(* stores 1 in it, works on the file and stores 0.  The test and the store *)
(* are two accesses, so the semaphore is not a mutex; what the ring file   *)
(* guarantees all the same is what this module states.                     *)
(*                                                                         *)
(* The load of the index and the load of the semaphore in free_buffer_lock *)
(* are plain (not volatile) accesses of the source: the builds place the   *)
(* first before or after the store that claims the semaphore, and leave    *)
(* the second out where it follows the claim in one function.  Both        *)
(* outcomes are allowed here.  Stores of one process reach the others in   *)
(* program order (x86), so memory itself is sequentially consistent but    *)
(* for those loads.                                                        *)
(*                                                                         *)
(* A stored value is the number of the write that stored it: the           *)
(* properties only ask which write a reader sees.                          *)
(***************************************************************************)
EXTENDS Integers, Sequences

CONSTANTS
    Procs,       \* the processes that map the file
    Producer,    \* the process whose module owns the file: its init writes the header
    Writers,     \* the processes that call write_output_*
    InitCalls,   \* the order of the header writes in that init
    Items,       \* the items field of the header: slots of the ring
    MaxWrites,   \* bound: write_output_* calls in a behaviour
    MaxCrashes,  \* bound: processes killed in a behaviour
    MaxRestarts  \* bound: killed consumers started again

ASSUME ProcsAssumption   == Producer \in Procs /\ Writers \subseteq Procs
ASSUME ItemsAssumption   == Items \in Nat \ {0}
ASSUME BoundsAssumption  == {MaxWrites, MaxCrashes, MaxRestarts} \subseteq Nat

VARIABLES
    semaphore,   \* header byte 14
    hdr,         \* which of size, items and type hold their final value (a new file is all 0)
    index,       \* header word 2
    data,        \* the ring: data[i] is the number of the write found in slot i
    pc,          \* where each process is in an accessor
    op,          \* which accessor it is in
    slot,        \* its local index: a slot, or NoSlot before the load
    val,         \* the value a write_output_* call stores, or a read call returned
    call,        \* the next of InitCalls a process's init makes; past the last, init is done
    started,     \* history: write_output_* calls begun
    published,   \* history: the last value whose index was stored
    asked,       \* history: what was published when a process began its call
    crashes,     \* history: processes killed
    restarts,    \* history: processes started again
    orphaned     \* history: has a process been killed between claim and clear

file    == <<semaphore, hdr, index, data>>
locals  == <<op, slot, val, call>>
history == <<started, published, asked>>
life    == <<crashes, restarts, orphaned>>
vars    == <<file, pc, locals, history, life>>

Slots  == 0 .. Items - 1
NoSlot == -1

HeaderOps == {"size", "items", "index", "type"}
Ops       == HeaderOps \cup {"write", "read", "current"}

(* A producer's init makes four header calls.  The order differs: the SI   *)
(* module writes the type first, the subscribers and the MMS server last.  *)
NCalls == 4

SiInitCalls == <<"type", "size", "items", "index">>

(* Mutant: the MMS server announces the type before the item count. *)
MmsInitCallsTypeEarly == <<"size", "type", "items", "index">>

MmsInitCalls == <<"size", "items", "index", "type">>

ASSUME InitCallsAssumption ==
    /\ InitCalls \in [1 .. NCalls -> HeaderOps]
    /\ \A o \in HeaderOps : \E i \in 1 .. NCalls : InitCalls[i] = o

FirstCall(p) == IF p = Producer THEN 1 ELSE NCalls + 1

InitDone(p) == call[p] > NCalls

(* Program points from the store that claims the semaphore to the store    *)
(* that clears it.                                                         *)
Inside == {"body", "publish", "test", "clear"}
Points == {"idle", "spin", "claim", "dead"} \cup Inside

-----------------------------------------------------------------------------

Init ==
    /\ semaphore = 0
    /\ hdr = {}
    /\ index = 0
    /\ data = [i \in Slots |-> 0]
    /\ pc = [p \in Procs |-> "idle"]
    /\ op = [p \in Procs |-> "read"]
    /\ slot = [p \in Procs |-> NoSlot]
    /\ val = [p \in Procs |-> 0]
    /\ call = [p \in Procs |-> FirstCall(p)]
    /\ started = 0
    /\ published = 0
    /\ asked = [p \in Procs |-> 0]
    /\ crashes = 0 /\ restarts = 0 /\ orphaned = FALSE

(* Entry of any accessor: its arguments are fixed and it starts to spin. *)
Begin(p, o, s, v) ==
    /\ pc[p] = "idle"
    /\ pc' = [pc EXCEPT ![p] = "spin"]
    /\ op' = [op EXCEPT ![p] = o]
    /\ slot' = [slot EXCEPT ![p] = s]
    /\ val' = [val EXCEPT ![p] = v]
    /\ asked' = [asked EXCEPT ![p] = published]
    /\ UNCHANGED <<file, call, published, life>>

(* write_size, write_items, write_index(0) and write_type, from init. *)
BeginHeader(p) ==
    /\ ~InitDone(p)
    /\ Begin(p, InitCalls[call[p]], NoSlot, 0)
    /\ UNCHANGED started

(* write_output_*: type and size are checked (else -1), then items is read, *)
(* all before the lock.  The value is fresh.                                *)
BeginWrite(p) ==
    /\ p \in Writers /\ InitDone(p)
    /\ {"size", "type"} \subseteq hdr
    /\ started < MaxWrites
    /\ Begin(p, "write", NoSlot, started + 1)
    /\ started' = started + 1

(* read_input_*(buffer, i). *)
BeginRead(p) ==
    /\ InitDone(p)
    /\ \E i \in Slots : Begin(p, "read", i, 0)
    /\ UNCHANGED started

(* read_current_input_*(buffer). *)
BeginReadCurrent(p) ==
    /\ InitDone(p)
    /\ Begin(p, "current", NoSlot, 0)
    /\ UNCHANGED started

(* The busy wait ends with a load that finds 0. *)
Spin(p) ==
    /\ pc[p] = "spin" /\ semaphore = 0
    /\ pc' = [pc EXCEPT ![p] = "claim"]
    /\ UNCHANGED <<file, locals, history, life>>

(* Mutant: the next slot is not wrapped. *)
LoadIndexNoWrap(p) ==
    /\ pc[p] \in {"claim", "body"} /\ slot[p] = NoSlot
    /\ \/ op[p] = "write"   /\ slot' = [slot EXCEPT ![p] = index + 1]
       \/ op[p] = "current" /\ slot' = [slot EXCEPT ![p] = index]
    /\ UNCHANGED <<file, pc, op, val, call, history, life>>

(* Mutant: a reader takes the slot the next write will use. *)
LoadIndexAhead(p) ==
    /\ pc[p] \in {"claim", "body"} /\ slot[p] = NoSlot
    /\ op[p] \in {"write", "current"}
    /\ slot' = [slot EXCEPT ![p] = (index + 1) % Items]
    /\ UNCHANGED <<file, pc, op, val, call, history, life>>

(* read_index: before or after the claim, as the compiler places it. *)
LoadIndex(p) ==
    /\ pc[p] \in {"claim", "body"} /\ slot[p] = NoSlot
    /\ \/ op[p] = "write"   /\ slot' = [slot EXCEPT ![p] = (index + 1) % Items]
       \/ op[p] = "current" /\ slot' = [slot EXCEPT ![p] = index]
    /\ UNCHANGED <<file, pc, op, val, call, history, life>>

Claim(p) ==
    /\ pc[p] = "claim"
    /\ semaphore' = 1
    /\ pc' = [pc EXCEPT ![p] = "body"]
    /\ UNCHANGED <<hdr, index, data, locals, history, life>>

(* The item is stored; the index follows in a store of its own. *)
StoreItem(p) ==
    /\ pc[p] = "body" /\ op[p] = "write" /\ slot[p] # NoSlot
    /\ data' = [data EXCEPT ![slot[p]] = val[p]]
    /\ pc' = [pc EXCEPT ![p] = "publish"]
    /\ UNCHANGED <<semaphore, hdr, index, locals, history, life>>

(* Mutant: the index is incremented a second time as it is stored. *)
StoreIndexTwice(p) ==
    /\ pc[p] = "publish"
    /\ index' = (slot[p] + 1) % Items
    /\ published' = val[p]
    /\ pc' = [pc EXCEPT ![p] = "test"]
    /\ UNCHANGED <<semaphore, hdr, data, locals, started, asked, life>>

StoreIndex(p) ==
    /\ pc[p] = "publish"
    /\ index' = slot[p]
    /\ published' = val[p]
    /\ pc' = [pc EXCEPT ![p] = "test"]
    /\ UNCHANGED <<semaphore, hdr, data, locals, started, asked, life>>

LoadItem(p) ==
    /\ pc[p] = "body" /\ op[p] \in {"read", "current"} /\ slot[p] # NoSlot
    /\ val' = [val EXCEPT ![p] = data[slot[p]]]
    /\ pc' = [pc EXCEPT ![p] = "test"]
    /\ UNCHANGED <<file, op, slot, call, history, life>>

(* The store of one header call of an init; write_index(0) rewinds the ring. *)
StoreHeader(p) ==
    /\ pc[p] = "body" /\ op[p] \in HeaderOps
    /\ hdr' = hdr \cup ({op[p]} \ {"index"})
    /\ index' = IF op[p] = "index" THEN 0 ELSE index
    /\ call' = [call EXCEPT ![p] = @ + 1]
    /\ pc' = [pc EXCEPT ![p] = "test"]
    /\ UNCHANGED <<semaphore, data, op, slot, val, history, life>>

(* Mutant: the early return is taken on the wrong value. *)
TestSemaphoreInverted(p) ==
    /\ pc[p] = "test"
    /\ pc' = [pc EXCEPT ![p] = IF semaphore = 1 THEN "idle" ELSE "clear"]
    /\ UNCHANGED <<file, locals, history, life>>

(* free_buffer_lock: returns early when the semaphore already reads 0; the *)
(* builds may leave this test out.                                         *)
TestSemaphore(p) ==
    /\ pc[p] = "test"
    /\ \/ pc' = [pc EXCEPT ![p] = "clear"]
       \/ semaphore = 0 /\ pc' = [pc EXCEPT ![p] = "idle"]
    /\ UNCHANGED <<file, locals, history, life>>

(* Mutant: the semaphore is not cleared. *)
ClearSemaphoreNot(p) ==
    /\ pc[p] = "clear"
    /\ pc' = [pc EXCEPT ![p] = "idle"]
    /\ UNCHANGED <<file, locals, history, life>>

ClearSemaphore(p) ==
    /\ pc[p] = "clear"
    /\ semaphore' = 0
    /\ pc' = [pc EXCEPT ![p] = "idle"]
    /\ UNCHANGED <<hdr, index, data, locals, history, life>>

(* The process is killed between two accesses; the file survives it. *)
Crash(p) ==
    /\ crashes < MaxCrashes /\ pc[p] # "dead"
    /\ pc' = [pc EXCEPT ![p] = "dead"]
    /\ crashes' = crashes + 1
    /\ orphaned' = (orphaned \/ pc[p] \in Inside)
    /\ UNCHANGED <<file, locals, history, restarts>>

(* A process that does not own the file is started again and opens it as   *)
(* it was left.  The owner's init would remove it and create another one,  *)
(* which is not this file any more.                                        *)
Restart(p) ==
    /\ p # Producer
    /\ restarts < MaxRestarts /\ pc[p] = "dead"
    /\ pc' = [pc EXCEPT ![p] = "idle"]
    /\ call' = [call EXCEPT ![p] = FirstCall(p)]
    /\ restarts' = restarts + 1
    /\ UNCHANGED <<file, op, slot, val, history, crashes, orphaned>>

-----------------------------------------------------------------------------

Access(p) ==
    \/ Spin(p) \/ LoadIndex(p) \/ Claim(p)
    \/ StoreItem(p) \/ StoreIndex(p) \/ LoadItem(p) \/ StoreHeader(p)
    \/ TestSemaphore(p) \/ ClearSemaphore(p)

Call(p) == BeginHeader(p) \/ BeginWrite(p) \/ BeginRead(p) \/ BeginReadCurrent(p)

Next == \E p \in Procs : Call(p) \/ Access(p) \/ Crash(p) \/ Restart(p)

Spec == Init /\ [][Next]_vars

(* A process inside an accessor keeps being scheduled; nothing obliges it  *)
(* to make a call, and its spin is only as fair as the loads it happens to *)
(* make: weak fairness asks no more than that.                             *)
FairSpec == Spec /\ \A p \in Procs : WF_vars(Access(p))

-----------------------------------------------------------------------------

TypeOK ==
    /\ semaphore \in {0, 1}
    /\ hdr \subseteq HeaderOps
    /\ index \in Slots
    /\ data \in [Slots -> Nat]
    /\ pc \in [Procs -> Points]
    /\ op \in [Procs -> Ops]
    /\ slot \in [Procs -> Slots \cup {NoSlot}]
    /\ val \in [Procs -> Nat]
    /\ call \in [Procs -> 1 .. NCalls + 1]
    /\ {started, published, crashes, restarts} \subseteq Nat
    /\ asked \in [Procs -> Nat]
    /\ orphaned \in BOOLEAN

(* Whatever the interleaving, and although two processes may hold the      *)
(* semaphore at once, a set semaphore always has a process that will still *)
(* clear it, unless one was killed inside an accessor: the early return of *)
(* free_buffer_lock never leaves the byte set behind.                      *)
SetSemaphoreHasOwner ==
    semaphore = 1 => orphaned \/ \E p \in Procs : pc[p] \in Inside

(* write_output_* never divides by a zero item count: whoever passes its   *)
(* type and size check finds items already written by the producer's init, *)
(* although it checks before it takes the lock.                            *)
WriterFindsItems ==
    \A p \in Procs : op[p] = "write" /\ pc[p] \notin {"idle", "dead"} => "items" \in hdr

(* The item the index points at is never older than the last index store:  *)
(* the item is stored before the index that announces it.                  *)
IndexedItemIsStored == data[index] >= published

(* A read_current_input_* call returns the item that was current when it   *)
(* was called or a newer one, even with the writer inside at the same time.*)
ReadIsFresh ==
    \A p \in Procs : op[p] = "current" /\ pc[p] \in {"test", "clear"} => val[p] >= asked[p]

(* A set semaphore is cleared again, unless a process is killed inside.    *)
SemaphoreIsCleared == semaphore = 1 ~> semaphore = 0 \/ orphaned

-----------------------------------------------------------------------------
(* What the proofs need beside the properties. *)

(* A process is where its call takes it: only a write reaches the index    *)
(* store, with its slot computed, and a header call runs in an unfinished  *)
(* init.                                                                   *)
Control ==
    \A p \in Procs :
        /\ pc[p] = "publish" => op[p] = "write" /\ slot[p] # NoSlot
        /\ op[p] \in HeaderOps /\ pc[p] \in {"spin", "claim", "body"} =>
               call[p] <= NCalls /\ op[p] = InitCalls[call[p]]
        /\ op[p] = "write" => p \in Writers
        /\ op[p] = "current" /\ pc[p] = "spin" => slot[p] = NoSlot
        /\ p # Producer => InitDone(p)

(* Header fields already written by the calls an init has made. *)
HeaderSoFar ==
    \A i \in 1 .. NCalls : i < call[Producer] /\ InitCalls[i] # "index" => InitCalls[i] \in hdr

(* With one writer and no restart values grow with time: in the file ...   *)
FileGrows ==
    /\ ~InitDone(Producer) => started = 0
    /\ published <= started
    /\ \A i \in Slots : data[i] <= started
    /\ data[index] >= published

(* ... and for a process that writes, or reads. *)
WriteGrows(p) ==
    /\ op[p] = "write" /\ pc[p] \in {"spin", "claim", "body"} =>
           /\ val[p] = started /\ published < started
           /\ \A i \in Slots : data[i] < started
    /\ pc[p] = "publish" => data[slot[p]] = val[p] /\ published < val[p] /\ val[p] = started

ReadGrows(p) ==
    /\ asked[p] <= published
    /\ op[p] = "current" /\ pc[p] \in {"claim", "body"} /\ slot[p] # NoSlot =>
           data[slot[p]] >= asked[p]
    /\ op[p] = "current" /\ pc[p] \in {"test", "clear"} => val[p] >= asked[p]

ValuesGrow == FileGrows /\ \A p \in Procs : WriteGrows(p) /\ ReadGrows(p)

=============================================================================
