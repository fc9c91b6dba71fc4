------------------------------ MODULE PyBuffer ------------------------------
(* The accessors of other/python_example/mem_file.py, used by a program    *)
(* that maps a ring file with mmap as program.py does, next to the modules *)
(* of an engine that use mem_file.c on the same file (SharedBuffer.tla).   *)
(*                                                                         *)
(* The interpreter runs the accesses in the order of the source.  Of the   *)
(* header the program only ever stores what its producer stored.  A file   *)
(* has one writer: the modules in Writers, or the Python program.          *)
EXTENDS SharedBuffer

VARIABLES
    pythonWrites,  \* the writer of this file is the Python program
    ypc, yop,      \* where the program is, and in which accessor
    yslot, yval,   \* the slot it works on; the value it stores or has read
    left           \* history: an accessor raised and left the semaphore set

ylocals == <<ypc, yop, yslot, yval>>
yvars   == <<vars, pythonWrites, ylocals, left>>

YOps == {"bool", "int", "current", "write", "header", "type"}

(* From the claim of the semaphore to its release.  write_output_* calls   *)
(* write_index before it frees the semaphore: the inner points are those   *)
(* of the lock_buffer and free_buffer_lock of that call.                   *)
YInside == {"body", "inner spin", "inner claim", "inner store", "inner test",
            "inner clear", "test", "clear"}

YInit ==
    /\ Init
    /\ pythonWrites \in BOOLEAN
    /\ ypc = "idle" /\ yop = "bool" /\ yslot = NoSlot /\ yval = 0
    /\ left = FALSE

YStep(from, to) == ypc = from /\ ypc' = to /\ UNCHANGED <<yop, pythonWrites>>

YBegin(o, s, v) ==
    /\ ypc = "idle" /\ InitDone(Producer)
    /\ ypc' = IF o = "current" THEN "index" ELSE "spin"
    /\ yop' = o /\ yslot' = s /\ yval' = v
    /\ UNCHANGED <<file, pc, locals, published, asked, life, pythonWrites, left>>

(* read_input_bool, and read_input_int8, _int32 and _smv, of a given slot. *)
YBeginRead ==
    /\ \E o \in {"bool", "int"}, i \in Slots : YBegin(o, i, 0)
    /\ UNCHANGED started

YBeginReadCurrent == YBegin("current", NoSlot, 0) /\ UNCHANGED started

(* write_output_*: the type and the size are checked, the items read. *)
YBeginWrite ==
    /\ pythonWrites /\ started < MaxWrites
    /\ YBegin("write", NoSlot, started + 1)
    /\ started' = started + 1

YBeginHeader ==
    /\ \E o \in {"header", "type"} : YBegin(o, NoSlot, 0)
    /\ UNCHANGED started

(* read_current_*: the index is read before the lock. *)
YLoadIndex ==
    /\ YStep("index", "spin")
    /\ yslot' = index
    /\ UNCHANGED <<file, pc, locals, history, life, yval, left>>

(* Mutant: the inner wait does not look at the semaphore. *)
YSpinOuter ==
    /\ \/ semaphore = 0 /\ YStep("spin", "claim")
       \/ YStep("inner spin", "inner claim")
    /\ UNCHANGED <<file, pc, locals, history, life, yslot, yval, left>>

(* lock_buffer, and the one of write_index inside a write. *)
YSpin ==
    /\ semaphore = 0
    /\ YStep("spin", "claim") \/ YStep("inner spin", "inner claim")
    /\ UNCHANGED <<file, pc, locals, history, life, yslot, yval, left>>

YClaim ==
    /\ YStep("claim", "body") \/ YStep("inner claim", "inner store")
    /\ semaphore' = 1
    /\ UNCHANGED <<hdr, index, data, pc, locals, history, life, yslot, yval, left>>

YLoadItem ==
    /\ yop \in {"bool", "current"} /\ YStep("body", "test")
    /\ yval' = data[yslot]
    /\ UNCHANGED <<file, pc, locals, history, life, yslot, left>>

(* int() of the tuple that unpack returns, or of a byte that is no digit,  *)
(* is an exception: nothing frees the semaphore.                           *)
YRaise ==
    /\ yop = "int" /\ ypc = "body"
    /\ ypc' = "idle" /\ yslot' = NoSlot /\ yval' = 0 /\ yop' = "bool"
    /\ left' = TRUE
    /\ UNCHANGED <<file, pc, locals, history, life, pythonWrites>>

YStoreItem ==
    /\ yop = "write" /\ YStep("body", "inner spin")
    /\ yslot' = (index + 1) % Items
    /\ data' = [data EXCEPT ![yslot'] = yval]
    /\ UNCHANGED <<semaphore, hdr, index, pc, locals, history, life, yval, left>>

YStoreIndex ==
    /\ YStep("inner store", "inner test")
    /\ index' = yslot /\ published' = yval
    /\ UNCHANGED <<semaphore, hdr, data, pc, locals, started, asked, life, yslot, yval, left>>

(* write_type packs the type in four bytes: the last two are those of the  *)
(* semaphore, and become 0 while it is held.                               *)
YStoreHeader ==
    /\ yop \in {"header", "type"} /\ YStep("body", "test")
    /\ semaphore' = IF yop = "type" THEN 0 ELSE semaphore
    /\ UNCHANGED <<hdr, index, data, pc, locals, history, life, yslot, yval, left>>

YDone ==
    /\ ypc' = "idle" /\ yop' = "bool" /\ yslot' = NoSlot /\ yval' = 0
    /\ UNCHANGED pythonWrites

(* Mutant: free_buffer_lock returns when the semaphore is 1. *)
YTestInverted ==
    /\ \/ ypc = "test" /\ semaphore = 1 /\ YDone
       \/ /\ \/ semaphore = 0 /\ YStep("test", "clear")
             \/ semaphore = 1 /\ YStep("inner test", "test")
             \/ semaphore = 0 /\ YStep("inner test", "inner clear")
          /\ UNCHANGED <<yslot, yval>>
    /\ UNCHANGED <<file, pc, locals, history, life, left>>

(* free_buffer_lock: it returns when the semaphore is 0 already. *)
YTest ==
    /\ \/ ypc = "test" /\ semaphore = 0 /\ YDone
       \/ /\ \/ semaphore = 1 /\ YStep("test", "clear")
             \/ semaphore = 0 /\ YStep("inner test", "test")
             \/ semaphore = 1 /\ YStep("inner test", "inner clear")
          /\ UNCHANGED <<yslot, yval>>
    /\ UNCHANGED <<file, pc, locals, history, life, left>>

YClear ==
    /\ \/ ypc = "clear" /\ YDone
       \/ YStep("inner clear", "test") /\ UNCHANGED <<yslot, yval>>
    /\ semaphore' = 0
    /\ UNCHANGED <<hdr, index, data, pc, locals, history, life, left>>

(* lock_buffer_file compares a bytes object with 1, so it never waits, and *)
(* stores bytes(1), which is a zero; free_buffer_lock_file stores nothing. *)
YLockFile ==
    /\ ypc = "idle"
    /\ semaphore' = 0
    /\ UNCHANGED <<hdr, index, data, pc, locals, history, life, pythonWrites, ylocals, left>>

YAccess ==
    \/ YLoadIndex \/ YSpin \/ YClaim \/ YLoadItem \/ YRaise \/ YStoreItem \/ YStoreIndex
    \/ YStoreHeader \/ YTest \/ YClear

YNext ==
    \/ /\ \E p \in Procs : Call(p) \/ Access(p) \/ Crash(p) \/ Restart(p)
       /\ pythonWrites => started' = started
       /\ UNCHANGED <<pythonWrites, ylocals, left>>
    \/ YBeginRead \/ YBeginReadCurrent \/ YBeginWrite \/ YBeginHeader
    \/ YAccess
    \/ YLockFile

YSpec == YInit /\ [][YNext]_yvars

-----------------------------------------------------------------------------

(* A set semaphore has an owner: a process inside an accessor, be it that  *)
(* the Python program waits there for its own semaphore, or none, because  *)
(* a read of the program raised an exception inside, or a process of an    *)
(* engine was killed there.  Neither lock_buffer_file nor write_type, that *)
(* clear a semaphore they do not hold, changes this.                       *)
YSetSemaphoreHasOwner ==
    semaphore = 1 =>
        left \/ orphaned \/ ypc \in YInside \/ \E p \in Procs : pc[p] \in Inside

(* write_output_* takes the semaphore, and calls write_index, which waits  *)
(* for it: the program gets on only if a process that was between the test *)
(* and the claim clears it.  Once there is none, the program waits for     *)
(* ever, and nobody gets into the file again.                              *)
WaitsAlone ==
    /\ ypc = "inner spin" /\ semaphore = 1
    /\ \A p \in Procs : pc[p] \notin Inside \cup {"claim"}

WaitsForEver == [][WaitsAlone => WaitsAlone']_yvars

(* When nobody is in an accessor the index has advanced once for every     *)
(* write made, by a module or by the program: no write is lost or counted  *)
(* twice, although the one writer shares the file with readers that clear  *)
(* its semaphore.                                                          *)
YIndexCountsWrites ==
    (ypc = "idle" /\ \A p \in Procs : pc[p] = "idle" /\ InitDone(p)) => index = started % Items
=============================================================================
