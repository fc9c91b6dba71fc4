------------------------- MODULE SharedBufferProofs -------------------------
(***************************************************************************)
(* What the ring file of mem_file.c guarantees for every set of processes, *)
(* every ring size, every number of writes, kills and restarts; and what   *)
(* is left of it with a program on the file that uses mem_file.py.         *)
(***************************************************************************)
EXTENDS PyBuffer, RingArithmetic, TLAPS

USE DEF file, locals, history, life, Slots, NoSlot, HeaderOps, Ops, Inside, Points, NCalls

LEMMA NextIndex == ASSUME NEW i \in Slots PROVE (i + 1) % Items \in Slots
  BY ItemsAssumption

-----------------------------------------------------------------------------
(* Types and control: the part every other proof rests on.                 *)

(* A new file is all zeros and nobody is in an accessor. *)
LEMMA ControlInit == Init => TypeOK /\ Control
<1> SUFFICES ASSUME Init PROVE TypeOK /\ Control
  OBVIOUS
<1> USE ItemsAssumption DEF Init, FirstCall
<1>1. index \in Slots /\ data \in [Slots -> Nat]
  OBVIOUS
<1>2. /\ pc \in [Procs -> Points] /\ op \in [Procs -> Ops]
      /\ slot \in [Procs -> Slots \cup {NoSlot}]
      /\ val \in [Procs -> Nat] /\ asked \in [Procs -> Nat]
  OBVIOUS
<1>3. call \in [Procs -> 1 .. NCalls + 1]
  OBVIOUS
<1>4. TypeOK
  BY <1>1, <1>2, <1>3 DEF TypeOK
<1>5. ASSUME NEW p \in Procs
      PROVE pc[p] = "idle" /\ op[p] = "read" /\ (p # Producer => call[p] > NCalls)
  OBVIOUS
<1>6. Control
  BY <1>5 DEF Control, InitDone
<1> QED
  BY <1>4, <1>6

(* No call, access, kill or restart leaves the types or the control. *)
LEMMA ControlStep == TypeOK /\ Control /\ [Next]_vars => TypeOK' /\ Control'
<1> SUFFICES ASSUME TypeOK, Control, [Next]_vars PROVE TypeOK' /\ Control'
  OBVIOUS
<1> USE DEF TypeOK, Control, InitDone
<1>1. ASSUME NEW p \in Procs, BeginHeader(p) PROVE TypeOK' /\ Control'
  <2>1. InitCalls[call[p]] \in HeaderOps /\ call[p] <= NCalls
    BY <1>1, InitCallsAssumption DEF BeginHeader
  <2> QED
    BY <1>1, <2>1 DEF BeginHeader, Begin
<1>2. ASSUME NEW p \in Procs, BeginWrite(p) PROVE TypeOK' /\ Control'
  BY <1>2 DEF BeginWrite, Begin
<1>3. ASSUME NEW p \in Procs, BeginRead(p) PROVE TypeOK' /\ Control'
  BY <1>3 DEF BeginRead, Begin
<1>4. ASSUME NEW p \in Procs, BeginReadCurrent(p) PROVE TypeOK' /\ Control'
  BY <1>4 DEF BeginReadCurrent, Begin
<1>5. ASSUME NEW p \in Procs, Spin(p) PROVE TypeOK' /\ Control'
  BY <1>5 DEF Spin
<1>6. ASSUME NEW p \in Procs, LoadIndex(p) PROVE TypeOK' /\ Control'
  <2>1. (index + 1) % Items \in Slots
    BY NextIndex
  <2>2. slot'[p] \in Slots /\ slot' = [slot EXCEPT ![p] = slot'[p]]
    BY <1>6, <2>1 DEF LoadIndex
  <2> QED
    BY <1>6, <2>2 DEF LoadIndex
<1>7. ASSUME NEW p \in Procs, Claim(p) PROVE TypeOK' /\ Control'
  BY <1>7 DEF Claim
<1>8. ASSUME NEW p \in Procs, StoreItem(p) PROVE TypeOK' /\ Control'
  BY <1>8 DEF StoreItem
<1>9. ASSUME NEW p \in Procs, StoreIndex(p) PROVE TypeOK' /\ Control'
  BY <1>9 DEF StoreIndex
<1>10. ASSUME NEW p \in Procs, LoadItem(p) PROVE TypeOK' /\ Control'
  BY <1>10 DEF LoadItem
<1>11. ASSUME NEW p \in Procs, StoreHeader(p) PROVE TypeOK' /\ Control'
  <2>0. call[p] \in 1 .. NCalls /\ p = Producer
    BY <1>11 DEF StoreHeader
  <2>1. call[p] + 1 \in 1 .. NCalls + 1
    BY <2>0
  <2>2. index' \in Slots
    BY <1>11, ItemsAssumption DEF StoreHeader
  <2>3. TypeOK'
    BY <1>11, <2>1, <2>2 DEF StoreHeader
  <2>4. Control'
    BY <1>11, <2>0 DEF StoreHeader
  <2> QED
    BY <2>3, <2>4
<1>12. ASSUME NEW p \in Procs, TestSemaphore(p) PROVE TypeOK' /\ Control'
  BY <1>12 DEF TestSemaphore
<1>13. ASSUME NEW p \in Procs, ClearSemaphore(p) PROVE TypeOK' /\ Control'
  BY <1>13 DEF ClearSemaphore
<1>14. ASSUME NEW p \in Procs, Crash(p) PROVE TypeOK' /\ Control'
  BY <1>14 DEF Crash
<1>15. ASSUME NEW p \in Procs, Restart(p) PROVE TypeOK' /\ Control'
  BY <1>15 DEF Restart, FirstCall
<1>16. CASE UNCHANGED vars
  BY <1>16 DEF vars
<1> QED
  BY <1>1, <1>2, <1>3, <1>4, <1>5, <1>6, <1>7, <1>8, <1>9, <1>10, <1>11, <1>12,
     <1>13, <1>14, <1>15, <1>16 DEF Next, Call, Access

(* TypeOK holds in every reachable state, whatever the processes do to the *)
(* file: header reads and slots stay within the ring of mem_file.c.        *)
THEOREM TypeCorrect == Spec => [](TypeOK /\ Control)
  BY ControlInit, ControlStep, PTL DEF Spec

-----------------------------------------------------------------------------
(* The semaphore is left set only by a killed process.                     *)

LEMMA OwnerStep ==
  TypeOK /\ SetSemaphoreHasOwner /\ [Next]_vars => SetSemaphoreHasOwner'
<1> SUFFICES ASSUME TypeOK, SetSemaphoreHasOwner, [Next]_vars, semaphore' = 1, ~orphaned'
             PROVE \E q \in Procs : pc'[q] \in Inside
  BY DEF SetSemaphoreHasOwner, TypeOK
<1> USE DEF TypeOK, SetSemaphoreHasOwner
<1>1. ASSUME NEW p \in Procs, Call(p) PROVE \E q \in Procs : pc'[q] \in Inside
  BY <1>1 DEF Call, BeginHeader, BeginWrite, BeginRead, BeginReadCurrent, Begin
<1>2. ASSUME NEW p \in Procs, Spin(p) \/ LoadIndex(p) PROVE \E q \in Procs : pc'[q] \in Inside
  BY <1>2 DEF Spin, LoadIndex
<1>3. ASSUME NEW p \in Procs, Claim(p) PROVE \E q \in Procs : pc'[q] \in Inside
  BY <1>3 DEF Claim
<1>4. ASSUME NEW p \in Procs, StoreItem(p) \/ StoreIndex(p) \/ LoadItem(p) \/ StoreHeader(p)
      PROVE \E q \in Procs : pc'[q] \in Inside
  BY <1>4 DEF StoreItem, StoreIndex, LoadItem, StoreHeader
<1>5. ASSUME NEW p \in Procs, TestSemaphore(p) PROVE \E q \in Procs : pc'[q] \in Inside
  BY <1>5 DEF TestSemaphore
<1>6. ASSUME NEW p \in Procs, ClearSemaphore(p) PROVE \E q \in Procs : pc'[q] \in Inside
  BY <1>6 DEF ClearSemaphore
<1>7. ASSUME NEW p \in Procs, Crash(p) PROVE \E q \in Procs : pc'[q] \in Inside
  BY <1>7 DEF Crash
<1>8. ASSUME NEW p \in Procs, Restart(p) PROVE \E q \in Procs : pc'[q] \in Inside
  BY <1>8 DEF Restart
<1>9. CASE UNCHANGED vars
  BY <1>9 DEF vars
<1> QED
  BY <1>1, <1>2, <1>3, <1>4, <1>5, <1>6, <1>7, <1>8, <1>9 DEF Next, Access

(* A set semaphore has a process that will still clear it, unless one was  *)
(* killed between lock_buffer's store and free_buffer_lock's: for any      *)
(* number of processes, although the lock does not exclude them.           *)
THEOREM SemaphoreHasOwner == Spec => []SetSemaphoreHasOwner
<1>1. Init => SetSemaphoreHasOwner
  BY DEF Init, SetSemaphoreHasOwner
<1> QED
  BY <1>1, TypeCorrect, OwnerStep, PTL DEF Spec
-----------------------------------------------------------------------------
(* A writer that checks type and size before the lock finds the item count,*)
(* as long as init writes the type after it.                               *)

TypeAfterItems ==
    \A i, j \in 1 .. NCalls : InitCalls[i] = "items" /\ InitCalls[j] = "type" => i < j

HeaderInv ==
    /\ HeaderSoFar
    /\ "type" \in hdr => "items" \in hdr
    /\ WriterFindsItems

LEMMA HeaderStep ==
  ASSUME TypeAfterItems
  PROVE  TypeOK /\ Control /\ HeaderInv /\ [Next]_vars => HeaderInv'
<1> SUFFICES ASSUME TypeOK, Control, HeaderInv, [Next]_vars PROVE HeaderInv'
  OBVIOUS
<1> USE DEF HeaderInv, HeaderSoFar, WriterFindsItems
<1>1. ASSUME NEW p \in Procs, BeginHeader(p) PROVE HeaderInv'
  <2>1. InitCalls[call[p]] \in HeaderOps
    BY <1>1, InitCallsAssumption DEF BeginHeader, InitDone, TypeOK
  <2> QED
    BY <1>1, <2>1 DEF BeginHeader, Begin, TypeOK
<1>2. ASSUME NEW p \in Procs, BeginWrite(p) PROVE HeaderInv'
  BY <1>2 DEF BeginWrite, Begin, TypeOK
<1>3. ASSUME NEW p \in Procs, BeginRead(p) \/ BeginReadCurrent(p) PROVE HeaderInv'
  BY <1>3 DEF BeginRead, BeginReadCurrent, Begin, TypeOK
<1>4. ASSUME NEW p \in Procs, StoreHeader(p) PROVE HeaderInv'
  <2>1. p = Producer /\ call[p] \in 1 .. NCalls /\ op[p] = InitCalls[call[p]]
    BY <1>4 DEF StoreHeader, TypeOK, Control, InitDone
  <2>2. HeaderSoFar'
    BY <1>4, <2>1, ProcsAssumption DEF StoreHeader, TypeOK
  <2>3. PICK i \in 1 .. NCalls : InitCalls[i] = "items"
    BY InitCallsAssumption
  <2>4. op[p] = "type" => "items" \in hdr
    BY <2>1, <2>3 DEF TypeAfterItems
  <2>5. hdr \subseteq hdr' /\ (op[p] # "type" => ("type" \in hdr' <=> "type" \in hdr))
    BY <1>4 DEF StoreHeader
  <2>6. ("type" \in hdr => "items" \in hdr)'
    BY <2>4, <2>5
  <2>7. WriterFindsItems'
    BY <1>4, <2>5 DEF StoreHeader, TypeOK
  <2> QED
    BY <2>2, <2>6, <2>7
<1>5. ASSUME NEW p \in Procs,
             Spin(p) \/ LoadIndex(p) \/ Claim(p) \/ StoreItem(p) \/ StoreIndex(p)
               \/ LoadItem(p) \/ TestSemaphore(p) \/ ClearSemaphore(p)
      PROVE HeaderInv'
  BY <1>5 DEF Spin, LoadIndex, Claim, StoreItem, StoreIndex, LoadItem, TestSemaphore,
              ClearSemaphore, TypeOK
<1>6. ASSUME NEW p \in Procs, Crash(p) PROVE HeaderInv'
  BY <1>6 DEF Crash, TypeOK
<1>7. ASSUME NEW p \in Procs, Restart(p) PROVE HeaderInv'
  <2>1. \A q \in Procs : q # p => pc'[q] = pc[q] /\ call'[q] = call[q]
    BY <1>7 DEF Restart, TypeOK
  <2>2. pc'[p] = "idle" /\ (p = Producer => call'[p] = 1)
    BY <1>7 DEF Restart, FirstCall, TypeOK
  <2>3. UNCHANGED <<hdr, op>>
    BY <1>7 DEF Restart
  <2>4. HeaderSoFar'
    BY <2>1, <2>2, <2>3, ProcsAssumption
  <2> QED
    BY <2>1, <2>2, <2>3, <2>4
<1>8. CASE UNCHANGED vars
  BY <1>8 DEF vars
<1> QED
  BY <1>1, <1>2, <1>3, <1>4, <1>5, <1>6, <1>7, <1>8 DEF Next, Call, Access

(* write_output_* never divides by a zero item count, whoever calls it and *)
(* whenever, when the producer's init writes the type after the items (the *)
(* subscribers and the MMS server do; the SI module does not).             *)
THEOREM WritersFindItems ==
  ASSUME TypeAfterItems
  PROVE  Spec => []WriterFindsItems
<1>1. Init => HeaderInv
  BY InitCallsAssumption, ProcsAssumption
     DEF Init, HeaderInv, HeaderSoFar, WriterFindsItems, FirstCall
<1>2. TypeOK /\ Control /\ HeaderInv /\ [Next]_vars => HeaderInv'
  BY HeaderStep
<1>3. HeaderInv => WriterFindsItems
  BY DEF HeaderInv
<1> QED
  BY <1>1, <1>2, <1>3, TypeCorrect, PTL DEF Spec

-----------------------------------------------------------------------------
(* With one writer, readers never go back in time.                         *)

SingleWriter == Writers \subseteq {Producer}

(* Every value already in the file is smaller than the one being written,  *)
(* and a slot is only ever overwritten with a larger value.                *)
LEMMA FreshStep ==
  ASSUME SingleWriter
  PROVE  TypeOK /\ Control /\ ValuesGrow /\ [Next]_vars => ValuesGrow'
<1> SUFFICES ASSUME TypeOK, Control, ValuesGrow, [Next]_vars PROVE ValuesGrow'
  OBVIOUS
<1> USE DEF TypeOK
<1>a. FileGrows /\ \A q \in Procs : WriteGrows(q) /\ ReadGrows(q)
  BY DEF ValuesGrow
<1>b. \A p \in Procs : op[p] = "write" \/ pc[p] = "publish" => p = Producer
  BY DEF Control, SingleWriter
<1>1. ASSUME NEW p \in Procs, BeginHeader(p) PROVE ValuesGrow'
  <2>0. InitCalls[call[p]] \in HeaderOps
    BY <1>1, InitCallsAssumption DEF BeginHeader, InitDone
  <2>1. FileGrows'
    BY <1>1, <2>0, <1>a DEF BeginHeader, Begin, FileGrows, InitDone
  <2>2. ASSUME NEW q \in Procs PROVE WriteGrows(q)'
    BY <1>1, <2>0, <1>a DEF BeginHeader, Begin, FileGrows, WriteGrows
  <2>3. ASSUME NEW q \in Procs PROVE ReadGrows(q)'
    BY <1>1, <2>0, <1>a DEF BeginHeader, Begin, FileGrows, ReadGrows
  <2> QED
    BY <2>1, <2>2, <2>3 DEF ValuesGrow
<1>2. ASSUME NEW p \in Procs, BeginWrite(p) PROVE ValuesGrow'
  <2>0. p = Producer /\ call[p] > NCalls /\ \A q \in Procs : op[q] = "write" \/ pc[q] = "publish" => q = p
    BY <1>2, <1>b DEF BeginWrite, SingleWriter, InitDone
  <2>a. /\ UNCHANGED <<data, index, published, call>> /\ started' = started + 1
        /\ op'[p] = "write" /\ pc'[p] = "spin" /\ val'[p] = started + 1
        /\ \A q \in Procs : q # p => op'[q] = op[q] /\ pc'[q] = pc[q]
    BY <1>2 DEF BeginWrite, Begin
  <2>b. FileGrows /\ started \in Nat /\ published \in Nat /\ \A i \in Slots : data[i] \in Nat
    BY <1>a
  <2>c. call[Producer] > NCalls
    BY <2>0
  <2>1. FileGrows'
    BY <2>a, <2>b, <2>c DEF FileGrows, InitDone
  <2>2. ASSUME NEW q \in Procs PROVE WriteGrows(q)'
    <3>1. CASE q = p
      BY <3>1, <2>a, <2>b DEF FileGrows, WriteGrows
    <3>2. CASE q # p
      BY <3>2, <2>a, <2>0 DEF WriteGrows
    <3> QED
      BY <3>1, <3>2
  <2>3. ASSUME NEW q \in Procs PROVE ReadGrows(q)'
    BY <1>2, <2>0, <1>a DEF BeginWrite, Begin, FileGrows, ReadGrows
  <2> QED
    BY <2>1, <2>2, <2>3 DEF ValuesGrow
<1>3. ASSUME NEW p \in Procs, BeginRead(p) PROVE ValuesGrow'
  <2>1. FileGrows'
    BY <1>3, <1>a DEF BeginRead, Begin, FileGrows, InitDone
  <2>2. ASSUME NEW q \in Procs PROVE WriteGrows(q)'
    BY <1>3, <1>a DEF BeginRead, Begin, FileGrows, WriteGrows
  <2>3. ASSUME NEW q \in Procs PROVE ReadGrows(q)'
    BY <1>3, <1>a DEF BeginRead, Begin, FileGrows, ReadGrows
  <2> QED
    BY <2>1, <2>2, <2>3 DEF ValuesGrow
<1>4. ASSUME NEW p \in Procs, BeginReadCurrent(p) PROVE ValuesGrow'
  <2>1. FileGrows'
    BY <1>4, <1>a DEF BeginReadCurrent, Begin, FileGrows, InitDone
  <2>2. ASSUME NEW q \in Procs PROVE WriteGrows(q)'
    BY <1>4, <1>a DEF BeginReadCurrent, Begin, FileGrows, WriteGrows
  <2>3. ASSUME NEW q \in Procs PROVE ReadGrows(q)'
    BY <1>4, <1>a DEF BeginReadCurrent, Begin, FileGrows, ReadGrows
  <2> QED
    BY <2>1, <2>2, <2>3 DEF ValuesGrow
<1>5. ASSUME NEW p \in Procs, Spin(p) PROVE ValuesGrow'
  <2>1. FileGrows'
    BY <1>5, <1>a DEF Spin, FileGrows, InitDone
  <2>2. ASSUME NEW q \in Procs PROVE WriteGrows(q)'
    BY <1>5, <1>a DEF Spin, FileGrows, WriteGrows
  <2>3. ASSUME NEW q \in Procs PROVE ReadGrows(q)'
    BY <1>5, <1>a DEF Spin, FileGrows, ReadGrows, Control
  <2> QED
    BY <2>1, <2>2, <2>3 DEF ValuesGrow
<1>6. ASSUME NEW p \in Procs, LoadIndex(p) PROVE ValuesGrow'
  <2>0. (index + 1) % Items \in Slots /\ (pc[p] = "publish" => slot[p] # NoSlot)
    BY NextIndex DEF Control
  <2>1. FileGrows'
    BY <1>6, <2>0, <1>a DEF LoadIndex, FileGrows, InitDone
  <2>2. ASSUME NEW q \in Procs PROVE WriteGrows(q)'
    BY <1>6, <2>0, <1>a DEF LoadIndex, FileGrows, WriteGrows
  <2>3. ASSUME NEW q \in Procs PROVE ReadGrows(q)'
    BY <1>6, <2>0, <1>a DEF LoadIndex, FileGrows, ReadGrows
  <2> QED
    BY <2>1, <2>2, <2>3 DEF ValuesGrow
<1>7. ASSUME NEW p \in Procs, Claim(p) PROVE ValuesGrow'
  <2>1. FileGrows'
    BY <1>7, <1>a DEF Claim, FileGrows, InitDone
  <2>2. ASSUME NEW q \in Procs PROVE WriteGrows(q)'
    BY <1>7, <1>a DEF Claim, FileGrows, WriteGrows
  <2>3. ASSUME NEW q \in Procs PROVE ReadGrows(q)'
    BY <1>7, <1>a DEF Claim, FileGrows, ReadGrows
  <2> QED
    BY <2>1, <2>2, <2>3 DEF ValuesGrow
<1>8. ASSUME NEW p \in Procs, StoreItem(p) PROVE ValuesGrow'
  <2>0. \A q \in Procs : op[q] = "write" \/ pc[q] = "publish" => q = p
    BY <1>8, <1>b DEF StoreItem
  <2>1. FileGrows'
    BY <1>8, <2>0, <1>a DEF StoreItem, FileGrows, WriteGrows, InitDone
  <2>2. ASSUME NEW q \in Procs PROVE WriteGrows(q)'
    BY <1>8, <2>0, <1>a DEF StoreItem, FileGrows, WriteGrows
  <2>3. ASSUME NEW q \in Procs PROVE ReadGrows(q)'
    BY <1>8, <2>0, <1>a DEF StoreItem, FileGrows, WriteGrows, ReadGrows
  <2> QED
    BY <2>1, <2>2, <2>3 DEF ValuesGrow
<1>9. ASSUME NEW p \in Procs, StoreIndex(p) PROVE ValuesGrow'
  <2>0. /\ \A q \in Procs : op[q] = "write" \/ pc[q] = "publish" => q = p
        /\ op[p] = "write" /\ slot[p] # NoSlot
    BY <1>9, <1>b DEF StoreIndex, Control
  <2>1. FileGrows'
    BY <1>9, <2>0, <1>a DEF StoreIndex, FileGrows, WriteGrows, InitDone
  <2>2. ASSUME NEW q \in Procs PROVE WriteGrows(q)'
    BY <1>9, <2>0, <1>a DEF StoreIndex, FileGrows, WriteGrows
  <2>3. ASSUME NEW q \in Procs PROVE ReadGrows(q)'
    BY <1>9, <2>0, <1>a DEF StoreIndex, FileGrows, WriteGrows, ReadGrows
  <2> QED
    BY <2>1, <2>2, <2>3 DEF ValuesGrow
<1>10. ASSUME NEW p \in Procs, LoadItem(p) PROVE ValuesGrow'
  <2>1. FileGrows'
    BY <1>10, <1>a DEF LoadItem, FileGrows, InitDone
  <2>2. ASSUME NEW q \in Procs PROVE WriteGrows(q)'
    BY <1>10, <1>a DEF LoadItem, FileGrows, WriteGrows
  <2>3. ASSUME NEW q \in Procs PROVE ReadGrows(q)'
    BY <1>10, <1>a DEF LoadItem, FileGrows, ReadGrows
  <2> QED
    BY <2>1, <2>2, <2>3 DEF ValuesGrow
<1>11. ASSUME NEW p \in Procs, StoreHeader(p) PROVE ValuesGrow'
  <2>c. op[p] \in HeaderOps /\ pc[p] = "body"
    BY <1>11 DEF StoreHeader
  <2>d. call[p] \in 1 .. NCalls + 1 /\ call[p] <= NCalls /\ (p # Producer => ~(call[p] <= NCalls))
    BY <2>c DEF Control, InitDone
  <2>a. p = Producer /\ call[p] <= NCalls
    BY <2>d
  <2>e. FileGrows
    BY <1>a
  <2>b. started = 0
    BY <2>a, <2>d, <2>e DEF FileGrows, InitDone
  <2>0. p = Producer /\ call[p] <= NCalls /\ started = 0 /\ 0 \in Slots
    BY <2>a, <2>b, ItemsAssumption
  <2>1. FileGrows'
    BY <1>11, <2>0, <1>a DEF StoreHeader, FileGrows, InitDone
  <2>2. ASSUME NEW q \in Procs PROVE WriteGrows(q)'
    BY <1>11, <2>0, <1>a DEF StoreHeader, FileGrows, WriteGrows
  <2>3. ASSUME NEW q \in Procs PROVE ReadGrows(q)'
    BY <1>11, <2>0, <1>a DEF StoreHeader, FileGrows, ReadGrows
  <2> QED
    BY <2>1, <2>2, <2>3 DEF ValuesGrow
<1>12. ASSUME NEW p \in Procs, TestSemaphore(p) PROVE ValuesGrow'
  <2>1. FileGrows'
    BY <1>12, <1>a DEF TestSemaphore, FileGrows, InitDone
  <2>2. ASSUME NEW q \in Procs PROVE WriteGrows(q)'
    BY <1>12, <1>a DEF TestSemaphore, FileGrows, WriteGrows
  <2>3. ASSUME NEW q \in Procs PROVE ReadGrows(q)'
    BY <1>12, <1>a DEF TestSemaphore, FileGrows, ReadGrows
  <2> QED
    BY <2>1, <2>2, <2>3 DEF ValuesGrow
<1>13. ASSUME NEW p \in Procs, ClearSemaphore(p) PROVE ValuesGrow'
  <2>1. FileGrows'
    BY <1>13, <1>a DEF ClearSemaphore, FileGrows, InitDone
  <2>2. ASSUME NEW q \in Procs PROVE WriteGrows(q)'
    BY <1>13, <1>a DEF ClearSemaphore, FileGrows, WriteGrows
  <2>3. ASSUME NEW q \in Procs PROVE ReadGrows(q)'
    BY <1>13, <1>a DEF ClearSemaphore, FileGrows, ReadGrows
  <2> QED
    BY <2>1, <2>2, <2>3 DEF ValuesGrow
<1>14. ASSUME NEW p \in Procs, Crash(p) PROVE ValuesGrow'
  <2>1. FileGrows'
    BY <1>14, <1>a DEF Crash, FileGrows, InitDone
  <2>2. ASSUME NEW q \in Procs PROVE WriteGrows(q)'
    BY <1>14, <1>a DEF Crash, FileGrows, WriteGrows
  <2>3. ASSUME NEW q \in Procs PROVE ReadGrows(q)'
    BY <1>14, <1>a DEF Crash, FileGrows, ReadGrows
  <2> QED
    BY <2>1, <2>2, <2>3 DEF ValuesGrow
<1>15. ASSUME NEW p \in Procs, Restart(p) PROVE ValuesGrow'
  <2>1. FileGrows'
    BY <1>15, <1>a DEF Restart, FileGrows, InitDone, FirstCall, TypeOK
  <2>2. ASSUME NEW q \in Procs PROVE WriteGrows(q)'
    BY <1>15, <1>a DEF Restart, FileGrows, WriteGrows, TypeOK
  <2>3. ASSUME NEW q \in Procs PROVE ReadGrows(q)'
    BY <1>15, <1>a DEF Restart, FileGrows, ReadGrows, TypeOK
  <2> QED
    BY <2>1, <2>2, <2>3 DEF ValuesGrow
<1>16. CASE UNCHANGED vars
  <2>1. FileGrows'
    BY <1>16, <1>a DEF vars, FileGrows, InitDone
  <2>2. ASSUME NEW q \in Procs PROVE WriteGrows(q)'
    BY <1>16, <1>a DEF vars, FileGrows, WriteGrows
  <2>3. ASSUME NEW q \in Procs PROVE ReadGrows(q)'
    BY <1>16, <1>a DEF vars, FileGrows, ReadGrows
  <2> QED
    BY <2>1, <2>2, <2>3 DEF ValuesGrow
<1> QED
  BY <1>1, <1>2, <1>3, <1>4, <1>5, <1>6, <1>7, <1>8, <1>9,
     <1>10, <1>11, <1>12, <1>13, <1>14, <1>15, <1>16 DEF Next, Call, Access

LEMMA FreshInit == Init => ValuesGrow
<1> SUFFICES ASSUME Init PROVE ValuesGrow
  OBVIOUS
<1>1. index \in Slots /\ \A i \in Slots : data[i] = 0
  BY ItemsAssumption DEF Init
<1>2. FileGrows
  BY <1>1 DEF Init, FileGrows
<1>3. ASSUME NEW p \in Procs PROVE WriteGrows(p) /\ ReadGrows(p)
  BY DEF Init, WriteGrows, ReadGrows
<1> QED
  BY <1>2, <1>3 DEF ValuesGrow

(* With one writer, the owner of the file, the item the index points at is *)
(* never older than the last index store, and read_current_input_* never   *)
(* returns an item older than the one current when it was called: for any  *)
(* number of readers, killed and started again, any ring size, and with    *)
(* the lock broken as it is.                                               *)
THEOREM ReadsAreFresh ==
  ASSUME SingleWriter
  PROVE  Spec => [](ReadIsFresh /\ IndexedItemIsStored)
<1>1. TypeOK /\ Control /\ ValuesGrow /\ [Next]_vars => ValuesGrow'
  BY FreshStep
<1>2. ValuesGrow => ReadIsFresh /\ IndexedItemIsStored
  BY DEF ValuesGrow, FileGrows, ReadGrows, ReadIsFresh, IndexedItemIsStored
<1> QED
  BY <1>1, <1>2, FreshInit, TypeCorrect, PTL DEF Spec

-----------------------------------------------------------------------------
(* The accessors of mem_file.py, next to the modules of an engine.         *)

Inner == {"inner spin", "inner claim", "inner store", "inner test", "inner clear"}
Before == {"spin", "claim", "body"}
Stored == {"inner spin", "inner claim", "inner store"}


(* Where the program is, given what it does; and a file has one writer.    *)
YControl ==
    /\ pythonWrites \in BOOLEAN /\ yval \in Nat
    /\ ypc # "idle" => InitDone(Producer)
    /\ yop = "write" => pythonWrites
    /\ ypc \in Inner => yop = "write"
    /\ ypc = "index" => yop = "current"
    /\ ypc \in Stored => yslot \in Slots
    /\ yop \in {"bool", "current"} /\ ypc \in Before => yslot \in Slots
    /\ pythonWrites => \A p \in Procs : op[p] # "write"

(* The value the program is writing is larger than all in the file.        *)
YWriteGrows ==
    /\ yop = "write" /\ ypc \in Before =>
           yval = started /\ published < started /\ \A i \in Slots : data[i] < started
    /\ ypc \in Stored => data[yslot] = yval /\ published < yval /\ yval = started

(* How far the index is behind the writes begun, while a module writes ... *)
Counts ==
    LET writing == op[Producer] = "write" /\ pc[Producer] \in Before \cup {"publish"}
    IN  \/ pc[Producer] = "dead"
        \/ ~writing /\ index = started % Items
        \/ writing /\ slot[Producer] = NoSlot /\ (index + 1) % Items = started % Items
        \/ writing /\ slot[Producer] # NoSlot /\ slot[Producer] = started % Items

(* ... and while the program does.                                         *)
YCounts ==
    \/ yop = "write" /\ ypc \in Before /\ (index + 1) % Items = started % Items
    \/ ypc \in Stored /\ yslot = started % Items
    \/ ~(yop = "write" /\ ypc \in Before) /\ ypc \notin Stored /\ index = started % Items

YTyped == TypeOK /\ Control /\ YControl

YInv ==
    /\ YTyped
    /\ ValuesGrow /\ YWriteGrows
    /\ ~pythonWrites => Counts
    /\ pythonWrites => YCounts

(* The steps of the program that store neither an item nor an index.       *)
YQuiet ==
    /\ UNCHANGED <<hdr, index, data, pc, locals, history, life, pythonWrites>>
    /\ semaphore' \in {0, 1, semaphore}
    /\ YBeginRead \/ YBeginReadCurrent \/ YBeginHeader \/ YLoadIndex \/ YSpin \/ YClaim \/ YLoadItem
         \/ YRaise \/ YStoreHeader \/ YTest \/ YClear \/ YLockFile

ModuleStep ==
    /\ \E p \in Procs : Call(p) \/ Access(p) \/ Crash(p) \/ Restart(p)
    /\ pythonWrites => started' = started
    /\ UNCHANGED <<pythonWrites, ylocals, left>>

LEMMA StepKinds ==
  ASSUME [YNext]_yvars
  PROVE  \/ ModuleStep \/ YQuiet \/ YBeginWrite \/ YStoreItem \/ YStoreIndex \/ UNCHANGED yvars
<1>1. ASSUME YBeginRead \/ YBeginReadCurrent \/ YBeginHeader PROVE YQuiet
  BY <1>1 DEF YQuiet, YBeginRead, YBeginReadCurrent, YBeginHeader, YBegin
<1>2. ASSUME YLoadIndex \/ YSpin \/ YClaim \/ YLoadItem \/ YRaise PROVE YQuiet
  BY <1>2 DEF YQuiet, YLoadIndex, YSpin, YClaim, YLoadItem, YRaise, YStep
<1>3. ASSUME YStoreHeader \/ YTest \/ YClear \/ YLockFile PROVE YQuiet
  BY <1>3 DEF YQuiet, YStoreHeader, YTest, YClear, YLockFile, YStep, YDone
<1>. QED BY <1>1, <1>2, <1>3 DEF YNext, YAccess, ModuleStep

LEMMA ModuleIsNext == ASSUME ModuleStep \/ UNCHANGED yvars PROVE [Next]_vars
  BY DEF ModuleStep, Next, yvars

LEMMA SlotAfter ==
  ASSUME NEW n \in Nat, NEW i \in Slots, i = n % Items
  PROVE  (i + 1) % Items = (n + 1) % Items
<1>1. Items \in Nat \ {0} /\ i \in Nat /\ i \in 0 .. Items - 1
  BY ItemsAssumption DEF Slots
<1>2. i % Items = i
  BY <1>1
<1>3. (i + 1) % Items = IF i % Items = Items - 1 THEN 0 ELSE (i % Items) + 1
  BY ONLY <1>1, NextSlot
<1>4. (n + 1) % Items = IF n % Items = Items - 1 THEN 0 ELSE (n % Items) + 1
  BY ONLY <1>1, n \in Nat, NextSlot
<1>. QED BY <1>2, <1>3, <1>4

-----------------------------------------------------------------------------
(* The modules of the engine, next to the program.                         *)

LEMMA ProducerStaysDone ==
  ASSUME TypeOK, InitDone(Producer), [Next]_vars
  PROVE  InitDone(Producer)'
<1>1. ASSUME NEW p \in Procs, Call(p) PROVE InitDone(Producer)'
  BY <1>1 DEF Call, BeginHeader, BeginWrite, BeginRead, BeginReadCurrent, Begin, InitDone
<1>2. ASSUME NEW p \in Procs, StoreHeader(p) PROVE InitDone(Producer)'
  <2>1. call \in [Procs -> 1 .. 5] /\ Producer \in Procs
    BY ProcsAssumption DEF TypeOK
  <2>2. call' = [call EXCEPT ![p] = @ + 1]
    BY <1>2 DEF StoreHeader
  <2>. QED BY <2>1, <2>2 DEF InitDone
<1>3. ASSUME NEW p \in Procs, Access(p), ~StoreHeader(p) PROVE InitDone(Producer)'
  BY <1>3 DEF Access, Spin, LoadIndex, Claim, StoreItem, StoreIndex, LoadItem, TestSemaphore,
              ClearSemaphore, InitDone
<1>4. ASSUME NEW p \in Procs, Crash(p) \/ Restart(p) PROVE InitDone(Producer)'
  <2>1. call' = call \/ (p # Producer /\ call' = [call EXCEPT ![p] = FirstCall(p)])
    BY <1>4 DEF Crash, Restart
  <2>2. call \in [Procs -> 1 .. 5] /\ Producer \in Procs
    BY ProcsAssumption DEF TypeOK
  <2>. QED BY <2>1, <2>2 DEF InitDone
<1>5. CASE UNCHANGED vars
  BY <1>5 DEF vars, InitDone
<1>. QED BY <1>1, <1>2, <1>3, <1>4, <1>5 DEF Next

(* When the program is the writer, the modules store nothing but headers.  *)
LEMMA ModulesRead ==
  ASSUME TypeOK, Control, ModuleStep, pythonWrites, \A p \in Procs : op[p] # "write"
  PROVE  /\ UNCHANGED <<data, published, started>>
         /\ index' = index \/ (index' = 0 /\ ~InitDone(Producer))
         /\ \A p \in Procs : op'[p] # "write"
<1>. DEFINE Reads == /\ UNCHANGED <<data, published, started>>
                     /\ index' = index \/ (index' = 0 /\ ~InitDone(Producer))
                     /\ \A p \in Procs : op'[p] # "write"
<1>0. started \in Nat /\ started' = started
  BY DEF TypeOK, ModuleStep
<1>1. ASSUME NEW p \in Procs, BeginHeader(p) PROVE Reads
  <2>1. InitCalls[call[p]] \in HeaderOps
    BY <1>1, InitCallsAssumption DEF TypeOK, BeginHeader, InitDone
  <2>. QED BY <1>1, <2>1 DEF TypeOK, BeginHeader, Begin, HeaderOps
<1>2. ASSUME NEW p \in Procs, BeginWrite(p) PROVE Reads
  BY <1>0, <1>2 DEF BeginWrite
<1>3. ASSUME NEW p \in Procs, BeginRead(p) \/ BeginReadCurrent(p) PROVE Reads
  BY <1>3 DEF TypeOK, BeginRead, BeginReadCurrent, Begin
<1>4. ASSUME NEW p \in Procs, StoreHeader(p) PROVE Reads
  <2>1. ~InitDone(Producer)
    <3>1. call[p] <= 4 /\ (p # Producer => InitDone(p))
      BY <1>4 DEF Control, StoreHeader
    <3>2. call[p] \in 1 .. 5
      BY DEF TypeOK
    <3>. QED BY <3>1, <3>2 DEF InitDone
  <2>2. UNCHANGED <<data, op, published, started>> /\ index' \in {0, index}
    BY <1>4 DEF StoreHeader
  <2>. QED BY <2>1, <2>2
<1>5. ASSUME NEW p \in Procs, StoreItem(p) \/ StoreIndex(p) PROVE Reads
  BY <1>5 DEF Control, StoreItem, StoreIndex
<1>6. ASSUME NEW p \in Procs, Spin(p) \/ LoadIndex(p) \/ Claim(p) \/ LoadItem(p) PROVE Reads
  BY <1>6 DEF Spin, LoadIndex, Claim, LoadItem
<1>7. ASSUME NEW p \in Procs, TestSemaphore(p) \/ ClearSemaphore(p) PROVE Reads
  BY <1>7 DEF TestSemaphore, ClearSemaphore
<1>8. ASSUME NEW p \in Procs, Crash(p) \/ Restart(p) PROVE Reads
  BY <1>8 DEF Crash, Restart
<1>. QED
  BY <1>1, <1>2, <1>3, <1>4, <1>5, <1>6, <1>7, <1>8 DEF ModuleStep, Call, Access

-----------------------------------------------------------------------------
(* Types, and where the program is.                                        *)

LEMMA YInit1 == YInit => YInv
<1>. SUFFICES ASSUME YInit PROVE YInv
  OBVIOUS
<1>1. TypeOK /\ Control /\ ValuesGrow
  BY ControlInit, FreshInit DEF YInit
<1>2. YControl /\ YWriteGrows
  <2>1. pythonWrites \in BOOLEAN /\ ypc = "idle" /\ yop = "bool" /\ yval = 0
    BY DEF YInit
  <2>2. \A p \in Procs : op[p] # "write"
    BY DEF YInit, Init
  <2>. QED BY <2>1, <2>2 DEF YControl, YWriteGrows, Inner, Before, Stored
<1>3. index = started % Items
  BY ItemsAssumption DEF YInit, Init
<1>4. Counts
  <2>1. op[Producer] = "read" /\ pc[Producer] = "idle"
    BY ProcsAssumption DEF YInit, Init
  <2>. QED BY <1>3, <2>1 DEF Counts, Before
<1>5. YCounts
  BY <1>3 DEF YInit, YCounts, Stored
<1>. QED BY <1>1, <1>2, <1>4, <1>5 DEF YInv, YTyped

LEMMA TypedStep ==
  ASSUME YTyped, [YNext]_yvars
  PROVE  YTyped'
<1>. USE DEF YTyped
<1>1. CASE ModuleStep \/ UNCHANGED yvars
  <2>1. TypeOK' /\ Control'
    BY <1>1, ModuleIsNext, ControlStep
  <2>2. InitDone(Producer) => InitDone(Producer)'
    BY <1>1, ModuleIsNext, ProducerStaysDone
  <2>3. UNCHANGED <<pythonWrites, ypc, yop, yslot, yval>>
    BY <1>1 DEF ModuleStep, yvars, ylocals
  <2>4. pythonWrites => \A p \in Procs : op'[p] # "write"
    <3>1. CASE ModuleStep
      BY <3>1, ModulesRead DEF YControl
    <3>2. CASE UNCHANGED yvars
      BY <3>2 DEF YControl, yvars, vars
    <3>. QED BY <1>1, <3>1, <3>2
  <2>. QED BY <2>1, <2>2, <2>3, <2>4 DEF YControl
<1>2. CASE YQuiet
  <2>1. TypeOK'
    BY <1>2 DEF YQuiet, TypeOK
  <2>2. Control'
    BY <1>2 DEF YQuiet, Control, InitDone
  <2>3. (/\ pythonWrites \in BOOLEAN /\ (ypc # "idle" => InitDone(Producer))
         /\ (pythonWrites => \A p \in Procs : op[p] # "write"))'
    BY <1>2 DEF YQuiet, YControl, InitDone, YBeginRead, YBeginReadCurrent, YBeginHeader, YBegin,
                YLoadIndex, YSpin, YClaim, YLoadItem, YRaise, YStoreHeader, YTest, YClear, YLockFile,
                YStep, YDone, ylocals
  <2>4. yval' \in Nat
    <3>1. ypc = "body" /\ yop \in {"bool", "current"} => data[yslot] \in Nat
      BY DEF YControl, TypeOK, Before
    <3>2. yval' \in {0, yval} \/ (YLoadItem /\ yval' = data[yslot])
      BY <1>2 DEF YQuiet, YBeginRead, YBeginReadCurrent, YBeginHeader, YBegin, YLoadIndex, YSpin, YClaim,
                  YLoadItem, YRaise, YStoreHeader, YTest, YClear, YLockFile, YStep, YDone, ylocals
    <3>3. YLoadItem => ypc = "body" /\ yop \in {"bool", "current"}
      BY DEF YLoadItem, YStep
    <3>. QED BY <3>1, <3>2, <3>3 DEF YControl
  <2>5. (/\ yop = "write" => pythonWrites
         /\ ypc \in Inner => yop = "write"
         /\ ypc = "index" => yop = "current"
         /\ ypc \in Stored => yslot \in Slots
         /\ yop \in {"bool", "current"} /\ ypc \in Before => yslot \in Slots)'
    <3>. USE DEF YControl, TypeOK, Before, Inner, Stored
    <3>1. CASE YBeginRead \/ YBeginReadCurrent \/ YBeginHeader
      BY <1>2, <3>1 DEF YBeginRead, YBeginReadCurrent, YBeginHeader, YBegin
    <3>2. CASE YLoadIndex \/ YSpin \/ YClaim \/ YLoadItem \/ YRaise
      BY <1>2, <3>2 DEF YLoadIndex, YSpin, YClaim, YLoadItem, YRaise, YStep
    <3>3. CASE YStoreHeader \/ YTest \/ YClear \/ YLockFile
      BY <1>2, <3>3 DEF YStoreHeader, YTest, YClear, YLockFile, YStep, YDone, ylocals
    <3>. QED BY <1>2, <3>1, <3>2, <3>3 DEF YQuiet
  <2>. QED BY <2>1, <2>2, <2>3, <2>4, <2>5 DEF YControl
<1>3. CASE YBeginWrite
  <2>1. TypeOK'
    BY <1>3 DEF YBeginWrite, YBegin, TypeOK
  <2>2. Control'
    BY <1>3 DEF YBeginWrite, YBegin, Control, InitDone
  <2>3. YControl'
    BY <1>3 DEF YBeginWrite, YBegin, YControl, TypeOK, InitDone, Inner, Stored, Before
  <2>. QED BY <2>1, <2>2, <2>3
<1>4. CASE YStoreItem
  <2>1. yslot' \in Slots
    BY <1>4, NextIndex DEF YStoreItem, TypeOK
  <2>2. TypeOK'
    BY <1>4, <2>1 DEF YStoreItem, YControl, TypeOK
  <2>3. Control'
    BY <1>4 DEF YStoreItem, Control, InitDone
  <2>4. YControl'
    BY <1>4, <2>1 DEF YStoreItem, YStep, YControl, InitDone, Inner, Stored, Before
  <2>. QED BY <2>2, <2>3, <2>4
<1>5. CASE YStoreIndex
  <2>1. TypeOK'
    BY <1>5 DEF YStoreIndex, YStep, YControl, TypeOK, Stored
  <2>2. Control'
    BY <1>5 DEF YStoreIndex, Control, InitDone
  <2>3. YControl'
    BY <1>5 DEF YStoreIndex, YStep, YControl, InitDone, Inner, Stored, Before
  <2>. QED BY <2>1, <2>2, <2>3
<1>. QED BY <1>1, <1>2, <1>3, <1>4, <1>5, StepKinds

-----------------------------------------------------------------------------
(* The values in the file grow.                                            *)

LEMMA GrowsStep ==
  ASSUME SingleWriter, YTyped, ValuesGrow, YWriteGrows, [YNext]_yvars
  PROVE  ValuesGrow' /\ YWriteGrows'
<1>. USE DEF YTyped
<1>0. /\ FileGrows /\ \A p \in Procs : WriteGrows(p) /\ ReadGrows(p)
      /\ index \in Slots /\ started \in Nat /\ published \in Nat
      /\ data \in [Slots -> Nat] /\ asked \in [Procs -> Nat] /\ slot \in [Procs -> Slots \cup {NoSlot}]
  BY DEF ValuesGrow, TypeOK
<1>a. /\ started \in Nat /\ published \in Nat /\ published <= started
      /\ \A i \in Slots : data[i] \in Nat /\ data[i] <= started
      /\ ~InitDone(Producer) => started = 0
  BY <1>0 DEF FileGrows
<1>b. index \in Slots /\ data[index] >= published
  BY <1>0 DEF FileGrows
<1>c. ASSUME NEW p \in Procs
      PROVE  /\ asked[p] \in Nat /\ asked[p] <= published
             /\ op[p] = "current" /\ pc[p] \in {"claim", "body"} /\ slot[p] # NoSlot =>
                    slot[p] \in Slots /\ data[slot[p]] >= asked[p]
             /\ op[p] = "current" /\ pc[p] \in {"test", "clear"} => val[p] >= asked[p]
  BY <1>0 DEF ReadGrows
<1>1. CASE ModuleStep \/ UNCHANGED yvars
  <2>1. ValuesGrow'
    BY <1>1, ModuleIsNext, FreshStep
  <2>2. UNCHANGED <<ypc, yop, yslot, yval>>
    BY <1>1 DEF ModuleStep, yvars, ylocals
  <2>3. yop = "write" => UNCHANGED <<data, published, started>>
    BY <1>1, ModulesRead DEF YControl, yvars, vars
  <2>4. YWriteGrows'
    BY <2>2, <2>3 DEF YWriteGrows, YControl, Inner, Stored
  <2>. QED BY <2>1, <2>4
<1>2. CASE YQuiet
  <2>1. UNCHANGED <<index, data, pc, op, slot, val, call, started, published, asked>>
    BY <1>2 DEF YQuiet
  <2>2. ValuesGrow'
    BY <1>0, <2>1 DEF ValuesGrow, FileGrows, WriteGrows, ReadGrows, InitDone
  <2>3. YWriteGrows'
    <3>. USE DEF YWriteGrows, YControl, Before, Inner, Stored
    <3>1. CASE YBeginRead \/ YBeginReadCurrent \/ YBeginHeader
      BY <2>1, <3>1 DEF YBeginRead, YBeginReadCurrent, YBeginHeader, YBegin
    <3>2. CASE YLoadIndex \/ YSpin \/ YClaim
      <4>1. yop' = yop /\ yval' = yval /\ (yslot' = yslot \/ ypc = "index")
        BY <3>2 DEF YLoadIndex, YSpin, YClaim, YStep
      <4>2. \/ ypc = "index" /\ ypc' = "spin"
            \/ ypc = "spin" /\ ypc' = "claim"
            \/ ypc = "claim" /\ ypc' = "body"
            \/ ypc = "inner spin" /\ ypc' = "inner claim"
            \/ ypc = "inner claim" /\ ypc' = "inner store"
        BY <3>2 DEF YLoadIndex, YSpin, YClaim, YStep
      <4>3. yop = "write" => ypc # "index"
        BY DEF YControl
      <4>. QED BY <2>1, <4>1, <4>2, <4>3
    <3>3. CASE YLoadItem \/ YRaise \/ YStoreHeader \/ YTest \/ YClear
      BY <2>1, <3>3 DEF YLoadItem, YRaise, YStoreHeader, YTest, YClear, YStep, YDone
    <3>4. CASE YLockFile
      BY <2>1, <3>4 DEF YLockFile, ylocals
    <3>. QED BY <1>2, <3>1, <3>2, <3>3, <3>4 DEF YQuiet
  <2>. QED BY <2>2, <2>3
<1>3. CASE YBeginWrite
  <2>1. /\ UNCHANGED <<index, data, pc, op, slot, val, call, published, asked>> /\ started' = started + 1
        /\ yop' = "write" /\ ypc' = "spin" /\ yval' = started + 1 /\ InitDone(Producer)
        /\ pythonWrites
    BY <1>3 DEF YBeginWrite, YBegin
  <2>2. \A p \in Procs : op[p] # "write" /\ pc[p] # "publish"
    BY <2>1 DEF YControl, Control
  <2>3. ValuesGrow'
    <3>1. FileGrows'
      BY <1>0, <2>1 DEF FileGrows, InitDone
    <3>2. \A p \in Procs : WriteGrows(p)' /\ ReadGrows(p)'
      BY <1>0, <2>1, <2>2 DEF WriteGrows, ReadGrows
    <3>. QED BY <3>1, <3>2 DEF ValuesGrow
  <2>4. YWriteGrows'
    <3>1. published < started + 1 /\ \A i \in Slots : data[i] < started + 1
      BY <1>a
    <3>. QED BY <2>1, <3>1 DEF YWriteGrows, Stored
  <2>. QED BY <2>3, <2>4
<1>4. CASE YStoreItem
  <2>1. /\ UNCHANGED <<index, pc, op, slot, val, call, published, started, asked, yval, yop>>
        /\ data' = [data EXCEPT ![yslot'] = yval] /\ yslot' \in Slots
        /\ yop = "write" /\ ypc = "body" /\ ypc' = "inner spin"
    BY <1>4, NextIndex DEF YStoreItem, YStep, TypeOK
  <2>2. yval = started /\ published < started /\ \A i \in Slots : data[i] < started
    BY <2>1 DEF YWriteGrows, Before
  <2>3. \A i \in Slots : data'[i] = yval \/ data'[i] = data[i]
    BY <1>0, <2>1
  <2>4. \A p \in Procs : op[p] # "write" /\ pc[p] # "publish"
    BY <2>1 DEF YControl, Control
  <2>5. ValuesGrow'
    <3>1. FileGrows'
      <4>1. InitDone(Producer)' = InitDone(Producer)
        BY <2>1 DEF InitDone
      <4>2. \A i \in Slots : data'[i] <= started
        BY <1>a, <2>2, <2>3
      <4>3. data'[index] >= published
        BY <1>a, <1>b, <2>2, <2>3
      <4>. QED BY <1>a, <2>1, <4>1, <4>2, <4>3 DEF FileGrows
    <3>2. \A p \in Procs : WriteGrows(p)'
      BY <2>1, <2>4 DEF WriteGrows
    <3>3. ASSUME NEW p \in Procs PROVE ReadGrows(p)'
      <4>1. op[p] = "current" /\ pc[p] \in {"claim", "body"} /\ slot[p] # NoSlot =>
              data'[slot[p]] >= asked[p]
        BY <1>a, <1>c, <2>2, <2>3
      <4>. QED BY <1>c, <2>1, <4>1 DEF ReadGrows
    <3>. QED BY <3>1, <3>2, <3>3 DEF ValuesGrow
  <2>6. YWriteGrows'
    BY <1>0, <2>1, <2>2 DEF YWriteGrows, Before, Stored
  <2>. QED BY <2>5, <2>6
<1>5. CASE YStoreIndex
  <2>1. /\ UNCHANGED <<data, pc, op, slot, val, call, started, asked, yval, yslot, yop>>
        /\ index' = yslot /\ published' = yval /\ ypc = "inner store" /\ ypc' = "inner test"
    BY <1>5 DEF YStoreIndex, YStep
  <2>2. data[yslot] = yval /\ published < yval /\ yval = started /\ yop = "write"
    BY <2>1 DEF YWriteGrows, YControl, Inner, Stored
  <2>3. \A p \in Procs : op[p] # "write" /\ pc[p] # "publish"
    BY <2>2 DEF YControl, Control
  <2>4. ValuesGrow'
    <3>1. FileGrows'
      <4>1. InitDone(Producer)' = InitDone(Producer)
        BY <2>1 DEF InitDone
      <4>2. published' <= started' /\ data'[index'] >= published'
        <5>1. data'[index'] = started /\ published' = started /\ started' = started
          BY <2>1, <2>2
        <5>. QED BY <1>a, <5>1
      <4>3. \A i \in Slots : data'[i] <= started'
        BY <1>a, <2>1
      <4>4. ~InitDone(Producer)' => started' = 0
        BY <1>a, <2>1, <4>1
      <4>. QED BY <4>2, <4>3, <4>4 DEF FileGrows
    <3>2. \A p \in Procs : WriteGrows(p)'
      BY <2>1, <2>3 DEF WriteGrows
    <3>3. ASSUME NEW p \in Procs PROVE ReadGrows(p)'
      <4>1. asked[p] <= yval
        BY <1>a, <1>c, <2>2
      <4>. QED BY <1>c, <2>1, <4>1 DEF ReadGrows
    <3>. QED BY <3>1, <3>2, <3>3 DEF ValuesGrow
  <2>5. YWriteGrows'
    BY <2>1 DEF YWriteGrows, Before, Stored
  <2>. QED BY <2>4, <2>5
<1>. QED BY <1>1, <1>2, <1>3, <1>4, <1>5, StepKinds

-----------------------------------------------------------------------------
(* The index counts the writes.                                            *)

(* The steps of a process that is not the producer.                        *)
LEMMA OthersStoreNothing ==
  ASSUME SingleWriter, TypeOK, Control, NEW p \in Procs, p # Producer,
         Call(p) \/ Access(p) \/ Crash(p) \/ Restart(p)
  PROVE  /\ UNCHANGED <<index, started>>
         /\ pc'[Producer] = pc[Producer] /\ op'[Producer] = op[Producer]
         /\ slot'[Producer] = slot[Producer]
<1>. DEFINE Same == /\ UNCHANGED <<index, started>>
                    /\ pc'[Producer] = pc[Producer] /\ op'[Producer] = op[Producer]
                    /\ slot'[Producer] = slot[Producer]
<1>0. p \notin Writers /\ op[p] # "write" /\ InitDone(p) /\ Producer \in Procs
      /\ ~(op[p] \in HeaderOps /\ pc[p] = "body")
  <2>1. p \notin Writers /\ op[p] # "write" /\ InitDone(p) /\ Producer \in Procs
    BY ProcsAssumption DEF SingleWriter, Control
  <2>2. op[p] \in HeaderOps /\ pc[p] = "body" => call[p] <= 4
    BY DEF Control
  <2>3. call[p] \in 1 .. 5
    BY DEF TypeOK
  <2>. QED BY <2>1, <2>2, <2>3 DEF InitDone
<1>1. pc \in [Procs -> Points] /\ op \in [Procs -> Ops] /\ slot \in [Procs -> Slots \cup {NoSlot}]
  BY DEF TypeOK
<1>2. CASE Call(p)
  <2>1. BeginRead(p) \/ BeginReadCurrent(p)
    BY <1>0, <1>2 DEF Call, BeginHeader, BeginWrite
  <2>. QED BY <1>0, <1>1, <2>1 DEF BeginRead, BeginReadCurrent, Begin
<1>3. CASE Access(p)
  <2>1. ~StoreItem(p) /\ ~StoreIndex(p) /\ ~StoreHeader(p)
    BY <1>0 DEF StoreItem, StoreIndex, StoreHeader, Control
  <2>. QED BY <1>0, <1>1, <1>3, <2>1
           DEF Access, Spin, LoadIndex, Claim, LoadItem, TestSemaphore, ClearSemaphore
<1>4. CASE Crash(p) \/ Restart(p)
  BY <1>0, <1>1, <1>4 DEF Crash, Restart
<1>. QED BY <1>2, <1>3, <1>4

LEMMA CountsStep ==
  ASSUME SingleWriter, YTyped, ValuesGrow, Counts, NEW p \in Procs,
         Call(p) \/ Access(p) \/ Crash(p) \/ Restart(p)
  PROVE  Counts'
<1>. DEFINE w == Producer
<1>0. /\ TypeOK /\ Control /\ w \in Procs /\ Items \in Nat \ {0}
      /\ pc \in [Procs -> Points] /\ op \in [Procs -> Ops]
      /\ slot \in [Procs -> Slots \cup {NoSlot}] /\ started \in Nat /\ index \in Slots
  BY ProcsAssumption, ItemsAssumption DEF YTyped, TypeOK
<1>1. CASE p # Producer
  BY <1>0, <1>1, OthersStoreNothing DEF Counts
<1>2. CASE p = Producer /\ BeginHeader(p)
  <2>1. InitCalls[call[p]] \in HeaderOps
    BY <1>0, <1>2, InitCallsAssumption DEF TypeOK, BeginHeader, InitDone
  <2>. QED BY <1>0, <1>2, <2>1 DEF BeginHeader, Begin, Counts, Before
<1>3. CASE p = Producer /\ BeginWrite(p)
  <2>1. index = started % Items
    BY <1>3 DEF BeginWrite, Begin, Counts, Before
  <2>2. (index + 1) % Items = (started + 1) % Items
    BY <1>0, <2>1, SlotAfter
  <2>3. UNCHANGED index /\ started' = started + 1
    BY <1>3 DEF BeginWrite, Begin
  <2>4. op'[w] = "write" /\ pc'[w] = "spin" /\ slot'[w] = NoSlot
    BY <1>0, <1>3 DEF BeginWrite, Begin
  <2>. QED BY <2>2, <2>3, <2>4 DEF Counts, Before
<1>4. CASE p = Producer /\ (BeginRead(p) \/ BeginReadCurrent(p))
  BY <1>0, <1>4 DEF BeginRead, BeginReadCurrent, Begin, Counts, Before
<1>5. CASE p = Producer /\ LoadIndex(p)
  <2>1. /\ UNCHANGED <<index, started, pc, op>> /\ pc[w] \in {"claim", "body"} /\ slot[w] = NoSlot
        /\ op[w] = "write" => slot'[w] = (index + 1) % Items
        /\ op[w] \in {"write", "current"}
    BY <1>0, <1>5 DEF LoadIndex
  <2>2. (index + 1) % Items # NoSlot
    BY <1>0
  <2>. QED BY <2>1, <2>2 DEF Counts, Before
<1>6. CASE p = Producer /\ (Spin(p) \/ Claim(p) \/ LoadItem(p) \/ TestSemaphore(p) \/ ClearSemaphore(p))
  BY <1>0, <1>6 DEF Spin, Claim, LoadItem, TestSemaphore, ClearSemaphore, Counts, Before
<1>7. CASE p = Producer /\ (StoreItem(p) \/ StoreIndex(p))
  BY <1>0, <1>7 DEF StoreItem, StoreIndex, Counts, Before, Control
<1>8. CASE p = Producer /\ StoreHeader(p)
  <2>1. started = 0
    <3>1. call[p] <= 4 /\ call[p] \in 1 .. 5
      BY <1>0, <1>8 DEF StoreHeader, Control, TypeOK
    <3>. QED BY <1>8, <3>1 DEF ValuesGrow, FileGrows, InitDone
  <2>2. index' \in {0, index} /\ started' = started /\ op'[w] \in HeaderOps
    BY <1>8 DEF StoreHeader
  <2>3. index = started % Items \/ pc[w] = "dead"
    BY <1>8 DEF StoreHeader, Counts
  <2>4. pc[w] # "dead"
    BY <1>8 DEF StoreHeader
  <2>5. 0 % Items = 0
    BY <1>0
  <2>. QED BY <2>1, <2>2, <2>3, <2>4, <2>5 DEF Counts
<1>9. CASE p = Producer /\ (Crash(p) \/ Restart(p))
  BY <1>0, <1>9 DEF Crash, Restart, Counts
<1>. QED
  BY <1>1, <1>2, <1>3, <1>4, <1>5, <1>6, <1>7, <1>8, <1>9 DEF Call, Access

LEMMA YCountsStep ==
  ASSUME SingleWriter, YInv, [YNext]_yvars
  PROVE  (~pythonWrites => Counts)' /\ (pythonWrites => YCounts)'
<1>0. /\ YTyped /\ TypeOK /\ Control /\ YControl /\ ValuesGrow /\ YWriteGrows
      /\ started \in Nat /\ index \in Slots /\ Items \in Nat \ {0}
      /\ ~pythonWrites => Counts
      /\ pythonWrites => YCounts
  BY ItemsAssumption DEF YInv, YTyped, TypeOK
<1>1. CASE ModuleStep
  <2>1. UNCHANGED <<pythonWrites, ypc, yop, yslot>>
    BY <1>1 DEF ModuleStep, ylocals
  <2>2. ~pythonWrites => Counts'
    BY <1>0, <1>1, CountsStep DEF ModuleStep
  <2>3. ASSUME pythonWrites PROVE YCounts'
    <3>1. UNCHANGED started /\ (index' = index \/ (index' = 0 /\ ~InitDone(Producer)))
      BY <1>0, <1>1, <2>3, ModulesRead DEF YControl
    <3>2. ~InitDone(Producer) => ypc = "idle" /\ started = 0
      BY <1>0 DEF YControl, ValuesGrow, FileGrows
    <3>3. 0 % Items = 0
      BY <1>0
    <3>. QED BY <1>0, <2>1, <2>3, <3>1, <3>2, <3>3 DEF YCounts, Before, Stored
  <2>. QED BY <2>1, <2>2, <2>3
<1>2. CASE UNCHANGED yvars
  BY <1>0, <1>2 DEF yvars, vars, ylocals, Counts, YCounts
<1>3. CASE YQuiet
  <2>1. UNCHANGED <<index, started, pc, op, slot, pythonWrites>>
    BY <1>3 DEF YQuiet
  <2>2. ~pythonWrites => Counts'
    BY <1>0, <2>1 DEF Counts
  <2>3. ASSUME pythonWrites PROVE YCounts'
    <3>. USE DEF YCounts, Before, Stored
    <3>1. CASE YBeginRead \/ YBeginReadCurrent \/ YBeginHeader
      BY <1>0, <2>1, <2>3, <3>1 DEF YBeginRead, YBeginReadCurrent, YBeginHeader, YBegin
    <3>2. CASE YLoadIndex \/ YSpin \/ YClaim
      BY <1>0, <2>1, <2>3, <3>2 DEF YControl, YLoadIndex, YSpin, YClaim, YStep
    <3>3. CASE YLoadItem \/ YRaise \/ YStoreHeader \/ YTest \/ YClear
      BY <1>0, <2>1, <2>3, <3>3 DEF YLoadItem, YRaise, YStoreHeader, YTest, YClear, YStep, YDone
    <3>4. CASE YLockFile
      BY <1>0, <2>1, <2>3, <3>4 DEF YLockFile, ylocals
    <3>. QED BY <1>3, <3>1, <3>2, <3>3, <3>4 DEF YQuiet
  <2>. QED BY <2>1, <2>2, <2>3
<1>4. CASE YBeginWrite
  <2>1. /\ index' = index /\ started' = started + 1 /\ pythonWrites /\ pythonWrites'
        /\ ypc = "idle" /\ yop' = "write" /\ ypc' = "spin"
    BY <1>4 DEF YBeginWrite, YBegin
  <2>2. index = started % Items
    BY <1>0, <2>1 DEF YCounts, Before, Stored
  <2>3. (index + 1) % Items = (started + 1) % Items
    BY <1>0, <2>2, SlotAfter
  <2>. QED BY <2>1, <2>3 DEF YCounts, Before
<1>5. CASE YStoreItem
  <2>1. /\ UNCHANGED <<index, started, pythonWrites>> /\ yslot' = (index + 1) % Items
        /\ ypc = "body" /\ yop = "write" /\ ypc' = "inner spin"
    BY <1>5 DEF YStoreItem, YStep
  <2>. QED BY <1>0, <2>1 DEF YControl, YCounts, Before, Stored
<1>6. CASE YStoreIndex
  <2>1. /\ index' = yslot /\ UNCHANGED <<started, pythonWrites>>
        /\ ypc = "inner store" /\ ypc' = "inner test"
    BY <1>6 DEF YStoreIndex, YStep
  <2>. QED BY <1>0, <2>1 DEF YControl, YCounts, Before, Stored, Inner
<1>. QED BY <1>1, <1>2, <1>3, <1>4, <1>5, <1>6, StepKinds

-----------------------------------------------------------------------------
(* The semaphore.                                                          *)

LEMMA ClearIsNotSet == \A s : s = 1 => s # 0
OBVIOUS

LEMMA YOwnerStep ==
  ASSUME YTyped, YSetSemaphoreHasOwner, [YNext]_yvars
  PROVE  YSetSemaphoreHasOwner'
<1>. SUFFICES ASSUME semaphore' = 1, ypc' \notin YInside
              PROVE  left' \/ orphaned' \/ \E q \in Procs : pc'[q] \in Inside
  BY DEF YSetSemaphoreHasOwner
<1>1. CASE ModuleStep \/ UNCHANGED yvars
  <2>1. left' = left /\ ypc' = ypc
    BY <1>1 DEF ModuleStep, yvars, ylocals
  <2>2. CASE left
    BY <2>1, <2>2
  <2>3. CASE ~left
    <3>1. SetSemaphoreHasOwner
      BY <2>1, <2>3 DEF YSetSemaphoreHasOwner, SetSemaphoreHasOwner
    <3>2. SetSemaphoreHasOwner'
      BY <1>1, <3>1, ModuleIsNext, OwnerStep DEF YTyped
    <3>. QED BY <3>2 DEF SetSemaphoreHasOwner
  <2>. QED BY <2>2, <2>3
<1>2. CASE YQuiet
  <2>1. UNCHANGED <<pc, orphaned>>
    BY <1>2 DEF YQuiet
  <2>2. ~YClear /\ ~YLockFile
    BY DEF YClear, YLockFile
  <2>3. ~YTest
    <3>1. YTest => semaphore' = semaphore
      BY DEF YTest
    <3>2. YTest => semaphore = 0 \/ ypc' \in {"clear", "inner clear", "test"}
      BY DEF YTest, YStep
    <3>3. semaphore' # 0
      BY ClearIsNotSet
    <3>. QED BY <3>1, <3>2, <3>3 DEF YInside
  <2>4. ~YStoreHeader /\ ~YClaim
    BY DEF YStoreHeader, YClaim, YStep, YInside
  <2>5. ~YLoadItem
    BY DEF YLoadItem, YStep, YInside
  <2>6. CASE YRaise
    BY <2>6 DEF YRaise
  <2>7. CASE YBeginRead \/ YBeginReadCurrent \/ YBeginHeader
    <3>1. left' = left /\ semaphore' = semaphore /\ ypc = "idle"
      BY <2>7 DEF YBeginRead, YBeginReadCurrent, YBeginHeader, YBegin
    <3>. QED BY <2>1, <3>1 DEF YSetSemaphoreHasOwner, YInside
  <2>8. CASE YLoadIndex \/ YSpin
    <3>1. left' = left /\ semaphore' = semaphore
      BY <2>8 DEF YLoadIndex, YSpin
    <3>2. ypc \in {"index", "spin", "inner spin"} /\ (ypc = "inner spin" => ypc' = "inner claim")
      BY <2>8 DEF YLoadIndex, YSpin, YStep
    <3>. QED BY <2>1, <3>1, <3>2 DEF YSetSemaphoreHasOwner, YInside
  <2>. QED BY <1>2, <2>2, <2>3, <2>4, <2>5, <2>6, <2>7, <2>8 DEF YQuiet
<1>3. CASE YBeginWrite
  <2>1. left' = left /\ UNCHANGED <<semaphore, pc, orphaned>> /\ ypc = "idle"
    BY <1>3 DEF YBeginWrite, YBegin
  <2>. QED BY <2>1 DEF YSetSemaphoreHasOwner, YInside
<1>4. CASE YStoreItem \/ YStoreIndex
  BY <1>4 DEF YStoreItem, YStoreIndex, YStep, YInside
<1>. QED BY <1>1, <1>2, <1>3, <1>4, StepKinds

(* Nobody can clear the semaphore the program waits for, and no process    *)
(* passes its spin while it is set.                                        *)
LEMMA WaitsStep ==
  ASSUME YTyped, WaitsAlone, [YNext]_yvars
  PROVE  WaitsAlone'
<1>1. CASE ModuleStep
  <2>1. pc \in [Procs -> Points] /\ semaphore = 1 /\ ypc' = "inner spin"
        /\ \A p \in Procs : pc[p] \notin Inside \cup {"claim"}
    BY <1>1 DEF YTyped, TypeOK, WaitsAlone, ModuleStep, ylocals
  <2>2. PICK p \in Procs : Call(p) \/ Access(p) \/ Crash(p) \/ Restart(p)
    BY <1>1 DEF ModuleStep
  <2>3. CASE Call(p)
    BY <2>1, <2>3 DEF Call, BeginHeader, BeginWrite, BeginRead, BeginReadCurrent, Begin, WaitsAlone
  <2>4. CASE Access(p)
    <3>a. semaphore # 0
      BY <2>1, ClearIsNotSet
    <3>b. pc[p] \notin {"claim", "body", "publish", "test", "clear"}
      BY ONLY <2>1, p \in Procs DEF Inside
    <3>0. pc[p] \notin {"claim", "body", "publish", "test", "clear"} /\ semaphore # 0
      BY ONLY <3>a, <3>b
    <3>1. LoadIndex(p)
      <4>1. ~Spin(p) /\ ~Claim(p) /\ ~StoreItem(p) /\ ~StoreIndex(p)
        BY <3>0 DEF Spin, Claim, StoreItem, StoreIndex
      <4>2. ~LoadItem(p) /\ ~StoreHeader(p) /\ ~TestSemaphore(p) /\ ~ClearSemaphore(p)
        BY <3>0 DEF LoadItem, StoreHeader, TestSemaphore, ClearSemaphore
      <4>. QED BY <2>4, <4>1, <4>2 DEF Access
    <3>. QED BY <2>1, <3>1 DEF LoadIndex, WaitsAlone
  <2>5. CASE Crash(p) \/ Restart(p)
    BY <2>1, <2>5 DEF Crash, Restart, WaitsAlone
  <2>. QED BY <2>2, <2>3, <2>4, <2>5
<1>2. CASE UNCHANGED yvars
  BY <1>2 DEF yvars, vars, ylocals, WaitsAlone
<1>3. CASE YQuiet
  <2>1. ypc = "inner spin" /\ semaphore = 1
    BY DEF WaitsAlone
  <2>2. ~YBeginRead /\ ~YBeginReadCurrent /\ ~YBeginHeader /\ ~YLockFile
    BY <2>1 DEF YBeginRead, YBeginReadCurrent, YBeginHeader, YBegin, YLockFile
  <2>3. ~YLoadIndex /\ ~YClaim /\ ~YLoadItem /\ ~YRaise
    BY <2>1 DEF YLoadIndex, YClaim, YLoadItem, YRaise, YStep
  <2>5. ~YSpin
    <3>1. semaphore # 0
      BY <2>1, ClearIsNotSet
    <3>. QED BY <3>1 DEF YSpin
  <2>4. ~YStoreHeader /\ ~YTest /\ ~YClear
    BY <2>1 DEF YStoreHeader, YTest, YClear, YStep
  <2>. QED BY <1>3, <2>2, <2>3, <2>4, <2>5 DEF YQuiet
<1>4. CASE YBeginWrite \/ YStoreItem \/ YStoreIndex
  BY <1>4 DEF YBeginWrite, YBegin, YStoreItem, YStoreIndex, YStep, WaitsAlone
<1>. QED BY <1>1, <1>2, <1>3, <1>4, StepKinds

-----------------------------------------------------------------------------
(* The theorems.                                                           *)

LEMMA TypedAlways == YSpec => []YTyped
<1>1. YInit => YTyped
  BY YInit1 DEF YInv
<1>. QED BY <1>1, TypedStep, PTL DEF YSpec

(* The types hold with the Python program on the file too: among them that *)
(* the index stays a slot, whoever stores it.                              *)
THEOREM PythonKeepsTypes == YSpec => []TypeOK
<1>1. YTyped => TypeOK
  BY DEF YTyped
<1>. QED BY TypedAlways, <1>1, PTL

(* The semaphore that lock_buffer set has an owner, for any number of      *)
(* modules and whatever the program calls: lock_buffer_file and write_type,*)
(* which clear one they do not hold, and the exceptions of the int         *)
(* accessors leave no set semaphore that is not accounted for.             *)
THEOREM PythonSemaphoreHasOwner == YSpec => []YSetSemaphoreHasOwner
<1>1. YInit => YSetSemaphoreHasOwner
  BY DEF YInit, Init, YSetSemaphoreHasOwner
<1>. QED BY <1>1, TypedAlways, YOwnerStep, PTL DEF YSpec

(* write_output_* that waits for its own semaphore in write_index, with no *)
(* process left to clear it, waits for ever, and locks everyone out.       *)
THEOREM PythonWaitsForEver == YSpec => WaitsForEver
<1>1. YTyped /\ [YNext]_yvars => (WaitsAlone => WaitsAlone')
  BY WaitsStep
<1>. QED BY <1>1, TypedAlways, PTL DEF YSpec, WaitsForEver

LEMMA OrderAlways == ASSUME SingleWriter PROVE YSpec => []YInv
<1>1. YInv /\ [YNext]_yvars => YInv'
  BY TypedStep, GrowsStep, YCountsStep DEF YInv
<1>. QED BY YInit1, <1>1, PTL DEF YSpec

(* With one writer, a module or the program, the readers of the engine     *)
(* never go back in time.                                                  *)
THEOREM PythonKeepsOrder == ASSUME SingleWriter PROVE YSpec => []ReadIsFresh
<1>1. YInv => ReadIsFresh
  BY DEF YInv, ValuesGrow, ReadGrows, ReadIsFresh
<1>. QED BY OrderAlways, <1>1, PTL

(* With one writer, a module or the program, no write is lost or counted   *)
(* twice: between calls the index is the number of writes begun.           *)
THEOREM PythonCountsWrites == ASSUME SingleWriter PROVE YSpec => []YIndexCountsWrites
<1>1. YInv => YIndexCountsWrites
  <2>. SUFFICES ASSUME YInv, ypc = "idle", \A p \in Procs : pc[p] = "idle"
                PROVE  index = started % Items
    BY DEF YIndexCountsWrites
  <2>1. CASE pythonWrites
    BY <2>1 DEF YInv, YCounts, Before, Stored
  <2>2. CASE ~pythonWrites
    BY <2>2, ProcsAssumption DEF YInv, Counts, Before
  <2>. QED BY <2>1, <2>2
<1>. QED BY OrderAlways, <1>1, PTL
=============================================================================
