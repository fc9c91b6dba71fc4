--------------------------- MODULE IedClientProofs ---------------------------
(***************************************************************************)
(* Proofs about the IEC 61850 client, for every set of IEDs, data model,   *)
(* set of references and bound: connections are owned, and a session that  *)
(* is used is complete.                                                    *)
(***************************************************************************)
EXTENDS IedClient, RingArithmetic, SequenceTheorems, FiniteSetTheorems, TLAPS

IsSequence(s) == s \in Seq(Range(s))

(* What every step needs to know of the shape of the state.                *)
Shapes ==
  /\ DOMAIN con = Hosts /\ DOMAIN session = Hosts /\ DOMAIN model = Hosts
  /\ DOMAIN enabled = Hosts /\ DOMAIN reporting = Hosts
  /\ values \in [Hosts -> [Leaves -> 0..MaxChanges]] /\ changes \in 0..MaxChanges

(* A call in progress is about a reference that was given to the client,   *)
(* and what it is going to store belongs to an entry of the model.         *)
TaskOK ==
  /\ pc # "idle" => <<task.host, task.path>> \in Refs
  /\ round \in Seq(Refs) /\ polling \in Seq(Refs)
  /\ pc = "store" => Path \in DOMAIN model[Host]

(* The entries of reporting that a renewal has yet to enable.              *)
ToRenew(h) == IF pc = "renew" /\ task.host = h THEN Range(renew) ELSE {}

SequencesOK ==
  /\ IsSequence(renew) /\ \A h \in Hosts : IsSequence(reporting[h])
  /\ pc = "renew" => renew # << >>

(* SessionIsComplete, with what a renewal has done so far.                 *)
Complete ==
  \A h \in Hosts :
    session[h] = "open" /\ ~(pc = "discover" /\ task.host = h) =>
      DOMAIN model[h] # {} /\ Range(reporting[h]) \subseteq enabled[h] \cup ToRenew(h)

IInv == Shapes /\ TaskOK /\ SequencesOK /\ ConnectionsOwned /\ Complete

(***************************************************************************)
(* Sequences.                                                              *)
(***************************************************************************)
LEMMA EmptySequence == IsSequence(<< >>) /\ Range(<< >>) = {}
<1>. QED BY DEF IsSequence, Range

LEMMA AppendSequence ==
  ASSUME NEW s, NEW e, IsSequence(s)
  PROVE  IsSequence(Append(s, e)) /\ Range(Append(s, e)) = Range(s) \cup {e}
<1>. DEFINE t == Append(s, e)
            S == Range(s) \cup {e}
<1>1. s \in Seq(S) /\ e \in S /\ Len(s) \in Nat /\ DOMAIN s = 1..Len(s)
  BY DEF IsSequence
<1>2. t \in Seq(S) /\ Len(t) = Len(s) + 1 /\ DOMAIN t = 1..Len(t)
  BY <1>1
<1>3. \A i \in 1..Len(s) : t[i] = s[i]
  BY <1>1
<1>4. t[Len(s) + 1] = e
  BY <1>1
<1>5. Range(t) = S
  <2>1. Range(t) \subseteq S
    BY <1>2 DEF Range
  <2>2. e \in Range(t)
    BY <1>1, <1>2, <1>4 DEF Range
  <2>3. \A i \in 1..Len(s) : s[i] \in Range(t)
    BY <1>1, <1>2, <1>3 DEF Range
  <2>. QED BY <1>1, <2>1, <2>2, <2>3 DEF Range
<1>. QED BY <1>2, <1>5 DEF IsSequence

LEMMA TailSequence ==
  ASSUME NEW s, IsSequence(s), s # << >>
  PROVE  IsSequence(Tail(s)) /\ Range(s) = {Head(s)} \cup Range(Tail(s))
<1>. DEFINE t == Tail(s)
<1>1. Len(s) \in Nat \ {0} /\ DOMAIN s = 1..Len(s) /\ s \in Seq(Range(s))
  BY DEF IsSequence
<1>2. t \in Seq(Range(s)) /\ Len(t) = Len(s) - 1 /\ DOMAIN t = 1..Len(s) - 1
  BY <1>1
<1>3. \A i \in 1..Len(s) - 1 : t[i] = s[i + 1]
  BY <1>1
<1>4. Head(s) = s[1]
  BY <1>1
<1>5. t \in Seq(Range(t))
  <2>1. t \in [1..Len(t) -> Range(t)] /\ Len(t) \in Nat
    <3>. HIDE DEF t
    <3>1. t \in [1..Len(t) -> Range(s)] /\ Len(t) \in Nat
      BY <1>2, LenProperties
    <3>2. \A i \in 1..Len(t) : t[i] \in Range(t)
      BY <3>1 DEF Range
    <3>. QED BY <3>1, <3>2
  <2>. HIDE DEF t
  <2>. QED BY <2>1, SeqDef
<1>6. Range(s) = {s[1]} \cup Range(t)
  <2>1. Range(t) \subseteq Range(s) /\ s[1] \in Range(s)
    BY <1>1, <1>2 DEF Range
  <2>2. ASSUME NEW i \in 1..Len(s), i # 1 PROVE s[i] \in Range(t)
    <3>1. i - 1 \in 1..Len(s) - 1 /\ t[i - 1] = s[i]
      BY <1>1, <1>3, <2>2
    <3>. QED BY <1>2, <3>1 DEF Range
  <2>. QED BY <1>1, <2>1, <2>2 DEF Range
<1>. QED BY <1>4, <1>5, <1>6 DEF IsSequence

(***************************************************************************)
(* The initial state.                                                      *)
(***************************************************************************)
LEMMA InitInvariant == Init => IInv
<1>. SUFFICES ASSUME Init PROVE IInv
  OBVIOUS
<1>1. Shapes
  <2>1. 0 \in 0..MaxChanges
    BY BoundsAssumption
  <2>. QED BY <2>1 DEF Init, Shapes
<1>2. TaskOK
  BY DEF Init, TaskOK
<1>3. SequencesOK
  BY EmptySequence DEF Init, SequencesOK
<1>4. ConnectionsOwned
  BY DEF Init, ConnectionsOwned
<1>5. Complete
  BY DEF Init, Complete
<1>. QED BY <1>1, <1>2, <1>3, <1>4, <1>5 DEF IInv

(***************************************************************************)
(* What the steps do to the values, the tables and the call.               *)
(***************************************************************************)
(* The call is over, or poll goes on to its next reference.                *)
LEMMA LeavePreserves ==
  ASSUME TaskOK, SequencesOK, Leave
  PROVE  /\ pc' \in {"idle", "getIED"}
         /\ pc' # "idle" => <<task'.host, task'.path>> \in Refs
         /\ round' \in Seq(Refs)
         /\ renew' = << >>
<1>1. CASE round = << >>
  BY <1>1 DEF TaskOK, Leave
<1>2. CASE round # << >>
  <2>1. round \in Seq(Refs) /\ Head(round) \in Refs /\ Tail(round) \in Seq(Refs)
    BY <1>2 DEF TaskOK
  <2>2. <<Head(round)[1], Head(round)[2]>> \in Refs
    BY <2>1 DEF Refs
  <2>. QED BY <1>2, <2>1, <2>2 DEF Leave
<1>. QED BY <1>1, <1>2

LEMMA BeginPreserves ==
  ASSUME TaskOK, NEW kind, NEW refs, refs \subseteq Refs, Begin(kind, refs)
  PROVE  pc' = "getIED" /\ <<task'.host, task'.path>> \in Refs /\ round' = round
<1>1. PICK r \in refs : task' = [kind |-> kind, host |-> r[1], path |-> r[2]]
  BY DEF Begin
<1>2. r \in Refs /\ <<r[1], r[2]>> \in Refs
  BY DEF Refs
<1>. QED BY <1>1, <1>2 DEF Begin

LEMMA ValuesStep ==
  ASSUME NEW h \in Hosts, NEW p, Shapes, SetValue(h, p)
  PROVE  values' \in [Hosts -> [Leaves -> 0..MaxChanges]] /\ changes' \in 0..MaxChanges
<1>1. NewValue \in 0..MaxChanges
  BY BoundsAssumption DEF NewValue, Shapes
<1>2. [values[h] EXCEPT ![p] = NewValue] \in [Leaves -> 0..MaxChanges]
  BY <1>1 DEF Shapes
<1>. QED BY <1>1, <1>2 DEF SetValue, Shapes

(***************************************************************************)
(* The connections: a step leaves them alone, destroys the one of the call *)
(* or loses one, but for the steps that connect or enable a control block. *)
(***************************************************************************)
QuietLink ==
  \/ UNCHANGED <<con, alive, session, enabled>>
  \/ pc # "idle" /\ session[Host] = "lost" /\ Destroy
  \/ \E h \in Hosts : session[h] = "open" /\ Lost(h) /\ UNCHANGED <<con, alive>>

LinkStep == QuietLink \/ Connect \/ Renew \/ RegisterReport

LEMMA HostOfCall == ASSUME TaskOK, pc # "idle" PROVE Host \in Hosts /\ Path \in Tree \cup DxPaths \cup {<< >>}
  BY DEF TaskOK, Refs, Host, Path

LEMMA LinkEffects == ASSUME TaskOK, [Next]_vars PROVE LinkStep
<1>1. ASSUME UNCHANGED vars PROVE LinkStep
  BY <1>1 DEF LinkStep, QuietLink, vars, link
<1>2. ASSUME NEW kind, NEW refs, Begin(kind, refs) PROVE LinkStep
  BY <1>2 DEF LinkStep, QuietLink, Begin, link
<1>3. ASSUME poll \/ UseConnection \/ ConnectFails \/ RenewOnLostConnection PROVE LinkStep
  BY <1>3 DEF LinkStep, QuietLink, poll, UseConnection, ConnectFails, RenewOnLostConnection, Fail, link
<1>4. ASSUME DiscoverAgain \/ NoticeLoss PROVE LinkStep
  BY <1>4 DEF LinkStep, QuietLink, DiscoverAgain, NoticeLoss, Writes, Reads, At
<1>5. ASSUME Connect PROVE LinkStep
  BY <1>5 DEF LinkStep
<1>6. ASSUME Discover \/ ReadDirectory PROVE LinkStep
  <2>1. /\ \E n, m : Serve(n, m)
        /\ UNCHANGED <<con, alive>>
        /\ pc # "idle"
    BY <1>6 DEF Discover, ReadDirectory, Reads, At
  <2>. QED BY <2>1, HostOfCall DEF LinkStep, QuietLink, Serve
<1>7. ASSUME Renew PROVE LinkStep
  BY <1>7 DEF LinkStep
<1>8. ASSUME registerForReporting PROVE LinkStep
  <2>1. ASSUME RegisterReport PROVE LinkStep
    BY <2>1 DEF LinkStep
  <2>. QED BY <1>8, <2>1
        DEF LinkStep, QuietLink, registerForReporting, RegisterUnknown, RegisterForPolling, RegisterAgain,
            RegisterOnLostConnection, Fail, link
<1>9. ASSUME WriteNothing \/ WriteObject \/ ReadNothing \/ ReadAttribute \/ Store PROVE LinkStep
  BY <1>9 DEF LinkStep, QuietLink, WriteNothing, WriteObject, ReadNothing, ReadAttribute, Store, link
<1>10. ASSUME controlObject PROVE LinkStep
  BY <1>10 DEF LinkStep, QuietLink, controlObject, UseControl, CreateControlOnLostConnection,
               UseControlOfDestroyedConnection, Fail, link
<1>11. ASSUME NEW h \in Hosts, ReportHandler_cb(h) \/ ComesBack(h) \/ \E p \in Changing : Change(h, p)
       PROVE  LinkStep
  BY <1>11 DEF LinkStep, QuietLink, ReportHandler_cb, BeginReport, StoreElement, ComesBack, Change, link
<1>12. ASSUME NEW h \in Hosts, Lose(h) PROVE LinkStep
  BY <1>12 DEF LinkStep, QuietLink, Lose
<1>. QED
  BY <1>1, <1>2, <1>3, <1>4, <1>5, <1>6, <1>7, <1>8, <1>9, <1>10, <1>11, <1>12
     DEF Next, registerReadValue, ReadValue, registerWriteValue, operate, Proceed, getIED, updateValueInModel

LEMMA OwnedStep ==
  ASSUME IInv, LinkStep
  PROVE  ConnectionsOwned'
<1>. DEFINE Stored == {con[h] : h \in Hosts} \ {0}
<1>0. /\ DOMAIN con = Hosts /\ DOMAIN session = Hosts
      /\ alive = Stored
      /\ \A g, h \in Hosts : con[g] = con[h] /\ con[g] # 0 => g = h
      /\ \A h \in Hosts : (con[h] = 0) = (session[h] = "none")
  BY DEF IInv, Shapes, ConnectionsOwned
<1>1. CASE UNCHANGED <<con, alive, session>>
  BY <1>0, <1>1 DEF ConnectionsOwned
<1>2. CASE Connect
  <2>1. Host \in Hosts /\ con[Host] = 0
    BY <1>2, HostOfCall DEF IInv, Connect
  <2>2. PICK c \in Unused :
          con' = [con EXCEPT ![Host] = c] /\ alive' = alive \cup {c}
    BY <1>2 DEF Connect
  <2>3. c # 0 /\ c \notin alive
    BY <2>2, BoundsAssumption DEF Unused
  <2>4. session' = [session EXCEPT ![Host] = "open"]
    BY <1>2 DEF Connect
  <2>5. \A h \in Hosts : con[h] # c
    BY <1>0, <2>3
  <2>6. \A h \in Hosts : con'[h] = (IF h = Host THEN c ELSE con[h])
    BY <1>0, <2>2
  <2>7. \A h \in Hosts : session'[h] = (IF h = Host THEN "open" ELSE session[h])
    BY <1>0, <2>4
  <2>8. alive' = {con'[h] : h \in Hosts} \ {0}
    BY <1>0, <2>1, <2>2, <2>3, <2>6
  <2>. QED BY <1>0, <2>3, <2>5, <2>6, <2>7, <2>8 DEF ConnectionsOwned
<1>3. CASE pc # "idle" /\ session[Host] = "lost" /\ Destroy
  <2>1. Host \in Hosts /\ con[Host] # 0
    BY <1>0, <1>3, HostOfCall DEF IInv
  <2>2. \A h \in Hosts : con'[h] = (IF h = Host THEN 0 ELSE con[h])
    BY <1>0, <1>3 DEF Destroy
  <2>3. \A h \in Hosts : session'[h] = (IF h = Host THEN "none" ELSE session[h])
    BY <1>0, <1>3 DEF Destroy
  <2>4. alive' = alive \ {con[Host]}
    BY <1>3 DEF Destroy
  <2>5. alive' = {con'[h] : h \in Hosts} \ {0}
    BY <1>0, <2>1, <2>2, <2>4
  <2>. QED BY <1>0, <2>2, <2>3, <2>5 DEF ConnectionsOwned
<1>4. ASSUME NEW k \in Hosts, session[k] = "open", Lost(k), UNCHANGED <<con, alive>>
      PROVE  ConnectionsOwned'
  <2>1. \A h \in Hosts : session'[h] = (IF h = k THEN "lost" ELSE session[h])
    BY <1>0, <1>4 DEF Lost
  <2>. QED BY <1>0, <1>4, <2>1 DEF ConnectionsOwned
<1>5. CASE Renew \/ RegisterReport
  BY <1>1, <1>5 DEF Renew, RegisterReport
<1>. QED BY <1>1, <1>2, <1>3, <1>4, <1>5 DEF LinkStep, QuietLink

(***************************************************************************)
(* The shapes, the call and the sequences.                                 *)
(***************************************************************************)
LEMMA LinkShapes == ASSUME Shapes, LinkStep PROVE (DOMAIN con = Hosts /\ DOMAIN session = Hosts /\ DOMAIN enabled = Hosts)'
  BY DEF Shapes, LinkStep, QuietLink, Connect, Destroy, Lost, Renew, RegisterReport, Enable

LEMMA ModelShape ==
  ASSUME Shapes, TaskOK, [Next]_vars
  PROVE  DOMAIN model' = Hosts /\ DOMAIN reporting' = Hosts
<1>1. ASSUME Discover \/ Store PROVE DOMAIN model' = Hosts /\ UNCHANGED reporting
  BY <1>1 DEF Shapes, Discover, Store, Raise, Leave, registers
<1>2. ASSUME RegisterReport PROVE DOMAIN reporting' = Hosts /\ UNCHANGED model
  BY <1>2 DEF Shapes, RegisterReport
<1>3. ASSUME NEW h \in Hosts, ReportHandler_cb(h) PROVE DOMAIN model' = Hosts /\ UNCHANGED reporting
  BY <1>3 DEF Shapes, ReportHandler_cb, BeginReport, StoreElement, registers
<1>4. ASSUME registerForReporting, ~RegisterReport PROVE UNCHANGED <<model, reporting>>
  BY <1>4 DEF registerForReporting, RegisterUnknown, RegisterForPolling, RegisterAgain,
              RegisterOnLostConnection, Fail, registers
<1>5. ASSUME getIED, ~Discover PROVE UNCHANGED <<model, reporting>>
  BY <1>5 DEF getIED, UseConnection, DiscoverAgain, Connect, ConnectFails, Renew,
              RenewOnLostConnection, Fail, registers
<1>6. ASSUME updateValueInModel, ~Store PROVE UNCHANGED <<model, reporting>>
  BY <1>6 DEF updateValueInModel, ReadNothing, ReadAttribute, NoticeLoss, ReadDirectory, registers
<1>7. ASSUME WriteNothing \/ WriteObject \/ controlObject PROVE UNCHANGED <<model, reporting>>
  BY <1>7 DEF WriteNothing, WriteObject, controlObject, UseControl, CreateControlOnLostConnection,
              UseControlOfDestroyedConnection, Fail, registers
<1>8. ASSUME NEW kind, NEW refs, Begin(kind, refs) PROVE UNCHANGED <<model, reporting>>
  BY <1>8 DEF Begin, registers
<1>9. ASSUME NEW h \in Hosts, Lose(h) \/ ComesBack(h) \/ \E p \in Changing : Change(h, p)
      PROVE  UNCHANGED <<model, reporting>>
  BY <1>9 DEF Lose, ComesBack, Change, registers
<1>10. ASSUME poll \/ UNCHANGED vars PROVE UNCHANGED <<model, reporting>>
  BY <1>10 DEF poll, vars, registers
<1>. QED
  BY <1>1, <1>2, <1>3, <1>4, <1>5, <1>6, <1>7, <1>8, <1>9, <1>10
     DEF Shapes, Next, registerReadValue, ReadValue, registerWriteValue, operate, Proceed

LEMMA ValuesShape ==
  ASSUME Shapes, TaskOK, [Next]_vars
  PROVE  values' \in [Hosts -> [Leaves -> 0..MaxChanges]] /\ changes' \in 0..MaxChanges
<1>. USE DEF server
<1>1. ASSUME NEW h \in Hosts, NEW p \in Changing, Change(h, p)
      PROVE  values' \in [Hosts -> [Leaves -> 0..MaxChanges]] /\ changes' \in 0..MaxChanges
  BY <1>1, ValuesStep DEF Change
<1>2. ASSUME WriteObject
      PROVE  values' \in [Hosts -> [Leaves -> 0..MaxChanges]] /\ changes' \in 0..MaxChanges
  BY <1>2, HostOfCall, ValuesStep DEF WriteObject, Writes, At
<1>3. ASSUME getIED PROVE UNCHANGED <<values, changes>>
  BY <1>3 DEF getIED, UseConnection, DiscoverAgain, Connect, ConnectFails, Discover, Renew,
              RenewOnLostConnection, Fail
<1>4. ASSUME registerForReporting \/ controlObject PROVE UNCHANGED <<values, changes>>
  BY <1>4 DEF registerForReporting, RegisterUnknown, RegisterForPolling, RegisterAgain, RegisterReport,
              RegisterOnLostConnection, controlObject, UseControl, CreateControlOnLostConnection,
              UseControlOfDestroyedConnection, Fail
<1>5. ASSUME WriteNothing \/ updateValueInModel PROVE UNCHANGED <<values, changes>>
  BY <1>5 DEF WriteNothing, updateValueInModel, ReadNothing, ReadAttribute, NoticeLoss, ReadDirectory, Store
<1>6. ASSUME NEW kind, NEW refs, Begin(kind, refs) PROVE UNCHANGED <<values, changes>>
  BY <1>6 DEF Begin
<1>7. ASSUME NEW h \in Hosts, Lose(h) \/ ComesBack(h) \/ ReportHandler_cb(h)
      PROVE  UNCHANGED <<values, changes>>
  BY <1>7 DEF Lose, ComesBack, ReportHandler_cb, BeginReport, StoreElement
<1>8. ASSUME poll \/ UNCHANGED vars PROVE UNCHANGED <<values, changes>>
  BY <1>8 DEF poll, vars
<1>. QED
  BY <1>1, <1>2, <1>3, <1>4, <1>5, <1>6, <1>7, <1>8
     DEF Shapes, Next, registerReadValue, ReadValue, registerWriteValue, operate, Proceed

LEMMA ShapesStep == ASSUME IInv, [Next]_vars PROVE Shapes'
<1>1. DOMAIN con' = Hosts /\ DOMAIN session' = Hosts /\ DOMAIN enabled' = Hosts
  BY LinkEffects, LinkShapes DEF IInv
<1>2. DOMAIN model' = Hosts /\ DOMAIN reporting' = Hosts
  BY ModelShape DEF IInv
<1>3. values' \in [Hosts -> [Leaves -> 0..MaxChanges]] /\ changes' \in 0..MaxChanges
  BY ValuesShape DEF IInv
<1>. QED BY <1>1, <1>2, <1>3 DEF Shapes

(***************************************************************************)
(* The steps that neither connect, discover, renew nor register a control  *)
(* block: they keep what is complete.                                      *)
(***************************************************************************)
CallStep ==
  \/ UNCHANGED <<task, pc, round, renew>>
  \/ /\ pc \notin {"discover", "renew"} /\ pc' \notin {"discover", "renew"}
     /\ pc' # "idle" => <<task'.host, task'.path>> \in Refs
     /\ round' \in Seq(Refs) /\ renew' \in {renew, << >>}
     /\ pc' = "store" => task' = task /\ Path \in DOMAIN model[Host] /\ model' = model

ModelStep ==
  \A h \in Hosts :
    /\ DOMAIN model[h] # {} => DOMAIN model'[h] # {}
    /\ pc = "store" /\ pc' = "store" => DOMAIN model'[h] = DOMAIN model[h]

OtherStep == CallStep /\ ModelStep /\ UNCHANGED reporting /\ polling' \in Seq(Refs)

(* What is stored is below an entry of the model, which stays there.       *)
LEMMA StoredModel ==
  ASSUME Shapes, TaskOK, Store
  PROVE  \A h \in Hosts : DOMAIN model[h] # {} => DOMAIN model'[h] # {}
<1>1. Host \in Hosts /\ Path \in DOMAIN model[Host] /\ Path \in Tree \cup DxPaths \cup {<< >>}
  BY HostOfCall DEF TaskOK, Store
<1>2. \A h \in Hosts \ {Host} : model'[h] = model[h]
  BY DEF Shapes, Store
<1>3. CASE IsAttribute(model[Host], Path)
  <2>1. model'[Host] = SetRead(model[Host], fetched)
    BY <1>1, <1>3 DEF Shapes, Store
  <2>2. DOMAIN model'[Host] = DOMAIN fetched \cup DOMAIN model[Host]
    BY <2>1 DEF SetRead
  <2>. QED BY <1>1, <1>2, <2>2
<1>4. CASE ~IsAttribute(model[Host], Path)
  <2>1. model'[Host] = ReplaceBelow(model[Host], Path, fetched)
    BY <1>1, <1>4 DEF Shapes, Store
  <2>2. Path \notin Below(Path)
    <3>1. Len(Path) \in Nat
      BY <1>1, PathsAssumption
    <3>. QED BY <3>1 DEF Below
  <2>3. Path \in DOMAIN model'[Host]
    BY <1>1, <2>1, <2>2 DEF ReplaceBelow
  <2>. QED BY <1>2, <2>3
<1>. QED BY <1>3, <1>4

LEMMA OtherEffects ==
  ASSUME IInv, [Next]_vars, ~Connect, ~Discover, ~Renew, ~RegisterReport
  PROVE  OtherStep
<1>. USE DEF IInv, OtherStep, CallStep, ModelStep
<1>1. ASSUME UNCHANGED <<model, call, registers>> PROVE OtherStep
  BY <1>1 DEF TaskOK, call, registers
<1>2. ASSUME UNCHANGED <<model, registers>>, Leave \/ Raise, pc \notin {"discover", "renew"}
      PROVE  OtherStep
  <2>1. CASE Leave
    BY <1>2, <2>1, LeavePreserves DEF TaskOK, registers
  <2>2. CASE Raise
    BY <1>2, <2>2 DEF TaskOK, registers, Raise
  <2>. QED BY <1>2, <2>1, <2>2
<1>3. ASSUME NEW kind, NEW refs \in SUBSET Refs, Begin(kind, refs) PROVE OtherStep
  BY <1>3, BeginPreserves DEF TaskOK, registers, Begin
<1>4. ASSUME poll PROVE OtherStep
  <2>1. Head(polling) \in Refs /\ Tail(polling) \in Seq(Refs)
    BY <1>4 DEF TaskOK, poll
  <2>2. <<Head(polling)[1], Head(polling)[2]>> \in Refs
    BY <2>1 DEF Refs
  <2>. QED BY <1>4, <2>1, <2>2 DEF TaskOK, registers, poll
<1>5. ASSUME UseConnection PROVE OtherStep
  BY <1>5 DEF TaskOK, UseConnection, Goto, registers
<1>6. ASSUME DiscoverAgain \/ ConnectFails PROVE OtherStep
  BY <1>6, <1>2 DEF DiscoverAgain, ConnectFails
<1>7. ASSUME RegisterForPolling PROVE OtherStep
  <2>1. <<Host, Path>> \in Refs
    BY <1>7 DEF TaskOK, Host, Path, RegisterForPolling, At
  <2>2. polling' \in Seq(Refs)
    BY <1>7, <2>1 DEF TaskOK, RegisterForPolling
  <2>. QED BY <1>7, <2>2, LeavePreserves DEF RegisterForPolling, At
<1>8. ASSUME RegisterUnknown \/ RegisterAgain PROVE OtherStep
  BY <1>8, LeavePreserves DEF TaskOK, RegisterUnknown, RegisterAgain, registers, At
<1>9. ASSUME WriteNothing PROVE OtherStep
  BY <1>9, <1>2 DEF WriteNothing, At
<1>10. ASSUME WriteObject PROVE OtherStep
  BY <1>10 DEF TaskOK, WriteObject, Goto, Writes, At, registers
<1>11. ASSUME ReadNothing \/ NoticeLoss PROVE OtherStep
  BY <1>11, <1>2 DEF ReadNothing, NoticeLoss, Writes, Reads, At
<1>12. ASSUME ReadAttribute \/ ReadDirectory PROVE OtherStep
  BY <1>12 DEF TaskOK, ReadAttribute, ReadDirectory, Reads, At, IsAttribute, NoTarget, registers
<1>13. ASSUME Store PROVE OtherStep
  BY <1>13, StoredModel, LeavePreserves DEF TaskOK, Store, registers
<1>14. ASSUME UseControl PROVE OtherStep
  BY <1>14, <1>2 DEF UseControl, At
<1>15. ASSUME NEW what, Fail(what) PROVE OtherStep
  BY <1>15, <1>1 DEF Fail
<1>16. ASSUME NEW h \in Hosts, StoreElement(h) PROVE OtherStep
  <2>1. PICK e : model' = [model EXCEPT ![h] = SetReported(@, e.path, e.value)]
    BY <1>16 DEF StoreElement
  <2>2. DOMAIN model'[h] = DOMAIN model[h]
    BY <2>1 DEF Shapes, SetReported
  <2>3. \A g \in Hosts : DOMAIN model'[g] = DOMAIN model[g]
    BY <2>1, <2>2 DEF Shapes
  <2>. QED BY <1>16, <2>3 DEF TaskOK, StoreElement, registers, call
<1>17. ASSUME NEW h \in Hosts, BeginReport(h) \/ Lose(h) \/ ComesBack(h) \/ \E p \in Changing : Change(h, p)
       PROVE  OtherStep
  BY <1>17, <1>1 DEF BeginReport, Lose, ComesBack, Change
<1>18. ASSUME UNCHANGED vars PROVE OtherStep
  BY <1>18, <1>1 DEF vars
<1>19. ASSUME registerReadValue \/ ReadValue \/ registerWriteValue \/ operate PROVE OtherStep
  BY <1>19, <1>3, RefsAssumption DEF registerReadValue, ReadValue, registerWriteValue, operate
<1>20. ASSUME Proceed PROVE OtherStep
  BY <1>20, <1>5, <1>6, <1>7, <1>8, <1>9, <1>10, <1>11, <1>12, <1>13, <1>14, <1>15
     DEF Proceed, getIED, registerForReporting, updateValueInModel, controlObject,
         RenewOnLostConnection, RegisterOnLostConnection, CreateControlOnLostConnection,
         UseControlOfDestroyedConnection
<1>. QED
  BY <1>4, <1>16, <1>17, <1>18, <1>19, <1>20 DEF Next, ReportHandler_cb

LEMMA QuietSessions ==
  ASSUME IInv, QuietLink
  PROVE  \A h \in Hosts : session'[h] = "open" => session[h] = "open" /\ enabled'[h] = enabled[h]
<1>1. CASE UNCHANGED <<con, alive, session, enabled>>
  BY <1>1
<1>2. CASE pc # "idle" /\ session[Host] = "lost" /\ Destroy
  BY <1>2 DEF IInv, Shapes, Destroy
<1>3. ASSUME NEW k \in Hosts, Lost(k)
      PROVE  \A h \in Hosts : session'[h] = "open" => session[h] = "open" /\ enabled'[h] = enabled[h]
  BY <1>3 DEF IInv, Shapes, Lost
<1>. QED BY <1>1, <1>2, <1>3 DEF QuietLink

CallPart == TaskOK /\ SequencesOK /\ Complete

LEMMA OtherCall == ASSUME IInv, OtherStep, QuietLink PROVE CallPart'
<1>1. TaskOK'
  <2>1. (pc # "idle" => <<task.host, task.path>> \in Refs)' /\ (round \in Seq(Refs))'
    BY DEF IInv, TaskOK, OtherStep, CallStep
  <2>2. ASSUME pc' = "store" PROVE (Path \in DOMAIN model[Host])'
    <3>1. CASE UNCHANGED <<task, pc, round, renew>>
      <4>1. Host \in Hosts /\ Path \in DOMAIN model[Host]
        BY <2>2, <3>1, HostOfCall DEF IInv, TaskOK
      <4>2. DOMAIN model'[Host] = DOMAIN model[Host]
        BY <2>2, <3>1, <4>1 DEF OtherStep, ModelStep
      <4>. QED BY <3>1, <4>1, <4>2 DEF Host, Path
    <3>2. CASE task' = task /\ Path \in DOMAIN model[Host] /\ model' = model
      BY <3>2 DEF Host, Path
    <3>. QED BY <2>2, <3>1, <3>2 DEF OtherStep, CallStep
  <2>3. (polling \in Seq(Refs))'
    BY DEF OtherStep
  <2>. QED BY <2>1, <2>2, <2>3 DEF TaskOK
<1>2. SequencesOK'
  BY EmptySequence DEF IInv, SequencesOK, OtherStep, CallStep
<1>3. Complete'
  <2>. SUFFICES ASSUME NEW h \in Hosts, session'[h] = "open", ~(pc' = "discover" /\ task'.host = h)
                PROVE  DOMAIN model'[h] # {} /\ Range(reporting'[h]) \subseteq enabled'[h] \cup ToRenew(h)'
    BY DEF Complete
  <2>1. session[h] = "open" /\ enabled'[h] = enabled[h] /\ reporting' = reporting
    BY QuietSessions DEF OtherStep
  <2>2. ~(pc = "discover" /\ task.host = h) /\ ToRenew(h)' = ToRenew(h)
    BY DEF OtherStep, CallStep, ToRenew
  <2>3. DOMAIN model[h] # {} /\ Range(reporting[h]) \subseteq enabled[h] \cup ToRenew(h)
    BY <2>1, <2>2 DEF IInv, Complete
  <2>. QED BY <2>1, <2>2, <2>3 DEF OtherStep, ModelStep
<1>. QED BY <1>1, <1>2, <1>3 DEF CallPart

LEMMA ConnectCall == ASSUME IInv, Connect PROVE CallPart'
<1>1. /\ pc' = "discover" /\ UNCHANGED <<task, round, renew, polling, reporting, model, enabled>>
      /\ pc # "idle" /\ pc # "discover" /\ pc # "renew"
  BY DEF Connect, Goto, registers
<1>2. TaskOK' /\ SequencesOK'
  BY <1>1 DEF IInv, TaskOK, SequencesOK
<1>3. Complete'
  <2>1. \A h \in Hosts : h # task.host => session'[h] = session[h]
    BY DEF IInv, Shapes, Connect, Host
  <2>. QED BY <1>1, <2>1 DEF IInv, Complete, ToRenew
<1>. QED BY <1>2, <1>3 DEF CallPart

(* A discovery that leaves the session open has had all its calls answered,*)
(* and has then found something.                                           *)
LEMMA FullDiscovery ==
  ASSUME IInv, NEW n \in 0..Len(DiscoveryCalls), pc # "idle",
         Serve(n, Len(DiscoveryCalls)), session'[Host] = "open"
  PROVE  ~DiscoveryRaises(n) /\ DOMAIN discovery(n, values[Host]) # {}
<1>1. Host \in Hosts
  BY HostOfCall DEF IInv
<1>2. n = Len(DiscoveryCalls)
  BY <1>1 DEF IInv, Shapes, Serve, Lost
<1>3. values[Host] \in [Leaves -> 0..MaxChanges]
  BY <1>1 DEF IInv, Shapes
<1>4. ~DiscoveryRaises(n)
  <2>1. n + 1 .. Len(DiscoveryCalls) = {}
    BY <1>2, DiscoveryAssumption
  <2>2. EndOf(n) = n
    BY <1>2, <2>1 DEF EndOf
  <2>. QED BY <1>2, <2>2, DiscoveryAssumption DEF DiscoveryRaises
<1>. QED BY <1>2, <1>3, <1>4, DiscoveryAssumption

LEMMA DiscoverCall == ASSUME IInv, Discover PROVE CallPart'
<1>1. PICK n \in 0..Len(DiscoveryCalls) :
        /\ Serve(n, Len(DiscoveryCalls))
        /\ LET found == discovery(n, values[Host])
           IN  IF DiscoveryRaises(n) THEN Raise /\ UNCHANGED model
               ELSE IF found = EmptyModel THEN Leave /\ UNCHANGED model
               ELSE /\ model' = [model EXCEPT ![Host] = found]
                    /\ renew' = reporting[Host]
                    /\ pc' = IF reporting[Host] = << >> THEN "body" ELSE "renew"
                    /\ UNCHANGED <<task, round, fetched>>
  BY DEF Discover
<1>. DEFINE found == discovery(n, values[Host])
<1>2. pc = "discover" /\ Host \in Hosts /\ UNCHANGED <<polling, reporting>>
  BY HostOfCall DEF IInv, Discover, registers
<1>3. \A h \in Hosts : /\ session'[h] = "open" => session[h] = "open"
                       /\ h # Host \/ session'[h] = "open" => enabled'[h] = enabled[h]
  BY <1>1, <1>2 DEF IInv, Shapes, Serve, Lost
<1>4. session'[Host] = "open" => ~DiscoveryRaises(n) /\ DOMAIN found # {}
  BY <1>1, <1>2, FullDiscovery
<1>5. ASSUME Raise \/ Leave, model' = model, session'[Host] # "open" PROVE CallPart'
  <2>1. /\ pc' \in {"idle", "getIED"} /\ renew' = << >>
        /\ pc' # "idle" => <<task'.host, task'.path>> \in Refs
        /\ round' \in Seq(Refs)
    <3>1. CASE Raise
      BY <3>1 DEF Raise
    <3>2. CASE Leave
      BY <3>2, LeavePreserves DEF IInv
    <3>. QED BY <1>5, <3>1, <3>2
  <2>2. TaskOK' /\ SequencesOK'
    BY <1>2, <2>1, EmptySequence DEF IInv, TaskOK, SequencesOK
  <2>3. Complete'
    BY <1>2, <1>3, <1>5, <2>1 DEF IInv, Complete, ToRenew, Host
  <2>. QED BY <2>2, <2>3 DEF CallPart
<1>6. ASSUME ~DiscoveryRaises(n), found # EmptyModel PROVE CallPart'
  <2>1. /\ model' = [model EXCEPT ![Host] = found] /\ renew' = reporting[Host]
        /\ pc' = (IF reporting[Host] = << >> THEN "body" ELSE "renew")
        /\ UNCHANGED <<task, round>>
    BY <1>1, <1>6
  <2>. HIDE DEF found
  <2>2. TaskOK' /\ SequencesOK'
    BY <1>2, <2>1 DEF IInv, TaskOK, SequencesOK
  <2>3. Complete'
    <3>. SUFFICES ASSUME NEW h \in Hosts, session'[h] = "open"
                  PROVE  DOMAIN model'[h] # {} /\ Range(reporting'[h]) \subseteq enabled'[h] \cup ToRenew(h)'
      BY DEF Complete
    <3>1. CASE h = Host
      <4>1. model'[h] = found /\ DOMAIN found # {}
        BY <1>2, <1>4, <2>1, <3>1 DEF IInv, Shapes
      <4>2. Range(reporting'[h]) = Range(renew')
        BY <1>2, <2>1, <3>1
      <4>3. pc' # "renew" => Range(renew') = {}
        BY <2>1, EmptySequence
      <4>4. pc' = "renew" => ToRenew(h)' = Range(renew')
        BY <2>1, <3>1 DEF ToRenew, Host
      <4>. QED BY <4>1, <4>2, <4>3, <4>4
    <3>2. CASE h # Host
      <4>1. model'[h] = model[h] /\ session[h] = "open" /\ enabled'[h] = enabled[h]
        BY <1>2, <1>3, <2>1, <3>2 DEF IInv, Shapes
      <4>2. DOMAIN model[h] # {} /\ Range(reporting[h]) \subseteq enabled[h]
        BY <1>2, <3>2, <4>1 DEF IInv, Complete, ToRenew, Host
      <4>. QED BY <1>2, <4>1, <4>2
    <3>. QED BY <3>1, <3>2
  <2>. QED BY <2>2, <2>3 DEF CallPart
<1>7. DOMAIN EmptyModel = {}
  BY DEF EmptyModel
<1>. QED BY <1>1, <1>4, <1>5, <1>6, <1>7

LEMMA RenewCall == ASSUME IInv, Renew PROVE CallPart'
<1>1. /\ pc = "renew" /\ Host \in Hosts /\ renew' = Tail(renew)
      /\ pc' = (IF Tail(renew) = << >> THEN "body" ELSE "renew")
      /\ UNCHANGED <<task, round, polling, session, model, reporting>>
      /\ enabled' = [enabled EXCEPT ![Host] = @ \cup {Head(renew)}]
  BY HostOfCall DEF IInv, Renew, Enable, registers
<1>2. IsSequence(Tail(renew)) /\ Range(renew) = {Head(renew)} \cup Range(Tail(renew))
  BY <1>1, TailSequence DEF IInv, SequencesOK
<1>3. TaskOK' /\ SequencesOK'
  BY <1>1, <1>2 DEF IInv, TaskOK, SequencesOK
<1>4. Complete'
  <2>. SUFFICES ASSUME NEW h \in Hosts, session[h] = "open"
                PROVE  DOMAIN model[h] # {} /\ Range(reporting[h]) \subseteq enabled'[h] \cup ToRenew(h)'
    BY <1>1 DEF Complete
  <2>1. DOMAIN model[h] # {} /\ Range(reporting[h]) \subseteq enabled[h] \cup ToRenew(h)
    BY <1>1 DEF IInv, Complete
  <2>2. CASE h = Host
    <3>1. ToRenew(h) = Range(renew) /\ enabled'[h] = enabled[h] \cup {Head(renew)}
      BY <1>1, <2>2 DEF IInv, Shapes, ToRenew, Host
    <3>2. ToRenew(h)' = Range(Tail(renew))
      BY <1>1, <2>2, EmptySequence DEF ToRenew, Host
    <3>. QED BY <1>2, <2>1, <3>1, <3>2
  <2>3. CASE h # Host
    BY <1>1, <2>1, <2>3 DEF IInv, Shapes, ToRenew, Host
  <2>. QED BY <2>2, <2>3
<1>. QED BY <1>3, <1>4 DEF CallPart

LEMMA RegisterReportCall == ASSUME IInv, RegisterReport PROVE CallPart'
<1>1. PICK rcb :
        /\ enabled' = [enabled EXCEPT ![Host] = @ \cup {rcb}]
        /\ reporting' = [reporting EXCEPT ![Host] = Append(@, rcb)]
  BY DEF RegisterReport, Enable
<1>2. /\ pc = "body" /\ Host \in Hosts /\ Leave
      /\ UNCHANGED <<polling, session, model>>
  BY HostOfCall DEF IInv, RegisterReport, At
<1>3. IsSequence(reporting'[Host]) /\ Range(reporting'[Host]) = Range(reporting[Host]) \cup {rcb}
  BY <1>1, <1>2, AppendSequence DEF IInv, Shapes, SequencesOK
<1>4. /\ pc' \in {"idle", "getIED"} /\ renew' = << >>
      /\ pc' # "idle" => <<task'.host, task'.path>> \in Refs
      /\ round' \in Seq(Refs)
  BY <1>2, LeavePreserves DEF IInv
<1>5. TaskOK' /\ SequencesOK'
  BY <1>1, <1>2, <1>3, <1>4, EmptySequence DEF IInv, Shapes, TaskOK, SequencesOK
<1>6. Complete'
  <2>. SUFFICES ASSUME NEW h \in Hosts, session[h] = "open"
                PROVE  DOMAIN model[h] # {} /\ Range(reporting'[h]) \subseteq enabled'[h]
    BY <1>2 DEF Complete
  <2>1. DOMAIN model[h] # {} /\ Range(reporting[h]) \subseteq enabled[h]
    BY <1>2 DEF IInv, Complete, ToRenew
  <2>2. enabled'[h] = (IF h = Host THEN enabled[h] \cup {rcb} ELSE enabled[h])
    BY <1>1 DEF IInv, Shapes
  <2>3. h # Host => reporting'[h] = reporting[h]
    BY <1>1 DEF IInv, Shapes
  <2>. QED BY <1>3, <2>1, <2>2, <2>3
<1>. QED BY <1>5, <1>6 DEF CallPart

(***************************************************************************)
(* The theorems.                                                           *)
(***************************************************************************)
LEMMA InvariantStep == ASSUME IInv, [Next]_vars PROVE IInv'
<1>1. LinkStep
  BY LinkEffects DEF IInv
<1>2. ConnectionsOwned'
  BY <1>1, OwnedStep
<1>3. Shapes'
  BY ShapesStep
<1>4. CallPart'
  <2>1. CASE Connect
    BY <2>1, ConnectCall
  <2>2. CASE Discover
    BY <2>2, DiscoverCall
  <2>3. CASE Renew
    BY <2>3, RenewCall
  <2>4. CASE RegisterReport
    BY <2>4, RegisterReportCall
  <2>5. CASE ~Connect /\ ~Discover /\ ~Renew /\ ~RegisterReport
    <3>1. OtherStep /\ QuietLink
      BY <1>1, <2>5, OtherEffects DEF LinkStep
    <3>. QED BY <3>1, OtherCall
  <2>. QED BY <2>1, <2>2, <2>3, <2>4, <2>5
<1>. QED BY <1>2, <1>3, <1>4 DEF IInv, CallPart

LEMMA Invariant == Spec => []IInv
<1>1. IInv /\ [Next]_vars => IInv'
  BY InvariantStep
<1>. QED BY InitInvariant, <1>1, PTL DEF Spec

(* No connection leaks and no destroyed one stays stored: getIED, the      *)
(* discovery that raises, and error 3 of poll, ReadValue and               *)
(* registerWriteValue keep the stored connections and those that exist the *)
(* same, and a host has one exactly when it has an association.            *)
THEOREM ConnectionsAreOwned == Spec => []ConnectionsOwned
<1>1. IInv => ConnectionsOwned
  BY DEF IInv
<1>. QED BY Invariant, <1>1, PTL

(* Whatever call a discovery or a renewal is cut at, no later call works   *)
(* on an open session without its model or without one of the control      *)
(* blocks that registerForReporting listed for its host.                   *)
THEOREM OpenSessionsAreComplete == Spec => []SessionIsComplete
<1>1. IInv => SessionIsComplete
  <2>. SUFFICES ASSUME IInv, NEW h \in Hosts, session[h] = "open",
                       ~(pc \in {"discover", "renew"} /\ task.host = h)
                PROVE  model[h] # EmptyModel /\ Range(reporting[h]) \subseteq enabled[h]
    BY DEF SessionIsComplete
  <2>1. DOMAIN model[h] # {} /\ Range(reporting[h]) \subseteq enabled[h]
    BY DEF IInv, Complete, ToRenew
  <2>. QED BY <2>1 DEF EmptyModel
<1>. QED BY Invariant, <1>1, PTL
(***************************************************************************)
(* What is accepted is watched, for one IED.                               *)
(***************************************************************************)
LEMMA RegistersEffects ==
  ASSUME [Next]_vars
  PROVE  UNCHANGED registers \/ RegisterForPolling \/ RegisterAgain \/ RegisterReport
<1>1. ASSUME getIED PROVE UNCHANGED registers
  BY <1>1 DEF getIED, UseConnection, DiscoverAgain, Connect, ConnectFails, Discover, Renew,
              RenewOnLostConnection, Fail
<1>2. ASSUME updateValueInModel \/ WriteNothing \/ WriteObject PROVE UNCHANGED registers
  BY <1>2 DEF updateValueInModel, ReadNothing, ReadAttribute, NoticeLoss, ReadDirectory, Store,
              WriteNothing, WriteObject
<1>3. ASSUME controlObject \/ RegisterUnknown \/ RegisterOnLostConnection PROVE UNCHANGED registers
  BY <1>3 DEF controlObject, UseControl, CreateControlOnLostConnection, Fail,
              UseControlOfDestroyedConnection, RegisterUnknown, RegisterOnLostConnection
<1>4. ASSUME NEW kind, NEW refs, Begin(kind, refs) PROVE UNCHANGED registers
  BY <1>4 DEF Begin
<1>5. ASSUME NEW h \in Hosts,
             Lose(h) \/ ComesBack(h) \/ ReportHandler_cb(h) \/ \E p \in Changing : Change(h, p)
      PROVE  UNCHANGED registers
  BY <1>5 DEF Lose, ComesBack, ReportHandler_cb, BeginReport, StoreElement, Change
<1>6. ASSUME poll \/ UNCHANGED vars PROVE UNCHANGED registers
  BY <1>6 DEF poll, vars
<1>. QED
  BY <1>1, <1>2, <1>3, <1>4, <1>5, <1>6
     DEF Next, registerReadValue, ReadValue, registerWriteValue, operate, Proceed, registerForReporting

(* A text that begins with a member begins with whole names, if no name    *)
(* begins another one.                                                     *)
LEMMA WholeNames ==
  ASSUME NamePrefix = {}, NEW p \in Seq(STRING), NEW m \in Seq(STRING), StartsWith(p, m)
  PROVE  IsPrefix(m, p)
<1>1. Len(m) \in Nat /\ Len(p) \in Nat /\ Len(m) <= Len(p)
  BY DEF StartsWith
<1>2. ASSUME NEW i \in 1..Len(m) PROVE p[i] = m[i]
  <2>1. CASE i = Len(m)
    BY <2>1 DEF StartsWith
  <2>2. CASE i # Len(m)
    BY <1>1, <2>2 DEF StartsWith
  <2>. QED BY <2>1, <2>2
<1>3. SubSeq(m, 1, Len(m)) = SubSeq(p, 1, Len(m))
  BY <1>1, <1>2
<1>. QED BY <1>1, <1>3 DEF IsPrefix

Covers(rcb, p) == \E m \in Range(Members[DatSet[rcb]]) : IsPrefix(m, p)

LEMMA ReportsCover ==
  ASSUME NamePrefix = {}, NEW h, NEW p \in Tree \cup DxPaths \cup {<< >>}, NEW rcb \in ReportsOn(h, p)
  PROVE  rcb \in DOMAIN DatSet /\ Covers(rcb, p)
<1>1. PICK ds \in DataSetsFor(model[h], p) : rcb \in ControlBlocksFor(model[h], ds)
  BY DEF ReportsOn, FirstOf
<1>2. rcb \in DOMAIN DatSet /\ DatSet[rcb] = ds
  BY <1>1 DEF ControlBlocksFor
<1>3. PICK i \in DOMAIN Members[ds] : StartsWith(p, Members[ds][i])
  BY <1>1 DEF DataSetsFor
<1>4. Members[ds][i] \in Tree
  BY <1>1, <1>3, DataSetsAssumption DEF DataSetsFor
<1>5. p \in Seq(STRING) /\ Members[ds][i] \in Seq(STRING)
  <2>1. << >> \in Seq(STRING)
    OBVIOUS
  <2>. QED BY <1>4, <2>1, PathsAssumption
<1>6. IsPrefix(Members[ds][i], p)
  BY <1>3, <1>5, WholeNames
<1>. QED BY <1>2, <1>3, <1>6 DEF Covers, Range

(* The control blocks that are taken for registered are listed for ied.    *)
Watching(ied) ==
  cb_refs \subseteq Range(reporting[ied]) /\ accepted \subseteq Refs /\ AcceptedIsWatched

LEMMA RangeSequence == ASSUME NEW S, NEW s \in Seq(S) PROVE IsSequence(s)
<1>1. s \in [1..Len(s) -> Range(s)] /\ Len(s) \in Nat
  <2>1. DOMAIN s = 1..Len(s) /\ Len(s) \in Nat /\ s \in [1..Len(s) -> S]
    BY LenProperties
  <2>2. \A i \in DOMAIN s : s[i] \in Range(s)
    BY DEF Range
  <2>. QED BY <2>1, <2>2
<1>. QED BY <1>1, SeqDef DEF IsSequence

LEMMA WatchingStep ==
  ASSUME NEW ied, Hosts = {ied}, NamePrefix = {}, IInv, Watching(ied), [Next]_vars
  PROVE  Watching(ied)'
<1>. DEFINE new == <<Host, Path>>
<1>1. CASE UNCHANGED registers
  BY <1>1 DEF Watching, AcceptedIsWatched, registers
<1>2. CASE RegisterForPolling
  <2>1. IsSequence(polling) /\ polling' = Append(polling, new) /\ accepted' = accepted \cup {new}
        /\ UNCHANGED <<cb_refs, reporting>>
    <3>1. polling \in Seq(Refs)
      BY DEF IInv, TaskOK
    <3>2. IsSequence(polling)
      BY <3>1, RangeSequence
    <3>. QED BY <1>2, <3>2 DEF RegisterForPolling
  <2>2. Range(polling') = Range(polling) \cup {new}
    BY <2>1, AppendSequence
  <2>3. AcceptedIsWatched'
    BY <2>1, <2>2 DEF Watching, AcceptedIsWatched
  <2>4. new \in Refs
    BY <1>2, HostOfCall DEF IInv, RegisterForPolling, At, Refs
  <2>. QED BY <2>1, <2>3, <2>4 DEF Watching
<1>3. CASE RegisterAgain \/ RegisterReport
  <2>1. Host = ied /\ Path \in Tree \cup DxPaths \cup {<< >>}
    BY <1>3, HostOfCall DEF IInv, RegisterAgain, RegisterReport, At
  <2>2. UNCHANGED polling /\ accepted' = accepted \cup {new}
    BY <1>3 DEF RegisterAgain, RegisterReport
  <2>3. PICK rcb \in ReportsOn(Host, Path) :
          /\ Range(reporting'[ied]) = Range(reporting[ied]) \cup {rcb}
          /\ cb_refs' = cb_refs \cup {rcb}
    <3>1. CASE RegisterAgain
      <4>1. PICK rcb \in ReportsOn(Host, Path) : rcb \in cb_refs
        BY <3>1 DEF RegisterAgain
      <4>. QED BY <3>1, <4>1 DEF RegisterAgain, Watching
    <3>2. CASE RegisterReport
      <4>1. PICK rcb \in ReportsOn(Host, Path) :
              cb_refs' = cb_refs \cup {rcb} /\ reporting' = [reporting EXCEPT ![Host] = Append(@, rcb)]
        BY <3>2 DEF RegisterReport
      <4>2. reporting'[ied] = Append(reporting[ied], rcb) /\ IsSequence(reporting[ied])
        BY <2>1, <4>1 DEF IInv, Shapes, SequencesOK
      <4>. QED BY <4>1, <4>2, AppendSequence
    <3>. QED BY <1>3, <3>1, <3>2
  <2>4. Covers(rcb, Path)
    BY <2>1, <2>3, ReportsCover
  <2>5. new \in Refs /\ new[1] = ied /\ new[2] = Path
    BY <2>1 DEF Refs
  <2>6. ASSUME NEW r \in accepted'
        PROVE  r \in Range(polling') \/ \E c \in Range(reporting'[r[1]]) : Covers(c, r[2])
    <3>1. CASE r = new
      BY <2>3, <2>4, <2>5, <3>1
    <3>2. CASE r \in accepted
      <4>1. r[1] = ied
        BY <3>2 DEF Watching, Refs
      <4>2. r \in Range(polling) \/ \E c \in Range(reporting[r[1]]) : Covers(c, r[2])
        BY <3>2 DEF Watching, AcceptedIsWatched, Covers
      <4>. QED BY <2>2, <2>3, <4>1, <4>2
    <3>. QED BY <2>2, <3>1, <3>2
  <2>7. AcceptedIsWatched'
    BY <2>6 DEF AcceptedIsWatched, Covers
  <2>. QED BY <2>2, <2>3, <2>5, <2>7 DEF Watching
<1>. QED BY <1>1, <1>2, <1>3, RegistersEffects

(* A reference that registerReadValue accepted is polled or reported from  *)
(* then on: of one IED, whose names are such that a text that begins with  *)
(* a member of a data set is that member or below it.  A second IED of the *)
(* type would find its control blocks in cb_refs, and never list them.     *)
THEOREM AcceptedStaysWatched ==
  ASSUME NEW ied, Hosts = {ied}, NamePrefix = {}
  PROVE  Spec => []AcceptedIsWatched
<1>1. Init => Watching(ied)
  BY EmptySequence DEF Init, Watching, AcceptedIsWatched
<1>2. IInv /\ Watching(ied) /\ [Next]_vars => Watching(ied)'
  BY WatchingStep
<1>3. Watching(ied) => AcceptedIsWatched
  BY DEF Watching
<1>. QED BY Invariant, <1>1, <1>2, <1>3, PTL DEF Spec

(***************************************************************************)
(* Types: what a step changes of each part of the state.                   *)
(***************************************************************************)
InboxChange ==
  \/ UNCHANGED inbox
  \/ \E h \in Hosts, p \in Tree \cup DxPaths \cup {<< >>} \cup Changing : SetValue(h, p)
  \/ \E h \in Hosts : Lost(h)
  \/ Destroy
  \/ Renew
  \/ RegisterReport
  \/ \E h \in Hosts : BeginReport(h)

ModelChange ==
  /\ UNCHANGED model \/ Discover \/ Store \/ \E h \in Hosts : StoreElement(h)
  /\ UNCHANGED control \/ UseControl
  /\ UNCHANGED fetched \/ fetched' = EmptyModel \/ ReadAttribute \/ ReadDirectory
  /\ UNCHANGED handling \/ \E h \in Hosts : ReportHandler_cb(h)

Labels == {"idle", "getIED", "discover", "renew", "body", "readback", "store"}

CallChange ==
  \/ UNCHANGED <<task, pc, round, renew>>
  \/ pc # "idle" /\ Leave
  \/ Raise
  \/ \E kind \in {"register", "read", "write", "control"}, refs \in SUBSET Refs : Begin(kind, refs)
  \/ poll
  \/ /\ pc # "idle" /\ pc' \in Labels \ {"idle"} /\ UNCHANGED <<task, round>>
     /\ renew' = renew \/ renew' = reporting[Host] \/ (pc = "renew" /\ renew' = Tail(renew))

ServerChange ==
  /\ fault' \in {fault, "null control block", "null control object", "destroyed connection"}
  /\ \/ UNCHANGED <<up, losses>>
     \/ \E h \in Hosts : Lost(h)
     \/ \E h \in Hosts : UNCHANGED losses /\ up' = [up EXCEPT ![h] = TRUE]

Effects == InboxChange /\ ModelChange /\ CallChange /\ ServerChange

LEMMA ServeChange ==
  ASSUME TaskOK, pc # "idle", NEW n, NEW total, Serve(n, total)
  PROVE  InboxChange /\ (UNCHANGED <<up, losses>> \/ \E h \in Hosts : Lost(h))
BY HostOfCall DEF Serve, InboxChange

LEMMA StepEffects == ASSUME IInv, [Next]_vars PROVE Effects
<1>. USE DEF Effects, ModelChange, CallChange, ServerChange, Labels
<1>a. TaskOK
  BY DEF IInv
<1>b. ASSUME UNCHANGED inbox \/ Destroy PROVE InboxChange
  BY <1>b DEF InboxChange
<1>1. ASSUME UNCHANGED vars PROVE Effects
  BY <1>1, <1>b DEF vars, link, call, server
<1>2. ASSUME registerReadValue \/ ReadValue \/ registerWriteValue \/ operate PROVE Effects
  <2>1. PICK kind \in {"register", "read", "write", "control"}, refs \in SUBSET Refs : Begin(kind, refs)
    BY <1>2, RefsAssumption DEF registerReadValue, ReadValue, registerWriteValue, operate
  <2>. QED BY <1>b, <2>1 DEF Begin, link, server
<1>3. ASSUME poll PROVE Effects
  BY <1>3, <1>b DEF poll, link, server
<1>4. ASSUME UseConnection \/ Connect PROVE Effects
  BY <1>4, <1>b DEF UseConnection, Connect, Goto, link, server
<1>5. ASSUME DiscoverAgain \/ ConnectFails PROVE Effects
  BY <1>5, <1>b DEF DiscoverAgain, ConnectFails, link, server, Leave
<1>6. ASSUME Discover PROVE Effects
  <2>1. PICK n \in 0..Len(DiscoveryCalls) :
          /\ Serve(n, Len(DiscoveryCalls))
          /\ \/ Raise
             \/ Leave
             \/ /\ renew' = reporting[Host] /\ pc' = IF reporting[Host] = << >> THEN "body" ELSE "renew"
                /\ UNCHANGED <<task, round, fetched>>
    BY <1>6 DEF Discover
  <2>2. pc # "idle" /\ UNCHANGED <<control, handling, fault>>
    BY <1>6 DEF Discover
  <2>3. InboxChange /\ (UNCHANGED <<up, losses>> \/ \E h \in Hosts : Lost(h))
    BY <1>a, <2>1, <2>2, ServeChange
  <2>. QED BY <1>6, <2>1, <2>2, <2>3 DEF Raise, Leave
<1>7. ASSUME Renew PROVE Effects
  BY <1>7 DEF Renew, InboxChange, server
<1>8. ASSUME NEW what \in {"null control block", "null control object", "destroyed connection"}, Fail(what)
      PROVE  Effects
  BY <1>8, <1>b DEF Fail, link, call, server
<1>9. ASSUME RegisterUnknown \/ RegisterForPolling \/ RegisterAgain PROVE Effects
  BY <1>9, <1>b DEF RegisterUnknown, RegisterForPolling, RegisterAgain, At, Leave, link, server
<1>10. ASSUME RegisterReport PROVE Effects
  BY <1>10 DEF RegisterReport, InboxChange, At, Leave, server
<1>11. ASSUME WriteNothing PROVE Effects
  BY <1>11, <1>b DEF WriteNothing, At, Leave, Raise, link, server
<1>12. ASSUME WriteObject PROVE Effects
  <2>1. Host \in Hosts /\ Path \in Tree \cup DxPaths \cup {<< >>} /\ pc # "idle"
    BY <1>12, <1>a, HostOfCall DEF WriteObject, Writes, At
  <2>2. InboxChange
    BY <1>12, <2>1 DEF WriteObject, InboxChange
  <2>. QED BY <1>12, <2>1, <2>2 DEF WriteObject, Goto
<1>13. ASSUME ReadNothing \/ NoticeLoss PROVE Effects
  BY <1>13, <1>b DEF ReadNothing, NoticeLoss, Reads, Writes, At, Leave, link, server
<1>14. ASSUME ReadAttribute PROVE Effects
  <2>1. pc # "idle"
    BY <1>14 DEF ReadAttribute, Reads, At
  <2>. QED BY <1>14, <1>b, <2>1 DEF ReadAttribute, link, server
<1>15. ASSUME ReadDirectory PROVE Effects
  <2>1. pc # "idle" /\ \E n, total : Serve(n, total)
    BY <1>15 DEF ReadDirectory, Reads, At
  <2>2. InboxChange /\ (UNCHANGED <<up, losses>> \/ \E h \in Hosts : Lost(h))
    BY <1>a, <2>1, ServeChange
  <2>. QED BY <1>15, <2>1, <2>2 DEF ReadDirectory
<1>16. ASSUME Store \/ UseControl PROVE Effects
  BY <1>16, <1>b DEF Store, UseControl, At, Leave, link, server
<1>17. ASSUME NEW h \in Hosts, StoreElement(h) PROVE Effects
  BY <1>17, <1>b DEF StoreElement, ReportHandler_cb, link, call, server
<1>18. ASSUME NEW h \in Hosts, BeginReport(h) PROVE Effects
  BY <1>18 DEF BeginReport, ReportHandler_cb, InboxChange, call, server
<1>19. ASSUME NEW h \in Hosts, Lose(h) PROVE Effects
  BY <1>19 DEF Lose, InboxChange, call
<1>20. ASSUME NEW h \in Hosts, ComesBack(h) PROVE Effects
  BY <1>20, <1>b DEF ComesBack, link, call
<1>21. ASSUME NEW h \in Hosts, NEW p \in Changing, Change(h, p) PROVE Effects
  BY <1>21 DEF Change, InboxChange, call
<1>22. ASSUME Proceed PROVE Effects
  BY <1>22, <1>4, <1>5, <1>6, <1>7, <1>8, <1>9, <1>10, <1>11, <1>12, <1>13, <1>14, <1>15, <1>16
     DEF Proceed, getIED, registerForReporting, updateValueInModel, controlObject,
         RenewOnLostConnection, RegisterOnLostConnection, CreateControlOnLostConnection,
         UseControlOfDestroyedConnection
<1>. QED BY <1>1, <1>2, <1>3, <1>17, <1>18, <1>19, <1>20, <1>21, <1>22 DEF Next, ReportHandler_cb

(***************************************************************************)
(* Types: what is made of data sets, models and reports.                   *)
(***************************************************************************)
LEMMA PrintedValue ==
  ASSUME NEW vals \in [Leaves -> 0..MaxChanges], NEW p
  PROVE  printValue(p, vals) \in Values
BY DEF printValue, Values

LEMMA ReportTyped ==
  ASSUME NEW rcb \in DOMAIN DatSet, NEW vals \in [Leaves -> 0..MaxChanges], NEW included
  PROVE  Report(rcb, vals, included) \in Reports
<1>. DEFINE members == Members[DatSet[rcb]]
            listed == {i \in DOMAIN members : members[i] \in included}
            items == [i \in listed |-> printValue(members[i], vals)]
<1>1. \A i \in listed : printValue(members[i], vals) \in Values
  BY PrintedValue
<1>2. items \in [listed -> Values] /\ listed \in SUBSET DOMAIN members
  BY <1>1
<1>3. items \in ItemsOf(DatSet[rcb])
  BY <1>2 DEF ItemsOf
<1>4. Report(rcb, vals, included) = [RPT |-> rcb, items |-> items]
  BY DEF Report
<1>. HIDE DEF items
<1>5. [RPT |-> rcb, items |-> items] \in [RPT : {rcb}, items : ItemsOf(DatSet[rcb])]
  BY <1>3
<1>. QED BY <1>4, <1>5 DEF Reports

LEMMA ReportersTyped == ASSUME NEW h, NEW p PROVE ReportsOn(h, p) \subseteq DOMAIN DatSet
BY DEF ReportsOn, FirstOf, ControlBlocksFor

LEMMA ReportOpened ==
  ASSUME NEW report \in Reports
  PROVE  /\ report.RPT \in DOMAIN DatSet
         /\ \E I \in SUBSET DOMAIN Members[DatSet[report.RPT]] : report.items \in [I -> Values]
<1>1. PICK rcb \in DOMAIN DatSet : report \in [RPT : {rcb}, items : ItemsOf(DatSet[rcb])]
  BY DEF Reports
<1>2. report.RPT = rcb /\ report.items \in ItemsOf(DatSet[rcb])
  BY <1>1
<1>. QED BY <1>2 DEF ItemsOf

(* What the sequence of a finite set lists is in the set. *)
LEMMA Sequenced ==
  ASSUME NEW S, IsFiniteSet(S), NEW i \in 1..Cardinality(S)
  PROVE  SetToSeq(S)[i] \in S
<1>1. PICK f \in [1..Cardinality(S) -> S] : IsInjective(f)
  <2>1. ExistsBijection(1..Cardinality(S), S)
    BY FS_CardinalityType
  <2>. QED BY <2>1 DEF ExistsBijection, Bijection, Injection, IsInjective
<1>2. SetToSeq(S) \in [1..Cardinality(S) -> S]
  BY <1>1 DEF SetToSeq
<1>. QED BY <1>2

LEMMA EntryTyped ==
  ASSUME NEW vals \in [Leaves -> 0..MaxChanges], NEW p, NEW done
  PROVE  /\ Branch \in Entries /\ Reference \in Entries
         /\ BelowDirectory(p, done, vals) \in Entries
         /\ Attribute(printValue(p, vals), TRUE) \in Entries
<1>1. Unknown \in Values /\ printValue(p, vals) \in Values
  BY PrintedValue DEF Values
<1>2. \A v \in Values, typed \in BOOLEAN : Attribute(v, typed) \in Entries
  BY DEF Attribute, Entries
<1>3. Branch \in Entries /\ Reference \in Entries
  BY <1>1 DEF Branch, Reference, Entries
<1>. QED BY <1>1, <1>2, <1>3 DEF BelowDirectory

LEMMA ModelsTyped ==
  ASSUME NEW vals \in [Leaves -> 0..MaxChanges], NEW n, NEW p
  PROVE  ModelOK(EmptyModel) /\ ModelOK(discovery(n, vals)) /\ ModelOK(printDataDirectory(p, n, vals))
<1>1. ModelOK(EmptyModel)
  BY DEF ModelOK, EmptyModel
<1>2. ModelOK(discovery(n, vals))
  BY EntryTyped DEF ModelOK, discovery
<1>3. ModelOK(printDataDirectory(p, n, vals))
  BY EntryTyped DEF ModelOK, printDataDirectory, Below
<1>. QED BY <1>1, <1>2, <1>3

LEMMA StoredTyped ==
  ASSUME NEW m, ModelOK(m), NEW sub, ModelOK(sub), NEW p, NEW v \in Values
  PROVE  ModelOK(SetRead(m, sub)) /\ ModelOK(ReplaceBelow(m, p, sub)) /\ ModelOK(SetReported(m, p, v))
<1>1. ModelOK(SetRead(m, sub))
  BY DEF ModelOK, SetRead
<1>2. ModelOK(ReplaceBelow(m, p, sub))
  <2>1. Branch \in Entries
    BY DEF Branch, Entries, Values
  <2>. QED BY <2>1 DEF ModelOK, ReplaceBelow
<1>3. ModelOK(SetReported(m, p, v))
  BY DEF ModelOK, SetReported, Entries
<1>. QED BY <1>1, <1>2, <1>3

(***************************************************************************)
(* Types: the steps.                                                       *)
(***************************************************************************)
Types == IInv /\ TypeOK

LEMMA InboxStep == ASSUME Types, InboxChange PROVE inbox' \in [Hosts -> Seq(Reports)]
<1>0. inbox \in [Hosts -> Seq(Reports)] /\ values \in [Hosts -> [Leaves -> 0..MaxChanges]]
      /\ enabled \in [Hosts -> SUBSET DOMAIN DatSet] /\ changes \in 0..MaxChanges
  BY DEF Types, TypeOK, LinkTypes, ServerTypes
<1>1. ASSUME NEW h \in Hosts, NEW p, SetValue(h, p) PROVE inbox' \in [Hosts -> Seq(Reports)]
  <2>. DEFINE vals    == [values[h] EXCEPT ![p] = NewValue]
              holding == {m \in Tree : IsPrefix(m, p)}
              senders == {rcb \in enabled[h] : Range(Members[DatSet[rcb]]) \cap holding # {}}
              reports == [i \in 1..Cardinality(senders) |-> Report(SetToSeq(senders)[i], vals, holding)]
  <2>1. vals \in [Leaves -> 0..MaxChanges]
    <3>1. NewValue \in 0..MaxChanges
      BY <1>0, BoundsAssumption DEF NewValue
    <3>. QED BY <1>0, <3>1
  <2>2. senders \subseteq DOMAIN DatSet /\ IsFiniteSet(senders)
    <3>1. senders \subseteq DOMAIN DatSet
      BY <1>0
    <3>. QED BY <3>1, FS_Subset, DataSetsAssumption
  <2>3. inbox' = [inbox EXCEPT ![h] = @ \o reports]
    BY <1>1 DEF SetValue
  <2>. HIDE DEF vals, holding, senders
  <2>4. Cardinality(senders) \in Nat
    BY <2>2, FS_CardinalityType
  <2>5. \A i \in 1..Cardinality(senders) : Report(SetToSeq(senders)[i], vals, holding) \in Reports
    BY <2>1, <2>2, Sequenced, ReportTyped
  <2>6. reports \in Seq(Reports)
    BY <2>4, <2>5, SeqDef
  <2>. HIDE DEF reports
  <2>. QED BY <1>0, <2>3, <2>6
<1>2. ASSUME NEW h \in Hosts, Lost(h) PROVE inbox' \in [Hosts -> Seq(Reports)]
  <2>1. PICK n \in 0..Len(inbox[h]) : inbox' = [inbox EXCEPT ![h] = SubSeq(@, 1, n)]
    BY <1>2 DEF Lost
  <2>2. SubSeq(inbox[h], 1, n) \in Seq(Reports)
    BY <1>0, SubSeqProperties
  <2>. QED BY <1>0, <2>1, <2>2
<1>3. CASE Destroy
  <2>1. << >> \in Seq(Reports)
    OBVIOUS
  <2>. QED BY <1>0, <1>3, <2>1 DEF Destroy
<1>4. ASSUME NEW rcb \in DOMAIN DatSet, Enable(rcb), Host \in Hosts PROVE inbox' \in [Hosts -> Seq(Reports)]
  <2>1. Report(rcb, values[Host], Tree) \in Reports
    BY <1>0, <1>4, ReportTyped
  <2>. QED BY <1>0, <1>4, <2>1 DEF Enable
<1>5. CASE Renew
  <2>1. Head(renew) \in DOMAIN DatSet /\ Enable(Head(renew)) /\ Host \in Hosts
    BY <1>5, HostOfCall DEF Renew, Types, IInv, SequencesOK, TypeOK, CallTypes
  <2>. QED BY <1>4, <2>1
<1>6. CASE RegisterReport
  <2>1. \E rcb \in ReportsOn(Host, Path) : Enable(rcb)
    BY <1>6 DEF RegisterReport
  <2>2. Host \in Hosts
    BY <1>6, HostOfCall DEF RegisterReport, At, Types, IInv
  <2>. QED BY <1>4, <2>1, <2>2, ReportersTyped
<1>7. ASSUME NEW h \in Hosts, BeginReport(h) PROVE inbox' \in [Hosts -> Seq(Reports)]
  <2>1. inbox[h] # << >> /\ inbox' = [inbox EXCEPT ![h] = Tail(@)]
    BY <1>7 DEF BeginReport
  <2>2. Tail(inbox[h]) \in Seq(Reports)
    BY <1>0, <2>1
  <2>. QED BY <1>0, <2>1, <2>2
<1>. QED BY <1>0, <1>1, <1>2, <1>3, <1>5, <1>6, <1>7 DEF InboxChange

LEMMA LinkTypesStep == ASSUME Types, LinkStep, InboxChange PROVE LinkTypes'
<1>0. /\ con \in [Hosts -> Nat] /\ alive \subseteq Nat
      /\ session \in [Hosts -> {"none", "open", "lost"}]
      /\ enabled \in [Hosts -> SUBSET DOMAIN DatSet]
  BY DEF Types, TypeOK, LinkTypes
<1>. SUFFICES /\ con' \in [Hosts -> Nat] /\ alive' \subseteq Nat
              /\ session' \in [Hosts -> {"none", "open", "lost"}]
              /\ enabled' \in [Hosts -> SUBSET DOMAIN DatSet]
  BY InboxStep DEF LinkTypes
<1>1. CASE UNCHANGED <<con, alive, session, enabled>>
  BY <1>0, <1>1
<1>2. CASE Destroy
  BY <1>0, <1>2 DEF Destroy
<1>3. ASSUME NEW h \in Hosts, Lost(h), UNCHANGED <<con, alive>>
      PROVE  /\ con' \in [Hosts -> Nat] /\ alive' \subseteq Nat
             /\ session' \in [Hosts -> {"none", "open", "lost"}]
             /\ enabled' \in [Hosts -> SUBSET DOMAIN DatSet]
  BY <1>0, <1>3 DEF Lost
<1>4. CASE Connect
  <2>1. PICK c \in Unused : con' = [con EXCEPT ![Host] = c] /\ alive' = alive \cup {c}
    BY <1>4 DEF Connect
  <2>2. c \in Nat
    BY <2>1, BoundsAssumption DEF Unused
  <2>3. session' = [session EXCEPT ![Host] = "open"] /\ UNCHANGED enabled
    BY <1>4 DEF Connect
  <2>. QED BY <1>0, <2>1, <2>2, <2>3
<1>5. CASE Renew \/ RegisterReport
  <2>1. UNCHANGED <<con, alive, session>>
    BY <1>5 DEF Renew, RegisterReport
  <2>2. PICK rcb \in DOMAIN DatSet : Enable(rcb)
    <3>1. CASE Renew
      BY <3>1 DEF Renew, Types, IInv, SequencesOK, TypeOK, CallTypes
    <3>2. CASE RegisterReport
      BY <3>2, ReportersTyped DEF RegisterReport
    <3>. QED BY <1>5, <3>1, <3>2
  <2>. QED BY <1>0, <2>1, <2>2 DEF Enable
<1>. QED BY <1>1, <1>2, <1>3, <1>4, <1>5 DEF LinkStep, QuietLink

HandlingOK ==
  DOMAIN handling = Hosts /\ \A h \in Hosts : \A i \in DOMAIN handling[h] : handling[h][i] \in Elements

LEMMA BeginReportTyped ==
  ASSUME Types, NEW h \in Hosts, BeginReport(h)
  PROVE  HandlingOK'
<1>. DEFINE ds       == DatSet[Head(inbox[h]).RPT]
            items    == Head(inbox[h]).items
            included == {i \in DOMAIN items : MemberPath(ds, i) \in DOMAIN model[h]}
            elements == [i \in included |-> [path |-> Members[ds][i], value |-> items[i]]]
<1>1. Head(inbox[h]) \in Reports
  <2>1. inbox[h] \in Seq(Reports) /\ inbox[h] # << >>
    BY DEF Types, TypeOK, LinkTypes, BeginReport
  <2>. QED BY <2>1
<1>2. ds \in DataSets
  BY <1>1, ReportOpened, DataSetsAssumption
<1>3. PICK I \in SUBSET DOMAIN Members[ds] : items \in [I -> Values]
  BY <1>1, ReportOpened
<1>4. handling' = [handling EXCEPT ![h] = elements]
  BY DEF BeginReport
<1>. HIDE DEF ds, items
<1>5. \A i \in included : Members[ds][i] \in Tree /\ items[i] \in Values
  BY <1>2, <1>3, DataSetsAssumption
<1>6. DOMAIN elements = included /\ \A i \in included : elements[i] \in Elements
  BY <1>5 DEF Elements
<1>. HIDE DEF elements
<1>. QED BY <1>4, <1>6 DEF HandlingOK, Types, TypeOK, ModelTypes

LEMMA StoreElementTyped ==
  ASSUME Types, NEW h \in Hosts, StoreElement(h)
  PROVE  /\ HandlingOK'
         /\ DOMAIN model' = Hosts /\ \A g \in Hosts : ModelOK(model'[g])
<1>1. HandlingOK /\ DOMAIN model = Hosts /\ \A g \in Hosts : ModelOK(model[g])
  BY DEF Types, TypeOK, ModelTypes, HandlingOK
<1>2. PICK i \in DOMAIN handling[h] :
        /\ model' = [model EXCEPT ![h] = SetReported(@, handling[h][i].path, handling[h][i].value)]
        /\ handling' = [handling EXCEPT ![h] = Restrict(@, DOMAIN @ \ {i})]
  BY DEF StoreElement
<1>3. handling[h][i].value \in Values
  BY <1>1 DEF Elements, HandlingOK
<1>4. HandlingOK'
  <2>1. /\ DOMAIN Restrict(handling[h], DOMAIN handling[h] \ {i}) = DOMAIN handling[h] \ {i}
        /\ \A j \in DOMAIN handling[h] \ {i} :
             Restrict(handling[h], DOMAIN handling[h] \ {i})[j] = handling[h][j]
    BY DEF Restrict
  <2>. QED BY <1>1, <1>2, <2>1 DEF HandlingOK
<1>5. ModelOK(SetReported(model[h], handling[h][i].path, handling[h][i].value))
  <2>1. ModelOK(model[h]) /\ ModelOK(fetched)
    BY DEF Types, TypeOK, ModelTypes
  <2>. QED BY <1>3, <2>1, StoredTyped
<1>. QED BY <1>1, <1>2, <1>4, <1>5

LEMMA ModelTypesStep == ASSUME Types, Effects, [Next]_vars PROVE ModelTypes'
<1>0. /\ DOMAIN model = Hosts /\ \A h \in Hosts : ModelOK(model[h])
      /\ DOMAIN control = Hosts /\ \A h \in Hosts : control[h] \in [DOMAIN control[h] -> Nat]
      /\ ModelOK(fetched)
      /\ HandlingOK
      /\ con \in [Hosts -> Nat] /\ values \in [Hosts -> [Leaves -> 0..MaxChanges]]
      /\ TaskOK
  BY DEF Types, IInv, TypeOK, ModelTypes, LinkTypes, ServerTypes, HandlingOK
<1>1. DOMAIN model' = Hosts /\ \A h \in Hosts : ModelOK(model'[h])
  <2>1. CASE Discover
    <3>1. PICK n : model' = model \/ model' = [model EXCEPT ![Host] = discovery(n, values[Host])]
      BY <2>1 DEF Discover
    <3>2. Host \in Hosts
      BY <1>0, <2>1, HostOfCall DEF Discover
    <3>3. ModelOK(discovery(n, values[Host]))
      BY <1>0, <3>2, ModelsTyped
    <3>. QED BY <1>0, <3>1, <3>3
  <2>2. CASE Store
    <3>1. Host \in Hosts
      BY <1>0, <2>2, HostOfCall DEF Store
    <3>2. Unknown \in Values
      BY DEF Values
    <3>3. ModelOK(SetRead(model[Host], fetched)) /\ ModelOK(ReplaceBelow(model[Host], Path, fetched))
      BY <1>0, <3>1, <3>2, StoredTyped
    <3>. QED BY <1>0, <2>2, <3>3 DEF Store
  <2>3. ASSUME NEW h \in Hosts, StoreElement(h)
        PROVE  DOMAIN model' = Hosts /\ \A g \in Hosts : ModelOK(model'[g])
    BY <2>3, StoreElementTyped
  <2>. QED BY <1>0, <2>1, <2>2, <2>3 DEF Effects, ModelChange
<1>2. DOMAIN control' = Hosts /\ \A h \in Hosts : control'[h] \in [DOMAIN control'[h] -> Nat]
  <2>1. CASE UseControl
    <3>1. Host \in Hosts
      BY <1>0, <2>1, HostOfCall DEF UseControl, At
    <3>. DEFINE kept == [p \in DOMAIN control[Host] \cup {Path} |->
                           IF p = Path THEN con[Host] ELSE control[Host][p]]
    <3>2. control' = [control EXCEPT ![Host] = kept]
      BY <2>1 DEF UseControl
    <3>3. kept \in [DOMAIN kept -> Nat]
      BY <1>0, <3>1
    <3>. HIDE DEF kept
    <3>. QED BY <1>0, <3>2, <3>3
  <2>. QED BY <1>0, <2>1 DEF Effects, ModelChange
<1>3. ModelOK(fetched')
  <2>1. CASE fetched' = EmptyModel
    BY <1>0, <2>1 DEF ModelOK, EmptyModel
  <2>2. CASE ReadAttribute
    <3>1. Host \in Hosts /\ Path \in DOMAIN model[Host]
      BY <1>0, <2>2, HostOfCall DEF ReadAttribute, Reads, At, IsAttribute
    <3>2. Path \in Tree \cup DxPaths
      BY <1>0, <3>1 DEF ModelOK
    <3>3. fetched' = [p \in {Path} |-> Attribute(printValue(p, values[Host]), TRUE)]
      BY <2>2 DEF ReadAttribute
    <3>4. Attribute(printValue(Path, values[Host]), TRUE) \in Entries
      BY <1>0, <3>1, EntryTyped
    <3>. QED BY <3>2, <3>3, <3>4 DEF ModelOK
  <2>3. CASE ReadDirectory
    <3>1. Host \in Hosts
      BY <1>0, <2>3, HostOfCall DEF ReadDirectory, Reads, At
    <3>2. PICK n : fetched' = printDataDirectory(Path, n, values[Host])
      BY <2>3 DEF ReadDirectory
    <3>. QED BY <1>0, <3>1, <3>2, ModelsTyped
  <2>. QED BY <1>0, <2>1, <2>2, <2>3 DEF Effects, ModelChange
<1>4. HandlingOK'
  <2>1. CASE UNCHANGED handling
    BY <1>0, <2>1 DEF HandlingOK
  <2>. QED BY <2>1, BeginReportTyped, StoreElementTyped DEF Effects, ModelChange, ReportHandler_cb
<1>. QED BY <1>1, <1>2, <1>3, <1>4 DEF ModelTypes, HandlingOK

LEMMA RegisterTypesStep == ASSUME Types, [Next]_vars PROVE RegisterTypes'
<1>0. /\ polling \in Seq(Refs) /\ accepted \subseteq Refs
      /\ cb_refs \subseteq DOMAIN DatSet /\ reporting \in [Hosts -> Seq(DOMAIN DatSet)]
      /\ TaskOK
  BY DEF Types, IInv, TypeOK, RegisterTypes
<1>1. CASE UNCHANGED registers
  BY <1>0, <1>1 DEF registers, RegisterTypes
<1>2. ASSUME RegisterForPolling \/ RegisterAgain \/ RegisterReport
      PROVE  Host \in Hosts /\ <<Host, Path>> \in Refs
  BY <1>0, <1>2, HostOfCall DEF RegisterForPolling, RegisterAgain, RegisterReport, At, Refs
<1>3. CASE RegisterForPolling
  <2>1. Append(polling, <<Host, Path>>) \in Seq(Refs)
    BY <1>0, <1>2, <1>3
  <2>. QED BY <1>0, <1>2, <1>3, <2>1 DEF RegisterForPolling, RegisterTypes
<1>4. CASE RegisterAgain
  BY <1>0, <1>2, <1>4 DEF RegisterAgain, RegisterTypes
<1>5. CASE RegisterReport
  <2>1. PICK rcb \in ReportsOn(Host, Path) :
          cb_refs' = cb_refs \cup {rcb} /\ reporting' = [reporting EXCEPT ![Host] = Append(@, rcb)]
    BY <1>5 DEF RegisterReport
  <2>2. rcb \in DOMAIN DatSet
    BY <2>1, ReportersTyped
  <2>3. polling' = polling /\ accepted' = accepted \cup {<<Host, Path>>}
    BY <1>5 DEF RegisterReport
  <2>4. reporting' \in [Hosts -> Seq(DOMAIN DatSet)]
    <3>1. Append(reporting[Host], rcb) \in Seq(DOMAIN DatSet)
      BY <1>0, <1>2, <1>5, <2>2
    <3>. QED BY <1>0, <2>1, <3>1
  <2>. QED BY <1>0, <1>2, <1>5, <2>1, <2>2, <2>3, <2>4 DEF RegisterTypes
<1>. QED BY <1>1, <1>3, <1>4, <1>5, RegistersEffects

Kinds == {"register", "read", "write", "control", "poll"}

LEMMA TaskMade ==
  ASSUME NEW kind \in Kinds, NEW r \in Refs
  PROVE  [kind |-> kind, host |-> r[1], path |-> r[2]] \in Tasks
BY DEF Kinds, Refs, Tasks

LEMMA CallTypesStep == ASSUME Types, Effects PROVE CallTypes'
<1>0. /\ pc \in Labels
      /\ IF pc = "idle" THEN task = NoTask ELSE task \in Tasks
      /\ round \in Seq(Refs) /\ polling \in Seq(Refs) /\ renew \in Seq(DOMAIN DatSet)
      /\ reporting \in [Hosts -> Seq(DOMAIN DatSet)]
  BY DEF Types, TypeOK, CallTypes, RegisterTypes, Labels
<1>a. << >> \in Seq(Refs) /\ << >> \in Seq(DOMAIN DatSet)
  OBVIOUS
<1>1. CASE UNCHANGED <<task, pc, round, renew>>
  BY <1>0, <1>1 DEF CallTypes, Labels
<1>2. CASE pc # "idle" /\ Leave
  <2>1. CASE round = << >>
    BY <1>0, <1>2, <1>a, <2>1 DEF Leave, CallTypes, Labels
  <2>2. CASE round # << >>
    <3>1. Head(round) \in Refs /\ Tail(round) \in Seq(Refs)
      BY <1>0, <2>2
    <3>3. task.kind \in Kinds
      BY <1>0, <1>2 DEF Tasks, Kinds
    <3>4. task' \in Tasks /\ pc' = "getIED"
      BY <1>2, <2>2, <3>1, <3>3, TaskMade DEF Leave
    <3>. QED BY <1>2, <1>a, <2>2, <3>1, <3>4 DEF Leave, CallTypes
  <2>. QED BY <2>1, <2>2
<1>3. CASE Raise
  BY <1>3, <1>a DEF Raise, CallTypes
<1>4. ASSUME NEW kind \in {"register", "read", "write", "control"}, NEW refs \in SUBSET Refs,
             Begin(kind, refs)
      PROVE  CallTypes'
  <2>1. task' \in Tasks
    BY <1>4, TaskMade DEF Begin, Kinds
  <2>. QED BY <1>0, <1>4, <2>1 DEF Begin, CallTypes
<1>5. CASE poll
  <2>1. Head(polling) \in Refs /\ Tail(polling) \in Seq(Refs)
    BY <1>0, <1>5 DEF poll
  <2>2. task' \in Tasks
    BY <1>5, <2>1, TaskMade DEF poll, Kinds
  <2>. QED BY <1>0, <1>5, <2>1, <2>2 DEF poll, CallTypes
<1>6. ASSUME pc # "idle", pc' \in Labels \ {"idle"}, UNCHANGED <<task, round>>,
             renew' = renew \/ renew' = reporting[Host] \/ (pc = "renew" /\ renew' = Tail(renew))
      PROVE  CallTypes'
  <2>1. Host \in Hosts
    BY <1>0, <1>6 DEF Tasks, Host
  <2>2. pc = "renew" => Tail(renew) \in Seq(DOMAIN DatSet)
    BY <1>0 DEF Types, IInv, SequencesOK
  <2>3. renew' \in Seq(DOMAIN DatSet)
    BY <1>0, <1>6, <2>1, <2>2
  <2>. QED BY <1>0, <1>6, <2>3 DEF CallTypes, Labels
<1>. QED BY <1>1, <1>2, <1>3, <1>4, <1>5, <1>6 DEF Effects, CallChange

LEMMA ServerTypesStep == ASSUME Types, Effects, [Next]_vars PROVE ServerTypes'
<1>0. /\ fault \in {"none", "null control block", "null control object", "destroyed connection"}
      /\ up \in [Hosts -> BOOLEAN] /\ losses \in 0..MaxLosses
  BY DEF Types, TypeOK, ServerTypes
<1>1. values' \in [Hosts -> [Leaves -> 0..MaxChanges]] /\ changes' \in 0..MaxChanges
  BY ValuesShape DEF Types, IInv
<1>2. up' \in [Hosts -> BOOLEAN] /\ losses' \in 0..MaxLosses
  <2>1. ASSUME NEW h \in Hosts, Lost(h) PROVE up' \in [Hosts -> BOOLEAN] /\ losses' \in 0..MaxLosses
    <3>1. losses < MaxLosses /\ losses' = losses + 1 /\ \E b \in BOOLEAN : up' = [up EXCEPT ![h] = b]
      BY <2>1 DEF Lost
    <3>2. losses' \in 0..MaxLosses
      <4>1. MaxLosses \in Nat /\ losses \in 0..MaxLosses
        BY <1>0, BoundsAssumption
      <4>2. losses < MaxLosses /\ losses' = losses + 1
        BY <3>1
      <4>. QED BY <4>1, <4>2
    <3>. QED BY <1>0, <3>1, <3>2
  <2>2. ASSUME NEW h \in Hosts, UNCHANGED losses, up' = [up EXCEPT ![h] = TRUE]
        PROVE  up' \in [Hosts -> BOOLEAN] /\ losses' \in 0..MaxLosses
    BY <1>0, <2>2
  <2>. QED BY <1>0, <2>1, <2>2 DEF Effects, ServerChange
<1>. QED BY <1>0, <1>1, <1>2 DEF Effects, ServerChange, ServerTypes

LEMMA InitTypes == Init => TypeOK
<1>. SUFFICES ASSUME Init PROVE TypeOK
  OBVIOUS
<1>0. << >> \in Seq(Refs) /\ << >> \in Seq(DOMAIN DatSet) /\ << >> \in Seq(Reports)
  OBVIOUS
<1>1. LinkTypes
  BY <1>0 DEF Init, LinkTypes
<1>2. ModelTypes
  <2>1. ModelOK(EmptyModel)
    BY DEF ModelOK, EmptyModel
  <2>2. << >> \in [{} -> Nat]
    OBVIOUS
  <2>. QED BY <2>1, <2>2 DEF Init, ModelTypes
<1>3. RegisterTypes
  BY <1>0 DEF Init, RegisterTypes
<1>4. CallTypes
  BY <1>0 DEF Init, CallTypes
<1>5. ServerTypes
  BY BoundsAssumption DEF Init, ServerTypes
<1>. QED BY <1>1, <1>2, <1>3, <1>4, <1>5 DEF TypeOK

(* Whatever mixture of reads, reports, writes and interrupted discoveries  *)
(* the model is made of, each of its entries is one; a poll, an exception  *)
(* and a reconnection leave a call exactly when none is in progress; and   *)
(* reports and their elements belong to data sets.                         *)
THEOREM TypeCorrect == Spec => []TypeOK
<1>1. Types /\ [Next]_vars => TypeOK'
  BY LinkEffects, StepEffects, LinkTypesStep, ModelTypesStep, RegisterTypesStep, CallTypesStep,
     ServerTypesStep DEF Types, TypeOK, IInv, Effects
<1>. QED BY Invariant, InitTypes, <1>1, PTL DEF Spec, Types

(***************************************************************************)
(* The search of registerForReporting.                                     *)
(***************************************************************************)
NameBefore(dir, a, b) ==
  \E j, k \in DOMAIN Kids[dir] : j < k /\ Kids[dir][j] = a /\ Kids[dir][k] = b

InNode(S) == \A p \in S : p \in Tree /\ Len(p) = 3

(* Of paths with an i-th name below dir, some have the first one.          *)
LEMMA FirstName ==
  ASSUME NEW S, S # {}, NEW dir \in Tree, NEW i, \A p \in S : p[i] \in Range(Kids[dir])
  PROVE  \E m \in S : \A q \in S : q[i] = m[i] \/ NameBefore(dir, m[i], q[i])
<1>. DEFINE N == {j \in DOMAIN Kids[dir] : \E p \in S : Kids[dir][j] = p[i]}
<1>1. \A p \in S : \E j \in DOMAIN Kids[dir] : Kids[dir][j] = p[i]
  BY DEF Range
<1>2. N \subseteq Nat /\ N # {}
  <2>2. Kids[dir] \in Seq(STRING)
    BY TreeAssumption
  <2>3. DOMAIN Kids[dir] \subseteq Nat
    BY <2>2
  <2>. QED BY <1>1, <2>3
<1>3. PICK j \in N : \A k \in N : j <= k
  BY <1>2, LeastNumber
<1>4. PICK m \in S : Kids[dir][j] = m[i]
  OBVIOUS
<1>5. ASSUME NEW q \in S PROVE q[i] = m[i] \/ NameBefore(dir, m[i], q[i])
  <2>1. PICK k \in DOMAIN Kids[dir] : Kids[dir][k] = q[i]
    BY <1>1
  <2>2. k \in N /\ j <= k /\ j \in Nat /\ k \in Nat
    BY <1>2, <1>3, <2>1
  <2>3. CASE j = k
    BY <1>4, <2>1, <2>3
  <2>4. CASE j < k
    BY <1>4, <2>1, <2>4 DEF NameBefore
  <2>. QED BY <2>2, <2>3, <2>4
<1>. QED BY <1>5

(* What is in front of the names of a path: of equal names, the same.      *)
InFront(p, n) == SubSeq(p, 1, n)

LEMMA InFrontIs ==
  ASSUME NEW p \in Seq(STRING), NEW n \in 0 .. Len(p)
  PROVE  /\ InFront(p, n) \in Seq(STRING) /\ Len(InFront(p, n)) = n
         /\ \A i \in 1..n : InFront(p, n)[i] = p[i]
<1>1. \A i \in 1..n : p[i] \in STRING
  OBVIOUS
<1>2. n \in Int /\ 1 \in Int
  OBVIOUS
<1>3. /\ SubSeq(p, 1, n) \in Seq(STRING)
      /\ Len(SubSeq(p, 1, n)) = IF 1 <= n THEN n - 1 + 1 ELSE 0
      /\ \A i \in 1 .. n - 1 + 1 : SubSeq(p, 1, n)[i] = p[1 + i - 1]
  BY <1>1, <1>2, SubSeqProperties
<1>4. Len(SubSeq(p, 1, n)) = n
  BY <1>3
<1>5. ASSUME NEW i \in 1..n PROVE SubSeq(p, 1, n)[i] = p[i]
  <2>1. i \in 1 .. n - 1 + 1 /\ 1 + i - 1 = i
    OBVIOUS
  <2>2. SubSeq(p, 1, n)[i] = p[1 + i - 1]
    BY <1>3, <2>1
  <2>. QED BY <2>1, <2>2
<1>. QED BY <1>3, <1>4, <1>5, Zenon DEF InFront

LEMMA SameInFront ==
  ASSUME NEW p \in Seq(STRING), NEW q \in Seq(STRING), Len(p) = 3, Len(q) = 3,
         NEW n \in 0..3, \A i \in 1..n : p[i] = q[i]
  PROVE  InFront(p, n) = InFront(q, n)
<1>0. n \in 0 .. Len(p) /\ n \in 0 .. Len(q)
  OBVIOUS
<1>1. /\ InFront(p, n) \in Seq(STRING) /\ Len(InFront(p, n)) = n
      /\ \A i \in 1..n : InFront(p, n)[i] = p[i]
  BY <1>0, InFrontIs, Zenon
<1>2. /\ InFront(q, n) \in Seq(STRING) /\ Len(InFront(q, n)) = n
      /\ \A i \in 1..n : InFront(q, n)[i] = q[i]
  BY <1>0, InFrontIs, Zenon
<1>. QED BY <1>1, <1>2, SeqEqual

LEMMA NamesOfPath ==
  ASSUME NEW p \in Seq(STRING), NEW q \in Seq(STRING), Len(p) = 3, Len(q) = 3
  PROVE  /\ InFront(p, 0) = InFront(q, 0)
         /\ p[1] = q[1] => InFront(p, 1) = InFront(q, 1)
         /\ p[1] = q[1] /\ p[2] = q[2] => InFront(p, 2) = InFront(q, 2)
         /\ p[1] = q[1] /\ p[2] = q[2] /\ p[3] = q[3] => p = q
<1>1. InFront(p, 0) = InFront(q, 0)
  BY SameInFront
<1>2. ASSUME p[1] = q[1] PROVE InFront(p, 1) = InFront(q, 1)
  <2>1. \A i \in 1..1 : p[i] = q[i]
    BY <1>2
  <2>. QED BY <2>1, SameInFront
<1>3. ASSUME p[1] = q[1], p[2] = q[2] PROVE InFront(p, 2) = InFront(q, 2)
  <2>1. \A i \in 1..2 : p[i] = q[i]
    BY <1>3
  <2>. QED BY <2>1, SameInFront
<1>4. ASSUME p[1] = q[1], p[2] = q[2], p[3] = q[3] PROVE p = q
  <2>1. \A i \in 1..3 : p[i] = q[i]
    BY <1>4
  <2>. QED BY <2>1, SeqEqual
<1>. QED BY <1>1, <1>2, <1>3, <1>4

LEMMA PrecedesByName ==
  ASSUME NEW p \in Seq(STRING), NEW q \in Seq(STRING), Len(p) = 3, Len(q) = 3,
         \/ NameBefore(InFront(p, 0), p[1], q[1])
         \/ p[1] = q[1] /\ NameBefore(InFront(p, 1), p[2], q[2])
         \/ p[1] = q[1] /\ p[2] = q[2] /\ NameBefore(InFront(p, 2), p[3], q[3])
  PROVE  Precedes(p, q)
<1>. SUFFICES \E i \in 1..3 : /\ InFront(p, i - 1) = InFront(q, i - 1)
                              /\ NameBefore(InFront(p, i - 1), p[i], q[i])
  BY DEF Precedes, NameBefore, InFront
<1>2. CASE NameBefore(InFront(p, 0), p[1], q[1])
  <2>. WITNESS 1 \in 1..3
  <2>. QED BY <1>2, NamesOfPath
<1>3. CASE p[1] = q[1] /\ NameBefore(InFront(p, 1), p[2], q[2])
  <2>. WITNESS 2 \in 1..3
  <2>. QED BY <1>3, NamesOfPath
<1>4. CASE p[1] = q[1] /\ p[2] = q[2] /\ NameBefore(InFront(p, 2), p[3], q[3])
  <2>. WITNESS 3 \in 1..3
  <2>. QED BY <1>4, NamesOfPath
<1>. QED BY <1>2, <1>3, <1>4

(* The names of a path are below what is in front of them.                 *)
LEMMA NamesBelow ==
  ASSUME NEW p \in Tree, Len(p) = 3
  PROVE  /\ InFront(p, 0) \in Tree /\ p[1] \in Range(Kids[InFront(p, 0)])
         /\ InFront(p, 1) \in Tree /\ p[2] \in Range(Kids[InFront(p, 1)])
         /\ InFront(p, 2) \in Tree /\ p[3] \in Range(Kids[InFront(p, 2)])
<1>2. \A i \in 1..3 : InFront(p, i - 1) \in Tree /\ p[i] \in Range(Kids[InFront(p, i - 1)])
  BY TreeAssumption DEF InFront
<1>3. InFront(p, 1 - 1) \in Tree /\ p[1] \in Range(Kids[InFront(p, 1 - 1)])
  BY <1>2
<1>4. InFront(p, 2 - 1) \in Tree /\ p[2] \in Range(Kids[InFront(p, 2 - 1)])
  BY <1>2
<1>5. InFront(p, 3 - 1) \in Tree /\ p[3] \in Range(Kids[InFront(p, 3 - 1)])
  BY <1>2
<1>. QED BY <1>3, <1>4, <1>5

LEMMA FirstPath ==
  ASSUME NEW S, S # {}, InNode(S)
  PROVE  \E m \in S : \A q \in S \ {m} : Precedes(m, q)
<1>0. \A p \in S : p \in Seq(STRING) /\ Len(p) = 3
  BY PathsAssumption DEF InNode
<1>a. \A p \in S : p \in Tree
  BY DEF InNode
<1>b. PICK s \in S : TRUE
  OBVIOUS
<1>1. PICK m1 \in S : \A q \in S : q[1] = m1[1] \/ NameBefore(InFront(s, 0), m1[1], q[1])
  <2>1. InFront(s, 0) \in Tree /\ \A p \in S : p[1] \in Range(Kids[InFront(s, 0)])
    BY <1>0, <1>a, NamesBelow, NamesOfPath
  <2>. QED BY <2>1, FirstName
<1>. DEFINE S1 == {q \in S : q[1] = m1[1]}
<1>2. PICK m2 \in S1 : \A q \in S1 : q[2] = m2[2] \/ NameBefore(InFront(m1, 1), m2[2], q[2])
  <2>1. InFront(m1, 1) \in Tree /\ \A p \in S1 : p[2] \in Range(Kids[InFront(m1, 1)])
    BY <1>0, <1>a, NamesBelow, NamesOfPath
  <2>2. S1 # {}
    OBVIOUS
  <2>. HIDE DEF S1
  <2>. QED BY <2>1, <2>2, FirstName
<1>. DEFINE S2 == {q \in S1 : q[2] = m2[2]}
<1>3. PICK m \in S2 : \A q \in S2 : q[3] = m[3] \/ NameBefore(InFront(m2, 2), m[3], q[3])
  <2>1. InFront(m2, 2) \in Tree /\ \A p \in S2 : p[3] \in Range(Kids[InFront(m2, 2)])
    BY <1>0, <1>a, NamesBelow, NamesOfPath
  <2>2. S2 # {}
    OBVIOUS
  <2>. HIDE DEF S2
  <2>. QED BY <2>1, <2>2, FirstName
<1>4. /\ m \in S /\ m[1] = m1[1] /\ m[2] = m2[2] /\ m2[1] = m1[1]
      /\ InFront(m, 0) = InFront(s, 0) /\ InFront(m, 1) = InFront(m1, 1) /\ InFront(m, 2) = InFront(m2, 2)
  <2>1. m \in S /\ m2 \in S /\ m[1] = m1[1] /\ m[2] = m2[2] /\ m2[1] = m1[1]
    OBVIOUS
  <2>. QED BY <1>0, <2>1, NamesOfPath
<1>5. ASSUME NEW q \in S, q # m PROVE Precedes(m, q)
  <2>1. CASE q[1] # m1[1]
    <3>1. NameBefore(InFront(m, 0), m[1], q[1])
      BY <1>1, <1>4, <1>5, <2>1
    <3>. QED BY <1>0, <1>4, <3>1, PrecedesByName
  <2>2. CASE q[1] = m1[1] /\ q[2] # m2[2]
    <3>1. NameBefore(InFront(m, 1), m[2], q[2]) /\ m[1] = q[1]
      BY <1>2, <1>4, <1>5, <2>2
    <3>. QED BY <1>0, <1>4, <3>1, PrecedesByName
  <2>3. CASE q[1] = m1[1] /\ q[2] = m2[2]
    <3>1. q[3] # m[3]
      BY <1>0, <1>4, <1>5, <2>3, NamesOfPath
    <3>2. NameBefore(InFront(m, 2), m[3], q[3]) /\ m[1] = q[1] /\ m[2] = q[2]
      BY <1>3, <1>4, <1>5, <2>3, <3>1
    <3>. QED BY <1>0, <1>4, <3>2, PrecedesByName
  <2>. QED BY <2>1, <2>2, <2>3
<1>. QED BY <1>4, <1>5

(* No path comes before and after another one.                             *)
LEMMA OneOrder ==
  ASSUME NEW p, NEW q, InNode({p, q}), Precedes(p, q), Precedes(q, p)
  PROVE  FALSE
<1>0. p \in Tree /\ q \in Tree /\ Len(p) = 3 /\ Len(q) = 3 /\ p \in Seq(STRING) /\ q \in Seq(STRING)
  BY PathsAssumption DEF InNode
<1>1. PICK i \in 1..3 : SubSeq(p, 1, i - 1) = SubSeq(q, 1, i - 1)
                        /\ NameBefore(SubSeq(p, 1, i - 1), p[i], q[i])
  BY <1>0 DEF Precedes, NameBefore
<1>2. PICK e \in 1..3 : SubSeq(q, 1, e - 1) = SubSeq(p, 1, e - 1)
                        /\ NameBefore(SubSeq(q, 1, e - 1), q[e], p[e])
  BY <1>0 DEF Precedes, NameBefore
<1>3. \A a, b \in 1..3 : a < b /\ SubSeq(p, 1, b - 1) = SubSeq(q, 1, b - 1) => p[a] = q[a]
  <2>. SUFFICES ASSUME NEW a \in 1..3, NEW b \in 1..3, a < b, SubSeq(p, 1, b - 1) = SubSeq(q, 1, b - 1)
                PROVE  p[a] = q[a]
    OBVIOUS
  <2>1. SubSeq(p, 1, b - 1)[a] = p[a] /\ SubSeq(q, 1, b - 1)[a] = q[a]
    BY <1>0
  <2>. QED BY <2>1
<1>4. \A dir \in Tree : \A a, b : NameBefore(dir, a, b) => a # b /\ ~NameBefore(dir, b, a)
  <2>. SUFFICES ASSUME NEW dir \in Tree, NEW a, NEW b, NameBefore(dir, a, b),
                       a = b \/ NameBefore(dir, b, a)
                PROVE  FALSE
    OBVIOUS
  <2>1. Kids[dir] \in Seq(STRING) /\ IsInjective(Kids[dir])
    BY TreeAssumption
  <2>2. DOMAIN Kids[dir] \subseteq Nat
    BY <2>1
  <2>3. PICK j, k \in DOMAIN Kids[dir] : j < k /\ Kids[dir][j] = a /\ Kids[dir][k] = b
    BY DEF NameBefore
  <2>4. a # b
    BY <2>1, <2>2, <2>3 DEF IsInjective
  <2>5. PICK u, v \in DOMAIN Kids[dir] : u < v /\ Kids[dir][u] = b /\ Kids[dir][v] = a
    BY <2>4 DEF NameBefore
  <2>6. u = k /\ v = j
    BY <2>1, <2>3, <2>5 DEF IsInjective
  <2>. QED BY <2>2, <2>3, <2>5, <2>6
<1>5. SubSeq(p, 1, i - 1) \in Tree /\ SubSeq(q, 1, e - 1) \in Tree
  BY <1>0, TreeAssumption
<1>6. i = e
  <2>1. p[i] # q[i] /\ p[e] # q[e]
    BY <1>1, <1>2, <1>4, <1>5
  <2>2. ~(i < e) /\ ~(e < i)
    BY <1>1, <1>2, <1>3, <2>1
  <2>. QED BY <2>2
<1>. QED BY <1>1, <1>2, <1>4, <1>5, <1>6

LEMMA FirstOfIsOne ==
  ASSUME NEW S, S # {}, S \subseteq DataSets \/ S \subseteq DOMAIN DatSet
  PROVE  \E m \in S : FirstOf(S) = {m}
<1>0. InNode(S)
  BY TreeAssumption DEF InNode
<1>1. \E m \in S : m \in FirstOf(S)
  <2>. DEFINE U == {p \in S : Class[p] = "URCB"}
  <2>1. CASE U # {}
    <3>1. PICK m \in U : \A q \in U \ {m} : Precedes(m, q)
      <4>1. InNode(U)
        BY <1>0 DEF InNode
      <4>. QED BY <2>1, <4>1, FirstPath
    <3>. QED BY <3>1 DEF FirstOf
  <2>2. CASE U = {}
    <3>1. PICK m \in S : \A q \in S \ {m} : Precedes(m, q)
      BY <1>0, FirstPath
    <3>2. \A q \in S : Class[q] = Class[m]
      BY <2>2, TreeAssumption
    <3>. QED BY <3>1, <3>2 DEF FirstOf
  <2>. QED BY <2>1, <2>2
<1>2. ASSUME NEW p \in FirstOf(S), NEW q \in FirstOf(S), p # q PROVE FALSE
  <2>1. p \in S /\ q \in S
    BY DEF FirstOf
  <2>2. Class[p] = Class[q]
    BY <1>2, <2>1 DEF FirstOf
  <2>3. Precedes(p, q) /\ Precedes(q, p)
    BY <1>2, <2>1, <2>2 DEF FirstOf
  <2>4. InNode({p, q})
    BY <1>0, <2>1 DEF InNode
  <2>. QED BY <2>3, <2>4, OneOrder
<1>. QED BY <1>1, <1>2

(* registerForReporting finds one control block, the first of those that   *)
(* report the first data set with a member the reference begins with; only *)
(* if there is no such data set, or none for the first one, it gives up    *)
(* and registerReadValue polls the reference.                              *)
THEOREM OneBlockReports ==
  ASSUME NEW h, NEW p
  PROVE  \/ \E rcb \in DOMAIN DatSet : ReportsOn(h, p) = {rcb}
         \/ /\ ReportsOn(h, p) = {}
            /\ \/ DataSetsFor(model[h], p) = {}
               \/ \E ds \in FirstOf(DataSetsFor(model[h], p)) : ControlBlocksFor(model[h], ds) = {}
<1>. DEFINE sets == DataSetsFor(model[h], p)
<1>1. CASE sets = {}
  BY <1>1 DEF ReportsOn, FirstOf
<1>2. CASE sets # {}
  <2>1. PICK ds \in sets : FirstOf(sets) = {ds}
    <3>1. sets \subseteq DataSets
      BY DEF DataSetsFor
    <3>. QED BY <1>2, <3>1, FirstOfIsOne
  <2>. DEFINE blocks == ControlBlocksFor(model[h], ds)
  <2>2. ReportsOn(h, p) = FirstOf(blocks)
    BY <2>1 DEF ReportsOn
  <2>3. CASE blocks = {}
    BY <2>1, <2>2, <2>3 DEF FirstOf
  <2>4. CASE blocks # {}
    <3>1. blocks \subseteq DOMAIN DatSet
      BY DEF ControlBlocksFor
    <3>. QED BY <2>2, <2>4, <3>1, FirstOfIsOne
  <2>. QED BY <2>3, <2>4
<1>. QED BY <1>1, <1>2
=============================================================================
