----------------------------- MODULE IedClient -----------------------------
(* The IEC 61850 client of tools/python_client/libiec61850client.py: one   *)
(* connection and one copy of the data model per IED, references that are  *)
(* polled or, where a report control block covers them, reported, and the  *)
(* reconnection by which all this survives the loss of a connection.       *)
(*                                                                         *)
(* Two threads write the model.  The application's calls run one after the *)
(* other; between the service calls they make, a report handler runs on    *)
(* the thread of a connection.  The IEDs and the network are external.     *)
EXTENDS DataModel

CONSTANTS
  Hosts,         \* host:port of the IEDs; all are of one type.
  Registrable,   \* References the application registers: <<host, path>>.
  Readable,      \* References it reads once.
  Writable,      \* References it writes.
  Controllable,  \* Control objects it operates, selects or cancels.
  Changing,      \* Leaves that change in the IEDs.
  MaxChanges,    \* Bound: changes of values, in all the IEDs.
  MaxLosses,     \* Bound: losses of connections.
  MaxConnections,\* Bound: connections that exist or that a control object kept.
  Cuts,          \* How many calls of a discovery or a directory can succeed
                 \* before its connection is lost.
  NoTask         \* The application is not in a call of the client.

Refs == Hosts \X (Tree \cup DxPaths \cup {<< >>})

(* The calls of the client: what is called, and about which reference. *)
Tasks == [kind : {"register", "read", "write", "control", "poll"},
          host : Hosts, path : Tree \cup DxPaths \cup {<< >>}]

ASSUME NoTaskAssumption == NoTask \notin Tasks
ASSUME BoundsAssumption == {MaxChanges, MaxLosses, MaxConnections} \subseteq Nat
ASSUME RefsAssumption == Registrable \cup Readable \cup Writable \cup Controllable \subseteq Refs

(* Paths are sequences of names, and an IED has a device: a discovery all  *)
(* of whose calls succeed finds something.                                 *)
ASSUME PathsAssumption == Tree \cup DxPaths \subseteq Seq(STRING)
ASSUME DiscoveryAssumption ==
  /\ Len(DiscoveryCalls) \in Nat
  /\ \A vals \in [Leaves -> 0..MaxChanges] :
       DOMAIN discovery(Len(DiscoveryCalls), vals) # {}

VARIABLES
  con,         \* connections[tupl]["con"]: a connection, 0 for None.
  model,       \* connections[tupl]["model"].
  control,     \* connections[tupl]["control"]: path -> the connection of the object.
  polling,     \* The polled references, in order of registration.
  cb_refs,     \* The control blocks reported to ReportHandler_cb.
  reporting,   \* Host -> the control blocks to enable again, in order.
  task,        \* The call in progress: [kind, host, path], or NoTask.
  pc,          \* Where it is.
  round,       \* References the call in progress has yet to poll.
  renew,       \* Entries of reporting it has yet to enable again.
  fetched,     \* What it read and has not yet stored.
  handling,    \* Host -> elements the report handler has yet to store, by
               \* their place in the data set.
  fault,       \* What ended the program, "none" while it runs.
  alive,       \* Connections created and not yet destroyed.
  accepted,    \* History: references for which registerReadValue returned 0.
  session,     \* Host -> "none", "open" or "lost": the association.
  enabled,     \* Host -> the control blocks enabled in this session.
  inbox,       \* Host -> reports sent and not yet handled.
  values,      \* Host -> the values of the leaves in the IED.
  up,          \* Host -> the IED accepts connections.
  changes,     \* Changes so far.
  losses       \* Losses so far.

registers == <<polling, cb_refs, reporting, accepted>>
server    == <<values, up, changes, losses>>
link      == <<con, alive, session, enabled, inbox>>
call      == <<task, pc, round, renew, fetched>>
vars == <<link, model, control, registers, call, handling, fault, server>>

Init ==
  /\ con = [h \in Hosts |-> 0]
  /\ model = [h \in Hosts |-> EmptyModel]
  /\ control = [h \in Hosts |-> << >>]
  /\ polling = << >> /\ cb_refs = {} /\ accepted = {}
  /\ reporting = [h \in Hosts |-> << >>]
  /\ task = NoTask /\ pc = "idle" /\ round = << >> /\ renew = << >>
  /\ fetched = EmptyModel
  /\ handling = [h \in Hosts |-> << >>]
  /\ fault = "none"
  /\ alive = {}
  /\ session = [h \in Hosts |-> "none"]
  /\ enabled = [h \in Hosts |-> {}]
  /\ inbox = [h \in Hosts |-> << >>]
  /\ values = [h \in Hosts |-> [p \in Leaves |-> 0]]
  /\ up = [h \in Hosts |-> TRUE]
  /\ changes = 0 /\ losses = 0

(***************************************************************************)
(* The IEDs and the network.                                               *)
(***************************************************************************)
(* A report on rcb, with the members of its data set that include names.   *)
Report(rcb, vals, included) ==
  LET members == Members[DatSet[rcb]]
  IN  [RPT |-> rcb,
       items |-> [i \in {i \in DOMAIN members : members[i] \in included} |->
                    printValue(members[i], vals)]]

(* The value of a leaf changes: every enabled control block whose data set *)
(* has a member that holds the leaf sends a report.                        *)
NewValue == IF changes < MaxChanges THEN changes + 1 ELSE changes

SetValue(h, p) ==
  LET vals    == [values[h] EXCEPT ![p] = NewValue]
      holding == {m \in Tree : IsPrefix(m, p)}
      senders == {rcb \in enabled[h] : Range(Members[DatSet[rcb]]) \cap holding # {}}
      reports == [i \in 1..Cardinality(senders) |->
                    Report(SetToSeq(senders)[i], vals, holding)]
  IN  /\ values' = [values EXCEPT ![h] = vals]
      /\ changes' = NewValue
      /\ inbox' = [inbox EXCEPT ![h] = @ \o reports]

Change(h, p) ==
  /\ changes < MaxChanges
  /\ SetValue(h, p)
  /\ UNCHANGED <<con, alive, session, enabled, model, control, registers, call,
                 handling, fault, up, losses>>

(* An association breaks, the IED may stay away for a while, and of the    *)
(* reports on their way some have arrived.                                 *)
Lost(h) ==
  /\ losses < MaxLosses
  /\ losses' = losses + 1
  /\ session' = [session EXCEPT ![h] = "lost"]
  /\ enabled' = [enabled EXCEPT ![h] = {}]
  /\ \E n \in 0..Len(inbox[h]) : inbox' = [inbox EXCEPT ![h] = SubSeq(@, 1, n)]
  /\ \E b \in BOOLEAN : up' = [up EXCEPT ![h] = b]

Lose(h) ==
  /\ session[h] = "open"
  /\ Lost(h)
  /\ UNCHANGED <<con, alive, model, control, registers, call, handling, fault,
                 values, changes>>

ComesBack(h) ==
  /\ ~up[h]
  /\ up' = [up EXCEPT ![h] = TRUE]
  /\ UNCHANGED <<link, model, control, registers, call, handling, fault,
                 values, changes, losses>>

(***************************************************************************)
(* The pieces the calls are made of.                                       *)
(***************************************************************************)
Host == task.host
Path == task.path
At(label, kinds) == pc = label /\ task.kind \in kinds

(* n of the total service calls in a row succeed, and the connection is    *)
(* lost if these are not all.                                              *)
Serve(n, total) ==
  \/ /\ session[Host] = "open" /\ n = total
     /\ UNCHANGED <<session, enabled, inbox, up, losses>>
  \/ /\ session[Host] = "open" /\ n < total /\ n \in Cuts
     /\ Lost(Host)
  \/ /\ session[Host] = "lost" /\ n = 0
     /\ UNCHANGED <<session, enabled, inbox, up, losses>>

(* The call is over: poll goes on to its next reference.  An exception     *)
(* ends a poll too.                                                        *)
Leave ==
  /\ IF round = << >>
     THEN task' = NoTask /\ pc' = "idle" /\ UNCHANGED round
     ELSE /\ task' = [kind |-> task.kind, host |-> Head(round)[1], path |-> Head(round)[2]]
          /\ pc' = "getIED" /\ round' = Tail(round)
  /\ renew' = << >> /\ fetched' = EmptyModel

(* Mutant: the exception leaves the call in progress. *)
RaiseKeepsTask ==
  /\ pc' = "idle" /\ UNCHANGED task
  /\ round' = << >> /\ renew' = << >> /\ fetched' = EmptyModel

Raise ==
  /\ task' = NoTask /\ pc' = "idle"
  /\ round' = << >> /\ renew' = << >> /\ fetched' = EmptyModel

Goto(label) == pc' = label /\ UNCHANGED <<task, round, renew, fetched>>

(* The library dereferences a null pointer, or a connection after it was   *)
(* destroyed: nothing is said of what follows.                             *)
Fail(what) ==
  /\ fault' = what
  /\ UNCHANGED <<link, model, control, registers, call, handling, server>>

(* Mutant: the connection stays stored. *)
DestroyKeepsCon ==
  /\ DOMAIN handling[Host] = {}
  /\ alive' = alive \ {con[Host]}
  /\ session' = [session EXCEPT ![Host] = "none"]
  /\ enabled' = [enabled EXCEPT ![Host] = {}]
  /\ inbox' = [inbox EXCEPT ![Host] = << >>]
  /\ UNCHANGED con

(* IedConnection_destroy waits for the connection's thread.                *)
Destroy ==
  /\ DOMAIN handling[Host] = {}
  /\ con' = [con EXCEPT ![Host] = 0]
  /\ alive' = alive \ {con[Host]}
  /\ session' = [session EXCEPT ![Host] = "none"]
  /\ enabled' = [enabled EXCEPT ![Host] = {}]
  /\ inbox' = [inbox EXCEPT ![Host] = << >>]

(* Mutant: no general interrogation. *)
EnableWithoutGI(rcb) ==
  /\ enabled' = [enabled EXCEPT ![Host] = @ \cup {rcb}]
  /\ UNCHANGED inbox

(* installReportHandler, then setRCBValues with RptEna and GI: the IED     *)
(* answers with a report on the whole data set.                            *)
Enable(rcb) ==
  /\ enabled' = [enabled EXCEPT ![Host] = @ \cup {rcb}]
  /\ inbox' = [inbox EXCEPT ![Host] = Append(@, Report(rcb, values[Host], Tree))]

(***************************************************************************)
(* The application calls the client.                                       *)
(***************************************************************************)
Begin(kind, refs) ==
  /\ pc = "idle"
  /\ \E r \in refs : task' = [kind |-> kind, host |-> r[1], path |-> r[2]]
  /\ pc' = "getIED"
  /\ UNCHANGED <<round, renew, fetched, link, model, control, registers, handling,
                 fault, server>>

registerReadValue  == Begin("register", Registrable \ Range(polling))
ReadValue          == Begin("read", Readable)
registerWriteValue == Begin("write", Writable)
operate            == Begin("control", Controllable)

poll ==
  /\ pc = "idle"
  /\ polling # << >>
  /\ task' = [kind |-> "poll", host |-> Head(polling)[1], path |-> Head(polling)[2]]
  /\ round' = Tail(polling)
  /\ pc' = "getIED"
  /\ UNCHANGED <<renew, fetched, link, model, control, registers, handling, fault, server>>

(***************************************************************************)
(* getIED: the connection and the model of the host of the task.           *)
(***************************************************************************)
UseConnection ==
  /\ pc = "getIED" /\ con[Host] # 0 /\ model[Host] # EmptyModel
  /\ Goto("body")
  /\ UNCHANGED <<link, model, control, registers, handling, fault, server>>

(* A connection whose discovery failed: it is lost, as an open one has     *)
(* devices to list, so this second discovery is empty and destroys it.     *)
DiscoverAgain ==
  /\ pc = "getIED" /\ con[Host] # 0 /\ model[Host] = EmptyModel
  /\ session[Host] = "lost"
  /\ Destroy /\ Leave
  /\ UNCHANGED <<model, control, registers, handling, fault, server>>

(* Connections that neither exist nor are remembered by a control object. *)
Unused ==
  {c \in 1..MaxConnections :
     c \notin alive /\ \A h \in Hosts : \A p \in DOMAIN control[h] : control[h][p] # c}

Connect ==
  /\ pc = "getIED" /\ con[Host] = 0 /\ up[Host]
  /\ Unused # {}
  /\ LET new == CHOOSE c \in Unused : TRUE
     IN  con' = [con EXCEPT ![Host] = new] /\ alive' = alive \cup {new}
  /\ session' = [session EXCEPT ![Host] = "open"]
  /\ Goto("discover")
  /\ UNCHANGED <<enabled, inbox, model, control, registers, handling, fault, server>>

ConnectFails ==
  /\ pc = "getIED" /\ con[Host] = 0 /\ ~up[Host]
  /\ Leave
  /\ UNCHANGED <<link, model, control, registers, handling, fault, server>>

(* Mutant: the control blocks are not enabled again. *)
DiscoverWithoutRenewal ==
  /\ pc = "discover"
  /\ \E n \in 0..Len(DiscoveryCalls) :
       /\ Serve(n, Len(DiscoveryCalls))
       /\ LET found == discovery(n, values[Host])
          IN  IF DiscoveryRaises(n) THEN Raise /\ UNCHANGED model
              ELSE IF found = EmptyModel THEN Leave /\ UNCHANGED model
              ELSE model' = [model EXCEPT ![Host] = found] /\ Goto("body")
  /\ UNCHANGED <<con, alive, control, registers, handling, fault, values, changes>>

(* The new connection is stored before the discovery, and it stays if the  *)
(* discovery comes back empty or raises an exception: then the model is    *)
(* still the one of the connection before.                                 *)
Discover ==
  /\ pc = "discover"
  /\ \E n \in 0..Len(DiscoveryCalls) :
       /\ Serve(n, Len(DiscoveryCalls))
       /\ LET found == discovery(n, values[Host])
          IN  IF DiscoveryRaises(n) THEN Raise /\ UNCHANGED model
              ELSE IF found = EmptyModel THEN Leave /\ UNCHANGED model
              ELSE /\ model' = [model EXCEPT ![Host] = found]
                   /\ renew' = reporting[Host]
                   /\ pc' = IF reporting[Host] = << >> THEN "body" ELSE "renew"
                   /\ UNCHANGED <<task, round, fetched>>
  /\ UNCHANGED <<con, alive, control, registers, handling, fault, values, changes>>

(* The control blocks of the host are enabled again, one after the other;  *)
(* getRCBValues returns null on a lost connection, and is not checked.     *)
Renew ==
  /\ pc = "renew" /\ session[Host] = "open"
  /\ Enable(Head(renew))
  /\ renew' = Tail(renew)
  /\ pc' = IF Tail(renew) = << >> THEN "body" ELSE "renew"
  /\ UNCHANGED <<task, round, fetched, con, alive, session, model, control, registers,
                 handling, fault, server>>

RenewOnLostConnection ==
  /\ pc = "renew" /\ session[Host] = "lost"
  /\ Fail("null control block")

(***************************************************************************)
(* registerReadValue and registerForReporting.                             *)
(***************************************************************************)
(* The control block that is to report p, if there is one: the first on    *)
(* the first data set.                                                     *)
ReportsOn(h, p) ==
  UNION {FirstOf(ControlBlocksFor(model[h], ds)) : ds \in FirstOf(DataSetsFor(model[h], p))}

RegisterUnknown ==
  /\ At("body", {"register"}) /\ ~Found(model[Host], Path)
  /\ Leave
  /\ UNCHANGED <<link, model, control, registers, handling, fault, server>>

RegisterForPolling ==
  /\ At("body", {"register"}) /\ Found(model[Host], Path) /\ ReportsOn(Host, Path) = {}
  /\ polling' = Append(polling, <<Host, Path>>)
  /\ accepted' = accepted \cup {<<Host, Path>>}
  /\ Leave
  /\ UNCHANGED <<cb_refs, reporting, link, model, control, handling, fault, server>>

RegisterAgain ==
  /\ At("body", {"register"}) /\ Found(model[Host], Path) /\ ReportsOn(Host, Path) # {}
  /\ session[Host] = "open"
  /\ ReportsOn(Host, Path) \cap cb_refs # {}
  /\ accepted' = accepted \cup {<<Host, Path>>}
  /\ Leave
  /\ UNCHANGED <<polling, cb_refs, reporting, link, model, control, handling, fault, server>>

(* Mutant: no entry in reporting. *)
RegisterReportUnlisted ==
  /\ At("body", {"register"}) /\ Found(model[Host], Path) /\ ReportsOn(Host, Path) # {}
  /\ session[Host] = "open"
  /\ \E rcb \in ReportsOn(Host, Path) \ cb_refs :
       /\ Enable(rcb)
       /\ cb_refs' = cb_refs \cup {rcb}
  /\ accepted' = accepted \cup {<<Host, Path>>}
  /\ Leave
  /\ UNCHANGED <<polling, reporting, con, alive, session, model, control, handling, fault, server>>

RegisterReport ==
  /\ At("body", {"register"}) /\ Found(model[Host], Path) /\ ReportsOn(Host, Path) # {}
  /\ session[Host] = "open"
  /\ \E rcb \in ReportsOn(Host, Path) \ cb_refs :
       /\ Enable(rcb)
       /\ cb_refs' = cb_refs \cup {rcb}
       /\ reporting' = [reporting EXCEPT ![Host] = Append(@, rcb)]
  /\ accepted' = accepted \cup {<<Host, Path>>}
  /\ Leave
  /\ UNCHANGED <<polling, con, alive, session, model, control, handling, fault, server>>

RegisterOnLostConnection ==
  /\ At("body", {"register"}) /\ Found(model[Host], Path) /\ ReportsOn(Host, Path) # {}
  /\ session[Host] = "lost"
  /\ Fail("null control block")

(***************************************************************************)
(* writeValue: the value, then a read of what was written.                 *)
(***************************************************************************)
IsAttribute(m, p) == p \in DOMAIN m /\ m[p].reftype = "DA"
MmsType(p) == IF p \in Leaves THEN TypeOf[p] ELSE "structure"

(* No such attribute, or no value of its type can be made (-1); a type     *)
(* that was never read is a KeyError, an octet string a TypeError.         *)
WriteNothing ==
  /\ At("body", {"write"})
  /\ \/ ~IsAttribute(model[Host], Path) /\ Leave
     \/ /\ IsAttribute(model[Host], Path)
        /\ ~model[Host][Path].typed \/ MmsType(Path) \notin Encodable
        /\ IF model[Host][Path].typed /\ MmsType(Path) # "octet-string"
           THEN Leave ELSE Raise
  /\ UNCHANGED <<link, model, control, registers, handling, fault, server>>

Writes ==
  /\ At("body", {"write"}) /\ IsAttribute(model[Host], Path)
  /\ model[Host][Path].typed /\ MmsType(Path) \in Encodable

WriteObject ==
  /\ Writes /\ session[Host] = "open"
  /\ SetValue(Host, Path)
  /\ Goto("readback")
  /\ UNCHANGED <<con, alive, session, enabled, model, control, registers, handling,
                 fault, up, losses>>

(***************************************************************************)
(* updateValueInModel, for a read, a poll and after a write: what comes    *)
(* from the IED is stored in a later step.                                 *)
(***************************************************************************)
Reads == At("readback", {"write"}) \/ At("body", {"read", "poll"})
Missing == At("body", {"read"}) /\ ~Found(model[Host], Path)
NoTarget == Path \notin DOMAIN model[Host]

ReadNothing ==
  /\ Reads /\ (Missing \/ NoTarget)
  /\ Leave
  /\ UNCHANGED <<link, model, control, registers, handling, fault, server>>

ReadAttribute ==
  /\ Reads /\ ~Missing /\ IsAttribute(model[Host], Path)
  /\ session[Host] = "open"
  /\ fetched' = [p \in {Path} |-> Attribute(printValue(p, values[Host]), TRUE)]
  /\ pc' = "store"
  /\ UNCHANGED <<task, round, renew, link, model, control, registers, handling, fault, server>>

(* Mutant: error 3 is passed on, the connection stays. *)
NoticeLossOnly ==
  /\ \/ Writes
     \/ Reads /\ ~Missing /\ IsAttribute(model[Host], Path)
  /\ session[Host] = "lost"
  /\ Leave
  /\ UNCHANGED <<link, model, control, registers, handling, fault, server>>

(* Error 3, the loss of the connection: it is destroyed.                   *)
NoticeLoss ==
  /\ \/ Writes
     \/ Reads /\ ~Missing /\ IsAttribute(model[Host], Path)
  /\ session[Host] = "lost"
  /\ Destroy /\ Leave
  /\ UNCHANGED <<model, control, registers, handling, fault, server>>

ReadDirectory ==
  /\ Reads /\ ~Missing /\ ~NoTarget /\ ~IsAttribute(model[Host], Path)
  /\ LET total == IF HasDirectory(Path) THEN Len(DirectoryCalls[Path]) ELSE 0
     IN  \E n \in 0..total :
           /\ Serve(n, total)
           /\ fetched' = printDataDirectory(Path, n, values[Host])
  /\ pc' = "store"
  /\ UNCHANGED <<task, round, renew, con, alive, model, control, registers, handling,
                 fault, values, changes>>

(* Only a read of an attribute looks at the error: a directory that could  *)
(* not be read is an empty dictionary in the model, and -1.                *)
Store ==
  /\ pc = "store"
  /\ model' = [model EXCEPT ![Host] =
                 IF IsAttribute(@, Path) THEN SetRead(@, fetched)
                 ELSE ReplaceBelow(@, Path, fetched)]
  /\ Leave
  /\ UNCHANGED <<link, control, registers, handling, fault, server>>

(***************************************************************************)
(* get_controlObject, then operate, select or cancel on the object.        *)
(***************************************************************************)
HasControl == Path \in DOMAIN control[Host]

UseControl ==
  /\ At("body", {"control"})
  /\ HasControl => control[Host][Path] = con[Host]
  /\ ~HasControl => session[Host] = "open"
  /\ control' = [control EXCEPT ![Host] =
                   [p \in DOMAIN @ \cup {Path} |-> IF p = Path THEN con[Host] ELSE @[p]]]
  /\ Leave
  /\ UNCHANGED <<link, model, registers, handling, fault, server>>

CreateControlOnLostConnection ==
  /\ At("body", {"control"}) /\ ~HasControl /\ session[Host] = "lost"
  /\ Fail("null control object")

UseControlOfDestroyedConnection ==
  /\ At("body", {"control"}) /\ HasControl
  /\ control[Host][Path] # con[Host]
  /\ Fail("destroyed connection")

(***************************************************************************)
(* ReportHandler_cb, on the thread of the connection of h.                 *)
(***************************************************************************)
(* The data set is looked up in the model at the start; a model without it *)
(* is a KeyError, and the report is gone.                                  *)
BeginReport(h) ==
  /\ DOMAIN handling[h] = {} /\ inbox[h] # << >>
  /\ LET ds       == DatSet[Head(inbox[h]).RPT]
         items    == Head(inbox[h]).items
         included == {i \in DOMAIN items : MemberPath(ds, i) \in DOMAIN model[h]}
     IN  handling' = [handling EXCEPT ![h] =
                        [i \in included |-> [path |-> Members[ds][i], value |-> items[i]]]]
  /\ inbox' = [inbox EXCEPT ![h] = Tail(@)]
  /\ UNCHANGED <<con, alive, session, enabled, model, control, registers, call, fault, server>>

StoreElement(h) ==
  /\ \E i \in DOMAIN handling[h] :
       /\ \A j \in DOMAIN handling[h] : i <= j
       /\ LET e == handling[h][i]
          IN  model' = [model EXCEPT ![h] = SetReported(@, e.path, e.value)]
       /\ handling' = [handling EXCEPT ![h] = Restrict(@, DOMAIN @ \ {i})]
  /\ UNCHANGED <<link, control, registers, call, fault, server>>

ReportHandler_cb(h) == BeginReport(h) \/ StoreElement(h)

(***************************************************************************)
(* The specification.                                                      *)
(***************************************************************************)
getIED == UseConnection \/ DiscoverAgain \/ Connect \/ ConnectFails \/ Discover
            \/ Renew \/ RenewOnLostConnection

registerForReporting ==
  RegisterUnknown \/ RegisterForPolling \/ RegisterAgain \/ RegisterReport
    \/ RegisterOnLostConnection

updateValueInModel == ReadNothing \/ ReadAttribute \/ NoticeLoss \/ ReadDirectory \/ Store

controlObject == UseControl \/ CreateControlOnLostConnection \/ UseControlOfDestroyedConnection

(* A call of the application goes on to its next step. *)
Proceed ==
  \/ getIED
  \/ registerForReporting
  \/ WriteNothing \/ WriteObject
  \/ updateValueInModel
  \/ controlObject

Running(A) == fault = "none" /\ A

Next ==
  /\ fault = "none"
  /\ \/ registerReadValue \/ ReadValue \/ registerWriteValue \/ poll
     \/ operate
     \/ Proceed
     \/ \E h \in Hosts : ReportHandler_cb(h)
     \/ \E h \in Hosts : Lose(h) \/ ComesBack(h)
     \/ \E h \in Hosts, p \in Changing : Change(h, p)

(* The calls of the library return, the threads of the connections run,    *)
(* an IED that went away comes back, and the application polls, whatever   *)
(* else it calls: it is written around a loop of poll and sleep.           *)
Fairness ==
  /\ WF_<<call, fault>>(Running(Proceed))
  /\ SF_pc(Running(poll))
  /\ \A h \in Hosts :
       WF_<<handling, inbox>>(Running(ReportHandler_cb(h))) /\ WF_up(Running(ComesBack(h)))

Spec == Init /\ [][Next]_vars
FairSpec == Spec /\ Fairness

(***************************************************************************)
(* Properties.                                                             *)
(***************************************************************************)
Values == 0..MaxChanges \cup {Unknown, Structure}
Entries == [reftype : {"none", "DA", "DX"}, value : Values, typed : BOOLEAN]
ModelOK(m) == DOMAIN m \subseteq Tree \cup DxPaths /\ \A p \in DOMAIN m : m[p] \in Entries

(* A report has values for some of the members of its data set. *)
ItemsOf(ds) == UNION {[I -> Values] : I \in SUBSET DOMAIN Members[ds]}
Reports == UNION {[RPT : {rcb}, items : ItemsOf(DatSet[rcb])] : rcb \in DOMAIN DatSet}
Elements == [path : Tree, value : Values]

LinkTypes ==
  /\ con \in [Hosts -> Nat] /\ alive \subseteq Nat
  /\ session \in [Hosts -> {"none", "open", "lost"}]
  /\ enabled \in [Hosts -> SUBSET DOMAIN DatSet]
  /\ inbox \in [Hosts -> Seq(Reports)]

ModelTypes ==
  /\ DOMAIN model = Hosts /\ \A h \in Hosts : ModelOK(model[h])
  /\ DOMAIN control = Hosts /\ \A h \in Hosts : control[h] \in [DOMAIN control[h] -> Nat]
  /\ ModelOK(fetched)
  /\ DOMAIN handling = Hosts
  /\ \A h \in Hosts : \A i \in DOMAIN handling[h] : handling[h][i] \in Elements

RegisterTypes ==
  /\ polling \in Seq(Refs) /\ accepted \subseteq Refs
  /\ cb_refs \subseteq DOMAIN DatSet /\ reporting \in [Hosts -> Seq(DOMAIN DatSet)]

CallTypes ==
  /\ pc \in {"idle", "getIED", "discover", "renew", "body", "readback", "store"}
  /\ IF pc = "idle" THEN task = NoTask ELSE task \in Tasks
  /\ round \in Seq(Refs) /\ renew \in Seq(DOMAIN DatSet)

ServerTypes ==
  /\ fault \in {"none", "null control block", "null control object", "destroyed connection"}
  /\ values \in [Hosts -> [Leaves -> 0..MaxChanges]]
  /\ up \in [Hosts -> BOOLEAN] /\ changes \in 0..MaxChanges /\ losses \in 0..MaxLosses

(* Types: what is stored has the type of its place, whatever mixture of    *)
(* reads, reports and interrupted discoveries it came from; a call is in   *)
(* progress exactly when it is about something; and the program runs, or   *)
(* has ended in one of three ways.                                         *)
TypeOK == LinkTypes /\ ModelTypes /\ RegisterTypes /\ CallTypes /\ ServerTypes

(* Every connection that was created and not destroyed is the one stored   *)
(* for its host, and a stored one was not destroyed: neither the errors of *)
(* getIED, nor an exception, nor error 3 of a read or a write leaks one.   *)
ConnectionsOwned ==
  /\ alive = {con[h] : h \in Hosts} \ {0}
  /\ \A g, h \in Hosts : con[g] = con[h] /\ con[g] # 0 => g = h
  /\ \A h \in Hosts : (con[h] = 0) = (session[h] = "none")

(* getIED goes on with a connection only if it is the one its model was    *)
(* discovered on, or a lost one: while a session is open and its host not  *)
(* in getIED, the model is there and every control block registered for    *)
(* the host is enabled in this very session.                               *)
SessionIsComplete ==
  \A h \in Hosts :
    session[h] = "open" /\ ~(pc \in {"discover", "renew"} /\ task.host = h) =>
      model[h] # EmptyModel /\ Range(reporting[h]) \subseteq enabled[h]

(* A reference registerReadValue accepted is polled, or a control block    *)
(* whose data set has a member holding it is registered for its host.      *)
AcceptedIsWatched ==
  \A r \in accepted :
    \/ r \in Range(polling)
    \/ \E rcb \in Range(reporting[r[1]]) :
         \E m \in Range(Members[DatSet[rcb]]) : IsPrefix(m, r[2])

(* A lost connection is noticed and replaced as long as poll reads one     *)
(* attribute of the host that the model has.                               *)
PolledAttributeReconnects ==
  \A h \in Hosts :
    (/\ session[h] = "lost"
     /\ \E r \in Range(polling) : r[1] = h /\ IsAttribute(model[h], r[2]))
      ~> (session[h] = "open" \/ fault # "none")

(* A value that is watched arrives: once an attribute of the model is, for *)
(* good, polled over an open session, or a member of a data set whose      *)
(* control block is enabled, the model ends up with its value in the IED.  *)
(* What is reported comes from the general interrogation of registration   *)
(* or reconnection, or from the reports since, and no read that was under  *)
(* way when a report came in may undo it.                                  *)
Polled(h, p) == session[h] = "open" /\ <<h, p>> \in Range(polling)

IsReported(h, p) ==
  \E rcb \in enabled[h] : \E i \in DOMAIN Members[DatSet[rcb]] :
    Members[DatSet[rcb]][i] = p /\ MemberPath(DatSet[rcb], i) \in DOMAIN model[h]

Watched(h, p) ==
  fault = "none" /\ IsAttribute(model[h], p) /\ (Polled(h, p) \/ IsReported(h, p))

Current(h, p) == p \in DOMAIN model[h] /\ model[h][p].value = values[h][p]

WatchedValueArrives ==
  \A h \in Hosts, p \in Changing : <>[]Watched(h, p) => <>[]Current(h, p)
=============================================================================
