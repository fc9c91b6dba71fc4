------------------------------ MODULE MCEngine ------------------------------
(***************************************************************************)
(* Engine with the modules, events and triggers of config/main_config.ini. *)
(* trigger_id1 of module3 is given twice there; the value kept is the last.*)
(* The MMS server registers an event it never publishes, the publishers    *)
(* register none.                                                          *)
(***************************************************************************)
EXTENDS Engine, TLC

CONSTANTS
    smv, si, goosePub, ipc, gooseSub, smvPub, mms,
    SAMPLE, TRIP, IPC, GOOSE, MMS, REMOTE

ShippedModules == {smv, si, goosePub, ipc, gooseSub, smvPub, mms}
ShippedOrder   == <<smv, si, goosePub, ipc, gooseSub, smvPub, mms>>
ShippedNames   == {SAMPLE, TRIP, IPC, GOOSE, MMS, REMOTE}

ShippedOwn ==
    smv :> SAMPLE @@ si :> TRIP @@ goosePub :> NoName @@ ipc :> IPC
      @@ gooseSub :> GOOSE @@ smvPub :> NoName @@ mms :> MMS

ShippedTriggers ==
    [m \in ShippedModules |->
        CASE m = si       -> <<SAMPLE>>
          [] m = goosePub -> <<TRIP>>
          [] m = ipc      -> <<SAMPLE>>
          [] OTHER        -> << >>]

ShippedRunEnabled == ShippedModules \ {si}

(* ipc's run() publishes whatever name another engine sent: one that is    *)
(* known here, or one that is not.                                         *)
ShippedRunEmits ==
    [m \in ShippedModules |->
        CASE m = smv      -> {SAMPLE}
          [] m = gooseSub -> {GOOSE}
          [] m = ipc      -> {SAMPLE, TRIP, REMOTE}
          [] OTHER        -> {}]

ShippedEventEmits ==
    [m \in ShippedModules |-> CASE m = si -> TRIP [] m = ipc -> IPC [] OTHER -> NoName]

(* The same modules with more subscriptions than the shipped file has:     *)
(* ipc passes trips on as well, and the GOOSE publisher is subscribed      *)
(* twice to one event and once to an event published by a handler.         *)
CrossingTriggers ==
    [m \in ShippedModules |->
        CASE m = si       -> <<SAMPLE>>
          [] m = goosePub -> <<TRIP, IPC, TRIP>>
          [] m = ipc      -> <<TRIP, SAMPLE>>
          [] OTHER        -> << >>]

(* No event of these subscriptions leads back to itself. *)
ShippedRank == [n \in ShippedNames |-> CASE n = SAMPLE -> 2 [] n = TRIP -> 1 [] OTHER -> 0]

ASSUME NoEventLoop == Descends(ShippedRank)
=============================================================================
