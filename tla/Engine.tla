------------------------------- MODULE Engine -------------------------------
(***************************************************************************)
(* The engine of main.c: modules are loaded in the order of the config     *)
(* file, their event triggers are entered in the event table and chains,   *)
(* they are initialised, run round after round until SIGINT, and unloaded. *)
(*                                                                         *)
(* Events are dispatched by calls: run() of a module may publish an event, *)
(* run_callback_func calls event() of every subscriber before it returns,  *)
(* and such a handler may itself publish.  The call stack is explicit: it  *)
(* alternates frames of module code and frames of run_callback_func.       *)
(*                                                                         *)
(* What the modules do is a parameter: the event each registers in         *)
(* pre_init, the events its run() and its event() may publish.             *)
(***************************************************************************)
EXTENDS Integers, Sequences, FiniteSets, SequencesExt

CONSTANTS
    Names,         \* event names
    NoName,        \* no event
    Modules,       \* modules of the config file
    LoadOrder,     \* module0, module1, ...
    Own,           \* Own[m]: the name m registers in pre_init, or NoName
    Triggers,      \* Triggers[m]: moduleN_event_trigger_id1, id2, ...
    RunEnabled,    \* modules with moduleN_register_run=1
    RunEmits,      \* RunEmits[m]: names m's run() may publish
    EventEmits,    \* EventEmits[m]: the name m's event() may publish, or NoName
    MayNotLoad,    \* modules that may fail up to pre_init
    MayFailInit,   \* modules whose init may return an error
    MaxEvents,     \* MAX_EVENT_IDS
    MaxPublish     \* bound: events one call of run() publishes

ASSUME ModulesAssumption ==
    /\ LoadOrder \in Seq(Modules) /\ IsInjective(LoadOrder)
    /\ NoName \notin Names
    /\ Own \in [Modules -> Names \cup {NoName}]
    /\ EventEmits \in [Modules -> Names \cup {NoName}]
    /\ Triggers \in [Modules -> Seq(Names)]
    /\ RunEmits \in [Modules -> SUBSET Names]
    /\ RunEnabled \cup MayNotLoad \cup MayFailInit \subseteq Modules
ASSUME EventsAssumption == MaxEvents \in Nat \ {0} /\ MaxPublish \in Nat

VARIABLES
    phase,        \* what main() is doing
    at,           \* the loop counter of that: a position in LoadOrder or registered
    trigger,      \* the trigger being entered for the module being loaded; 0 before pre_init
    registered,   \* registered_modules, in list order
    status,       \* how far each module object has come
    events,       \* event_ids: events[k] is the name with id k - 1
    chains,       \* event_chains: the subscribers of each id
    own,          \* the id each module got from register_event_cb in pre_init
    stack,        \* calls in progress, the innermost last
    running,      \* cleared by sigint_handler
    deinits,      \* history: calls of deinit per module
    dispatched,   \* history: the last completed run_callback_func and whom it called
    fault         \* "none", or the access outside allocated memory just made

vars == <<phase, at, trigger, registered, status, events, chains, own, stack, running,
          deinits, dispatched, fault>>

tables == <<events, chains, own>>

Ids  == 0 .. MaxEvents - 1
NoId == -1

NameOf(id) == events[id + 1]

(* Frames of the call stack. *)
RunFrame(m)        == [code |-> "run", module |-> m, sent |-> 0]
EventFrame(m)      == [code |-> "event", module |-> m, sent |-> 0]
DispatchFrame(id)  == [code |-> "dispatch", id |-> id, next |-> 1, called |-> << >>]

Top  == stack[Len(stack)]
Below == SubSeq(stack, 1, Len(stack) - 1)
Push(s, f) == Append(s, f)

-----------------------------------------------------------------------------
(* The event table: names are looked up, or appended while ids last.       *)

(* Mutant: the position counted by the search loop stays 0. *)
RegisteredIdNoCount(name) == IF Len(events) >= MaxEvents THEN NoId ELSE 0

RegisteredId(name) ==
    IF name \in Range(events) THEN (CHOOSE k \in DOMAIN events : events[k] = name) - 1
    ELSE IF Len(events) >= MaxEvents THEN NoId ELSE Len(events)

EventsWith(name) ==
    IF name \in Range(events) \/ Len(events) >= MaxEvents THEN events ELSE Append(events, name)

-----------------------------------------------------------------------------
Init ==
    /\ phase = "config" /\ at = 1 /\ trigger = 0
    /\ registered = << >>
    /\ status = [m \in Modules |-> "absent"]
    /\ events = << >>
    /\ chains = [id \in Ids |-> << >>]
    /\ own = [m \in Modules |-> NoId]
    /\ stack = << >>
    /\ running = TRUE
    /\ deinits = [m \in Modules |-> 0]
    /\ dispatched = [name |-> NoName, called |-> << >>]
    /\ fault = "none"

(* The main config is read; a missing key ends the program. *)
ReadConfig ==
    /\ phase = "config"
    /\ phase' \in {"load", "exit"}
    /\ UNCHANGED <<at, trigger, registered, status, tables, stack, running, deinits, dispatched, fault>>

Loading == LoadOrder[at]

(* The module file, one of its six symbols, its id, its config or its      *)
(* pre_init fails: the module is left out.                                 *)
SkipModule ==
    /\ phase = "load" /\ at <= Len(LoadOrder) /\ trigger = 0
    /\ Loading \in MayNotLoad
    /\ at' = at + 1
    /\ UNCHANGED <<phase, trigger, registered, status, tables, stack, running, deinits, dispatched, fault>>

(* pre_init succeeds; it registers the module's own event last. *)
PreInit ==
    /\ phase = "load" /\ at <= Len(LoadOrder) /\ trigger = 0
    /\ status' = [status EXCEPT ![Loading] = "preinit"]
    /\ IF Own[Loading] = NoName
       THEN UNCHANGED tables
       ELSE /\ events' = EventsWith(Own[Loading])
            /\ own' = [own EXCEPT ![Loading] = RegisteredId(Own[Loading])]
            /\ UNCHANGED chains
    /\ trigger' = 1
    /\ UNCHANGED <<phase, at, registered, stack, running, deinits, dispatched, fault>>

(* Mutant: a new subscriber goes to the head of the chain. *)
SubscribeAtHead ==
    /\ phase = "load" /\ at <= Len(LoadOrder) /\ trigger \in DOMAIN Triggers[Loading]
    /\ LET name == Triggers[Loading][trigger]
           id   == RegisteredId(name)
       IN  /\ events' = EventsWith(name)
           /\ chains' = [chains EXCEPT ![id] = <<Loading>> \o @]
    /\ trigger' = trigger + 1
    /\ UNCHANGED <<phase, at, registered, status, own, stack, running, deinits, dispatched, fault>>

(* One turn of the trigger loop: register_event_id, then subscribe_event_id,*)
(* whose check refuses ids from MAX_EVENT_IDS on but not -1.                *)
Subscribe ==
    /\ phase = "load" /\ at <= Len(LoadOrder) /\ trigger \in DOMAIN Triggers[Loading]
    /\ LET name == Triggers[Loading][trigger]
           id   == RegisteredId(name)
       IN  /\ events' = EventsWith(name)
           /\ IF id = NoId
              THEN fault' = "chainOutOfBounds" /\ UNCHANGED chains
              ELSE chains' = [chains EXCEPT ![id] = Append(@, Loading)] /\ UNCHANGED fault
    /\ trigger' = trigger + 1
    /\ UNCHANGED <<phase, at, registered, status, own, stack, running, deinits, dispatched>>

(* LIST_INSERT_AFTER the last module. *)
AddModule ==
    /\ phase = "load" /\ at <= Len(LoadOrder) /\ trigger > Len(Triggers[Loading])
    /\ registered' = Append(registered, Loading)
    /\ at' = at + 1 /\ trigger' = 0
    /\ UNCHANGED <<phase, status, tables, stack, running, deinits, dispatched, fault>>

(* Mutant: the run loop starts without init_modules. *)
LoadDoneNoInit ==
    /\ phase = "load" /\ at > Len(LoadOrder)
    /\ phase' = IF registered = << >> THEN "unload" ELSE "run"
    /\ at' = 1
    /\ UNCHANGED <<trigger, registered, status, tables, stack, running, deinits, dispatched, fault>>

LoadDone ==
    /\ phase = "load" /\ at > Len(LoadOrder)
    /\ phase' = IF registered = << >> THEN "unload" ELSE "init"
    /\ at' = 1
    /\ UNCHANGED <<trigger, registered, status, tables, stack, running, deinits, dispatched, fault>>

-----------------------------------------------------------------------------
(* init_modules *)

InitModule ==
    /\ phase = "init" /\ at <= Len(registered)
    /\ status' = [status EXCEPT ![registered[at]] = "ready"]
    /\ at' = at + 1
    /\ UNCHANGED <<phase, trigger, registered, tables, stack, running, deinits, dispatched, fault>>

(* Mutant: the failed module stays in the list. *)
InitFailsKept ==
    /\ phase = "init" /\ at <= Len(registered)
    /\ registered[at] \in MayFailInit
    /\ status' = [status EXCEPT ![registered[at]] = "freed"]
    /\ deinits' = [deinits EXCEPT ![registered[at]] = @ + 1]
    /\ at' = at + 1
    /\ UNCHANGED <<phase, registered, trigger, tables, stack, running, dispatched, fault>>

(* init fails: the module leaves the list, is deinitialised and freed; the *)
(* event chains keep their pointers to it.                                 *)
InitFails ==
    /\ phase = "init" /\ at <= Len(registered)
    /\ registered[at] \in MayFailInit
    /\ status' = [status EXCEPT ![registered[at]] = "freed"]
    /\ deinits' = [deinits EXCEPT ![registered[at]] = @ + 1]
    /\ registered' = RemoveAt(registered, at)
    /\ UNCHANGED <<phase, at, trigger, tables, stack, running, dispatched, fault>>

InitDone ==
    /\ phase = "init" /\ at > Len(registered)
    /\ phase' = IF registered = << >> THEN "unload" ELSE "run"
    /\ at' = IF registered = << >> THEN 1 ELSE 0
    /\ UNCHANGED <<trigger, registered, status, tables, stack, running, deinits, dispatched, fault>>

-----------------------------------------------------------------------------
(* run_asap and run_deadline: `running` is tested between rounds only.     *)

(* Mutant: the loop does not test `running`. *)
StartRoundAlways ==
    /\ phase = "run" /\ at = 0
    /\ at' = 1
    /\ UNCHANGED <<phase, trigger, registered, status, tables, stack, running, deinits, dispatched, fault>>

StartRound ==
    /\ phase = "run" /\ at = 0
    /\ IF running THEN at' = 1 /\ UNCHANGED phase ELSE at' = 1 /\ phase' = "unload"
    /\ UNCHANGED <<trigger, registered, status, tables, stack, running, deinits, dispatched, fault>>

(* The next module of the round; one without register_run is passed over.  *)
RunModule ==
    /\ phase = "run" /\ at \in DOMAIN registered /\ stack = << >>
    /\ at' = at + 1
    /\ stack' = IF registered[at] \in RunEnabled THEN <<RunFrame(registered[at])>> ELSE << >>
    /\ UNCHANGED <<phase, trigger, registered, status, tables, running, deinits, dispatched, fault>>

EndRound ==
    /\ phase = "run" /\ at > Len(registered) /\ stack = << >>
    /\ at' = 0
    /\ UNCHANGED <<phase, trigger, registered, status, tables, stack, running, deinits, dispatched, fault>>

-----------------------------------------------------------------------------
(* Module code publishing, and run_callback_func.                          *)

InModule == stack # << >> /\ Top.code \in {"run", "event"}
InDispatch == stack # << >> /\ Top.code = "dispatch"

(* What the code of the innermost frame may still publish. *)
MayPublish ==
    IF Top.code = "run"
    THEN IF Top.sent < MaxPublish THEN RunEmits[Top.module] ELSE {}
    ELSE IF Top.sent = 0 THEN {EventEmits[Top.module]} \ {NoName} ELSE {}

(* Mutant: an id is not checked before the chain is looked up. *)
PublishUnchecked ==
    /\ phase = "run" /\ InModule
    /\ \E name \in MayPublish :
          LET isOwn == name = Own[Top.module]
              id    == IF isOwn THEN own[Top.module] ELSE RegisteredId(name)
              here  == Push(Below, [Top EXCEPT !.sent = @ + 1])
          IN  /\ events' = IF isOwn THEN events ELSE EventsWith(name)
              /\ stack' = Push(here, DispatchFrame(id))
    /\ UNCHANGED <<phase, at, trigger, registered, status, chains, own, running, deinits, dispatched, fault>>

(* callback_event_cb with the id kept from pre_init, or, for a name that   *)
(* is not the module's own (ipc: received from another process), the id    *)
(* register_event_cb has just returned.  Ids out of range are refused.     *)
Publish ==
    /\ phase = "run" /\ InModule
    /\ \E name \in MayPublish :
          LET isOwn == name = Own[Top.module]
              id    == IF isOwn THEN own[Top.module] ELSE RegisteredId(name)
              here  == Push(Below, [Top EXCEPT !.sent = @ + 1])
          IN  /\ events' = IF isOwn THEN events ELSE EventsWith(name)
              /\ stack' = IF id \in Ids THEN Push(here, DispatchFrame(id)) ELSE here
    /\ UNCHANGED <<phase, at, trigger, registered, status, chains, own, running, deinits, dispatched, fault>>

(* chain->module->event(): through whatever the chain still points to. *)
CallEvent ==
    /\ phase = "run" /\ InDispatch /\ Top.next <= Len(chains[Top.id])
    /\ LET m    == chains[Top.id][Top.next]
           here == Push(Below, [Top EXCEPT !.next = @ + 1, !.called = Append(@, m)])
       IN  IF status[m] = "freed"
           THEN fault' = "freedModuleCalled" /\ UNCHANGED stack
           ELSE stack' = Push(here, EventFrame(m)) /\ UNCHANGED fault
    /\ UNCHANGED <<phase, at, trigger, registered, status, tables, running, deinits, dispatched>>

DispatchDone ==
    /\ phase = "run" /\ InDispatch /\ Top.next > Len(chains[Top.id])
    /\ stack' = Below
    /\ dispatched' = [name |-> NameOf(Top.id), called |-> Top.called]
    /\ UNCHANGED <<phase, at, trigger, registered, status, tables, running, deinits, fault>>

ReturnFromModule ==
    /\ phase = "run" /\ InModule
    /\ stack' = Below
    /\ UNCHANGED <<phase, at, trigger, registered, status, tables, running, deinits, dispatched, fault>>

-----------------------------------------------------------------------------
(* clean_all: every module still in the list, in list order. *)

UnloadModule ==
    /\ phase = "unload" /\ at <= Len(registered)
    /\ deinits' = [deinits EXCEPT ![registered[at]] = @ + 1]
    /\ status' = [status EXCEPT ![registered[at]] = "freed"]
    /\ at' = at + 1
    /\ UNCHANGED <<phase, trigger, registered, tables, stack, running, dispatched, fault>>

UnloadDone ==
    /\ phase = "unload" /\ at > Len(registered)
    /\ phase' = "exit"
    /\ UNCHANGED <<at, trigger, registered, status, tables, stack, running, deinits, dispatched, fault>>

(* Ctrl-C: the handler is installed when the run loop starts; before that  *)
(* the signal ends the process.                                            *)
Sigint ==
    /\ phase \in {"config", "load", "init", "run"} /\ running
    /\ IF phase = "run" THEN running' = FALSE /\ UNCHANGED phase
                        ELSE phase' = "killed" /\ UNCHANGED running
    /\ UNCHANGED <<at, trigger, registered, status, tables, stack, deinits, dispatched, fault>>

-----------------------------------------------------------------------------
Load == ReadConfig \/ SkipModule \/ PreInit \/ Subscribe \/ AddModule \/ LoadDone
InitModules == InitModule \/ InitFails \/ InitDone
Run == \/ StartRound \/ RunModule \/ EndRound
       \/ Publish \/ CallEvent \/ DispatchDone \/ ReturnFromModule
CleanAll == UnloadModule \/ UnloadDone

(* The engine's one thread; after a fault its behaviour is undefined. *)
EngineStep == fault = "none" /\ (Load \/ InitModules \/ Run \/ CleanAll)

Next == EngineStep \/ (fault = "none" /\ Sigint)

Spec == Init /\ [][Next]_vars

(* The process is scheduled, and module code returns. *)
FairSpec == Spec /\ WF_vars(EngineStep)
-----------------------------------------------------------------------------

Loaded(m) == status[m] # "absent"

(* Reference: the places in the config file, <<module, trigger>>, where a  *)
(* loaded module names an event, and their order.                          *)
PlacesOf(m, i) == {<<i, j>> : j \in DOMAIN Triggers[m]}
Places == UNION {PlacesOf(LoadOrder[i], i) : i \in {i \in DOMAIN LoadOrder : Loaded(LoadOrder[i])}}

Subscriptions(name) == {p \in Places : Triggers[LoadOrder[p[1]]][p[2]] = name}

Before(p, q) == p[1] < q[1] \/ (p[1] = q[1] /\ p[2] < q[2])

(* seq lists the modules of the places S, each place once and in order.    *)
Lists(seq, S) ==
    \E place \in [DOMAIN seq -> S] :
        /\ \A p \in S : \E k \in DOMAIN seq : place[k] = p
        /\ \A k, l \in DOMAIN seq : k < l => Before(place[k], place[l])
        /\ \A k \in DOMAIN seq : seq[k] = LoadOrder[place[k][1]]

(* No event leads back to itself: `rank` falls from an event to what a     *)
(* handler subscribed to it may publish.                                   *)
Descends(rank) ==
    \A m \in Modules : \A j \in DOMAIN Triggers[m] :
        EventEmits[m] # NoName => rank[EventEmits[m]] < rank[Triggers[m][j]]

Frames ==
    [code : {"run", "event"}, module : Modules, sent : 0 .. MaxPublish + 1]
    \cup [code : {"dispatch"}, id : Ids, next : Nat \ {0}, called : Seq(Modules)]

TypeOK ==
    /\ phase \in {"config", "load", "init", "run", "unload", "exit", "killed"}
    /\ at \in Nat /\ trigger \in Nat
    /\ registered \in Seq(Modules)
    /\ status \in [Modules -> {"absent", "preinit", "ready", "freed"}]
    /\ events \in Seq(Names) /\ Len(events) <= MaxEvents
    /\ chains \in [Ids -> Seq(Modules)]
    /\ own \in [Modules -> Ids \cup {NoId}]
    /\ stack \in Seq(Frames)
    /\ running \in BOOLEAN
    /\ deinits \in [Modules -> Nat]
    /\ dispatched \in [name : Names \cup {NoName}, called : Seq(Modules)]
    /\ fault \in {"none", "chainOutOfBounds", "freedModuleCalled"}

(* run_callback_func calls event() of exactly the modules whose triggers   *)
(* name the event, once per trigger and in config order, however ids were  *)
(* handed out, re-used at run time or nested.                              *)
DispatchMatchesConfig ==
    dispatched.name # NoName => Lists(dispatched.called, Subscriptions(dispatched.name))

(* run() and event() of a module are only entered after its own init has   *)
(* succeeded and are never active once it is deinitialised.                *)
OnlyReadyModulesRun ==
    \A k \in DOMAIN stack : stack[k].code # "dispatch" => status[stack[k].module] = "ready"

(* An event is never dispatched again from inside its own dispatch, where  *)
(* no event leads back to itself: the call stack is bounded by the number  *)
(* of events.                                                              *)
NoReentrantDispatch ==
    \A j, k \in DOMAIN stack :
        stack[j].code = "dispatch" /\ stack[k].code = "dispatch" /\ stack[j].id = stack[k].id => j = k

(* At exit every module whose pre_init succeeded has been deinitialised    *)
(* exactly once, and no other.                                             *)
DeinitOnce ==
    /\ \A m \in Modules : deinits[m] <= 1
    /\ phase = "exit" => \A m \in Modules : deinits[m] = IF Loaded(m) THEN 1 ELSE 0

(* The chains point to no module that was freed: "removing from list" of   *)
(* init_modules leaves nothing behind that an event could reach.           *)
FreedModuleNotCalled == fault # "freedModuleCalled"

(* Once SIGINT has cleared `running`, the engine finishes the calls in     *)
(* progress and its round, unloads all modules and exits.                  *)
SigintStops == ~running ~> phase = "exit"

-----------------------------------------------------------------------------
(* What the proofs need beside the properties. *)

InList(m) == \E k \in DOMAIN registered : registered[k] = m

(* While modules are loaded the list holds the ones before `at` that got   *)
(* through pre_init, and one more may be waiting for its triggers.         *)
LoadingInOrder ==
    /\ at \in 1 .. Len(LoadOrder) + 1
    /\ trigger > 0 => at <= Len(LoadOrder) /\ status[Loading] = "preinit"
    /\ \A k \in DOMAIN registered :
          status[registered[k]] = "preinit" /\ \E j \in 1 .. at - 1 : registered[k] = LoadOrder[j]
    /\ \A m \in Modules : status[m] # "absent" =>
          status[m] = "preinit" /\ (InList(m) \/ (trigger > 0 /\ m = Loading))

(* The module list is walked from front to back: those before `at` have    *)
(* changed from one status to the next.                                    *)
WalkedTo(before, after) ==
    /\ at \in 1 .. Len(registered) + 1
    /\ \A k \in DOMAIN registered : status[registered[k]] = IF k < at THEN after ELSE before

(* Modules not in the list were never loaded, or are freed.                *)
OthersGone == \A m \in Modules : InList(m) \/ status[m] \in {"absent", "freed"}

Lifecycle ==
    /\ IsInjective(registered)
    /\ phase = "config" => registered = << >> /\ at = 1 /\ trigger = 0 /\ \A m \in Modules : status[m] = "absent"
    /\ phase = "load" => LoadingInOrder
    /\ phase = "init" => WalkedTo("preinit", "ready") /\ OthersGone
    /\ phase = "run" => OthersGone /\ \A k \in DOMAIN registered : status[registered[k]] = "ready"
    /\ phase = "unload" => WalkedTo("ready", "freed") /\ OthersGone
    /\ phase = "exit" => \A m \in Modules : status[m] \in {"absent", "freed"}
    /\ \A m \in Modules : deinits[m] = IF status[m] = "freed" THEN 1 ELSE 0

(* Chains hold loaded modules; calls are made inside rounds.               *)
ChainsLoaded == \A id \in Ids : \A k \in DOMAIN chains[id] : Loaded(chains[id][k])
CallsInRounds == stack # << >> => phase = "run" /\ at > 0

(* Ids handed out are below the length of the event table, in the modules  *)
(* and in the calls in progress; module code in progress is of ready ones. *)
OwnInTable == \A m \in Modules : own[m] < Len(events)

GoodFrames ==
    {f \in Frames : IF f.code = "dispatch" THEN f.id < Len(events) ELSE status[f.module] = "ready"}

FramesGood == \A k \in DOMAIN stack : stack[k] \in GoodFrames
=============================================================================
