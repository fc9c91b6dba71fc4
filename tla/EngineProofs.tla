---------------------------- MODULE EngineProofs ----------------------------
(***************************************************************************)
(* Proofs about the engine: its tables and call stack keep their types,    *)
(* and modules live one life, for every set of modules, config order,      *)
(* subscriptions, failures and signals.                                    *)
(***************************************************************************)
EXTENDS Engine, SequenceTheorems, TLAPS

-----------------------------------------------------------------------------
(* The event table. *)

(* register_event_id returns an id of the table it leaves, or -1, and      *)
(* leaves every id that was in it.                                         *)
LEMMA Registering ==
  ASSUME NEW name \in Names, events \in Seq(Names), Len(events) <= MaxEvents
  PROVE  /\ EventsWith(name) \in Seq(Names)
         /\ Len(EventsWith(name)) <= MaxEvents /\ Len(events) <= Len(EventsWith(name))
         /\ RegisteredId(name) \in Ids \cup {NoId}
         /\ RegisteredId(name) < Len(EventsWith(name))
<1>1. MaxEvents \in Nat \ {0} /\ Len(events) \in Nat /\ Ids = 0 .. MaxEvents - 1 /\ NoId = -1
  BY EventsAssumption DEF Ids, NoId
<1>2. CASE name \in Range(events)
  <2>. DEFINE k == CHOOSE k \in DOMAIN events : events[k] = name
  <2>1. \E j \in DOMAIN events : events[j] = name
    BY <1>2 DEF Range
  <2>2. k \in DOMAIN events /\ events[k] = name
    BY <2>1
  <2>3. k \in 1 .. Len(events)
    BY <2>2
  <2>4. EventsWith(name) = events /\ RegisteredId(name) = k - 1
    BY <1>2 DEF EventsWith, RegisteredId
  <2>. HIDE DEF k
  <2>. QED BY <1>1, <2>3, <2>4
<1>3. CASE name \notin Range(events) /\ Len(events) >= MaxEvents
  <2>1. EventsWith(name) = events /\ RegisteredId(name) = -1
    BY <1>3 DEF EventsWith, RegisteredId, NoId
  <2>. QED BY <1>1, <2>1
<1>4. CASE name \notin Range(events) /\ Len(events) < MaxEvents
  <2>1. EventsWith(name) = Append(events, name) /\ RegisteredId(name) = Len(events)
    BY <1>1, <1>4 DEF EventsWith, RegisteredId
  <2>2. Append(events, name) \in Seq(Names) /\ Len(Append(events, name)) = Len(events) + 1
    OBVIOUS
  <2>. QED BY <1>1, <1>4, <2>1, <2>2
<1>. QED
  BY <1>1, <1>2, <1>3, <1>4

-----------------------------------------------------------------------------
(* Lists and the call stack. *)

(* LIST_REMOVE keeps the order of the others: the elements behind the      *)
(* removed one move up by one place.                                       *)
LEMMA Removing ==
  ASSUME NEW S, NEW s \in Seq(S), NEW i \in 1 .. Len(s)
  PROVE  /\ RemoveAt(s, i) \in Seq(S)
         /\ Len(RemoveAt(s, i)) = Len(s) - 1
         /\ \A k \in 1 .. Len(s) - 1 : RemoveAt(s, i)[k] = IF k < i THEN s[k] ELSE s[k + 1]
<1>. DEFINE front == SubSeq(s, 1, i - 1)
            back  == SubSeq(s, i + 1, Len(s))
<1>1. Len(s) \in Nat /\ i \in Int /\ \A k \in 1 .. Len(s) : s[k] \in S
  OBVIOUS
<1>2. front \in Seq(S) /\ Len(front) = i - 1 /\ \A k \in 1 .. i - 1 : front[k] = s[k]
  <2>1. \A k \in 1 .. i - 1 : s[k] \in S
    BY <1>1
  <2>. QED BY <1>1, <2>1, SubSeqProperties
<1>3. back \in Seq(S) /\ Len(back) = Len(s) - i /\ \A k \in 1 .. Len(s) - i : back[k] = s[i + k]
  <2>1. \A k \in i + 1 .. Len(s) : s[k] \in S
    BY <1>1
  <2>2. /\ back \in Seq(S)
        /\ Len(back) = IF i + 1 <= Len(s) THEN Len(s) - (i + 1) + 1 ELSE 0
        /\ \A k \in 1 .. Len(s) - (i + 1) + 1 : back[k] = s[(i + 1) + k - 1]
    BY <1>1, <2>1, SubSeqProperties
  <2>. HIDE DEF back
  <2>3. \A k \in 1 .. Len(s) - i : back[k] = s[i + k]
    <3>. TAKE k \in 1 .. Len(s) - i
    <3>1. k \in 1 .. Len(s) - (i + 1) + 1 /\ (i + 1) + k - 1 = i + k
      BY <1>1
    <3>. QED BY <2>2, <3>1
  <2>. QED BY <1>1, <2>2, <2>3
<1>4. RemoveAt(s, i) = front \o back
  BY DEF RemoveAt
<1>. HIDE DEF front, back
<1>5. /\ front \o back \in Seq(S)
      /\ Len(front \o back) = Len(front) + Len(back)
      /\ \A k \in 1 .. Len(front) + Len(back) :
            (front \o back)[k] = IF k <= Len(front) THEN front[k] ELSE back[k - Len(front)]
  <2>1. front \in Seq(S) /\ back \in Seq(S)
    BY <1>2, <1>3
  <2>. QED BY ONLY <2>1, ConcatProperties
<1>6. \A k \in 1 .. Len(s) - 1 : (front \o back)[k] = IF k < i THEN s[k] ELSE s[k + 1]
  <2>. TAKE k \in 1 .. Len(s) - 1
  <2>1. CASE k < i
    BY <1>1, <1>2, <1>3, <1>5, <2>1
  <2>2. CASE k >= i
    <3>1. k - (i - 1) \in 1 .. Len(s) - i /\ i + (k - (i - 1)) = k + 1
      BY <1>1, <2>2
    <3>2. (front \o back)[k] = back[k - (i - 1)]
      BY <1>1, <1>2, <1>3, <1>5, <2>2
    <3>3. back[k - (i - 1)] = s[i + (k - (i - 1))]
      BY <1>3, <3>1
    <3>4. (front \o back)[k] = s[k + 1] /\ ~(k < i)
      BY <2>2, <3>1, <3>2, <3>3
    <3>. QED BY <3>4
  <2>3. k < i \/ k >= i
    OBVIOUS
  <2>. QED BY <2>1, <2>2, <2>3
<1>. QED
  BY <1>1, <1>2, <1>3, <1>4, <1>5, <1>6

(* Returning from the innermost call leaves the others in progress. *)
LEMMA Returning ==
  ASSUME NEW S, stack \in Seq(S), stack # << >>
  PROVE  /\ Len(stack) \in Nat \ {0} /\ Top \in S
         /\ Below \in Seq(S) /\ Len(Below) = Len(stack) - 1
         /\ \A k \in 1 .. Len(stack) - 1 : Below[k] = stack[k]
<1>1. Len(stack) \in Nat \ {0} /\ \A k \in 1 .. Len(stack) : stack[k] \in S
  BY EmptySeq
<1>2. Top \in S
  BY <1>1 DEF Top
<1>3. \A k \in 1 .. Len(stack) - 1 : stack[k] \in S
  BY <1>1
<1>4. /\ Below \in Seq(S)
      /\ Len(Below) = IF 1 <= Len(stack) - 1 THEN (Len(stack) - 1) - 1 + 1 ELSE 0
      /\ \A k \in 1 .. (Len(stack) - 1) - 1 + 1 : Below[k] = stack[1 + k - 1]
  BY <1>1, <1>3, SubSeqProperties DEF Below
<1>5. \A k \in 1 .. Len(stack) - 1 : Below[k] = stack[k]
  <2>. TAKE k \in 1 .. Len(stack) - 1
  <2>1. k \in 1 .. (Len(stack) - 1) - 1 + 1 /\ 1 + k - 1 = k
    BY <1>1
  <2>. QED BY <1>4, <2>1
<1>6. Len(Below) = Len(stack) - 1 /\ Below \in Seq(S)
  <2>1. Len(Below) = IF 1 <= Len(stack) - 1 THEN (Len(stack) - 1) - 1 + 1 ELSE 0
    BY <1>4
  <2>2. \A n \in Nat \ {0} : (IF 1 <= n - 1 THEN (n - 1) - 1 + 1 ELSE 0) = n - 1
    OBVIOUS
  <2>3. Len(stack) \in Nat \ {0}
    BY <1>1
  <2>4. Len(Below) = Len(stack) - 1
    BY <2>1, <2>2, <2>3
  <2>. QED BY <1>4, <2>4
<1>. QED
  BY <1>1, <1>2, <1>5, <1>6

(* A stack of good frames. *)
LEMMA StackOfGood == FramesGood /\ stack \in Seq(Frames) => stack \in Seq(GoodFrames)
<1>. SUFFICES ASSUME FramesGood, stack \in Seq(Frames) PROVE stack \in Seq(GoodFrames)
  OBVIOUS
<1>1. Len(stack) \in Nat /\ \A k \in 1 .. Len(stack) : stack[k] \in GoodFrames
  BY DEF FramesGood
<1>2. stack = [k \in 1 .. Len(stack) |-> stack[k]]
  OBVIOUS
<1>3. stack \in [1 .. Len(stack) -> GoodFrames]
  BY <1>1, <1>2
<1>. QED
  BY <1>1, <1>3

-----------------------------------------------------------------------------
(* The inductive invariant. *)

Inv == TypeOK /\ Lifecycle /\ ChainsLoaded /\ CallsInRounds /\ OwnInTable /\ FramesGood

LEMMA InitInv == Init => Inv
<1>. SUFFICES ASSUME Init PROVE Inv
  OBVIOUS
<1>. USE ModulesAssumption, EventsAssumption DEF Init
<1>1. TypeOK
  BY DEF TypeOK, Ids, NoId
<1>2. Lifecycle
  BY DEF Lifecycle, IsInjective
<1>3. ChainsLoaded
  BY DEF ChainsLoaded
<1>4. CallsInRounds /\ OwnInTable /\ FramesGood
  BY DEF CallsInRounds, OwnInTable, FramesGood, NoId
<1>. QED
  BY <1>1, <1>2, <1>3, <1>4 DEF Inv

(* Outside rounds there are no calls. *)
LEMMA NoCalls ==
  ASSUME CallsInRounds, phase # "run", UNCHANGED stack
  PROVE  CallsInRounds' /\ FramesGood'
<1>1. stack' = << >>
  BY DEF CallsInRounds
<1>. QED
  BY <1>1 DEF CallsInRounds, FramesGood

(* Steps that leave the tables alone and unload nothing out of the world.  *)
LEMMA TablesKept ==
  ASSUME ChainsLoaded, OwnInTable, UNCHANGED tables,
         \A m \in Modules : Loaded(m) => Loaded(m)',
         chains \in [Ids -> Seq(Modules)]
  PROVE  ChainsLoaded' /\ OwnInTable'
<1>1. \A id \in Ids : \A k \in DOMAIN chains[id] : chains[id][k] \in Modules
  OBVIOUS
<1>. QED
  BY <1>1 DEF ChainsLoaded, OwnInTable, tables

-----------------------------------------------------------------------------
(* Loading. *)

LEMMA LoadKeeps == Inv /\ fault = "none" /\ Load => Inv'
<1>. SUFFICES ASSUME Inv, Load PROVE Inv'
  OBVIOUS
<1>. USE DEF Inv
<1>1. CallsInRounds' /\ FramesGood'
  BY NoCalls DEF Load, ReadConfig, SkipModule, PreInit, Subscribe, AddModule, LoadDone
<1>2. CASE ReadConfig
  <2>1. TypeOK'
    BY <1>2 DEF TypeOK, ReadConfig, tables
  <2>2. Lifecycle'
    BY <1>2, ModulesAssumption DEF Lifecycle, ReadConfig, LoadingInOrder, InList
  <2>3. ChainsLoaded' /\ OwnInTable'
    BY <1>2, TablesKept DEF ReadConfig, TypeOK, Loaded
  <2>. QED BY <1>1, <2>1, <2>2, <2>3
<1>3. CASE SkipModule
  <2>1. TypeOK'
    BY <1>3 DEF TypeOK, SkipModule, tables
  <2>2. Lifecycle'
    BY <1>3, ModulesAssumption DEF Lifecycle, SkipModule, LoadingInOrder, InList
  <2>3. ChainsLoaded' /\ OwnInTable'
    BY <1>3, TablesKept DEF SkipModule, TypeOK, Loaded
  <2>. QED BY <1>1, <2>1, <2>2, <2>3
<1>4. CASE PreInit
  <2>1. at \in 1 .. Len(LoadOrder) /\ Loading \in Modules /\ Own[Loading] \in Names \cup {NoName}
    BY <1>4, ModulesAssumption DEF PreInit, Lifecycle, LoadingInOrder, Loading
  <2>2. Lifecycle'
    <3>1. status' = [status EXCEPT ![Loading] = "preinit"] /\ UNCHANGED <<registered, deinits, phase, at>>
      BY <1>4 DEF PreInit
    <3>2. trigger = 0 /\ trigger' = 1 /\ phase = "load" /\ LoadingInOrder
      BY <1>4 DEF PreInit, Lifecycle
    <3>3. \A m \in Modules : status'[m] = IF m = Loading THEN "preinit" ELSE status[m]
      BY <3>1 DEF TypeOK
    <3>4. status[Loading] \in {"absent", "preinit"}
      BY <2>1, <3>2 DEF LoadingInOrder
    <3>5. \A k \in DOMAIN registered : registered[k] \in Modules
      BY DEF TypeOK
    <3>6. LoadingInOrder'
      BY <2>1, <3>1, <3>2, <3>3, <3>5 DEF LoadingInOrder, InList, Loading
    <3>7. \A m \in Modules : deinits'[m] = IF status'[m] = "freed" THEN 1 ELSE 0
      BY <2>1, <3>1, <3>3, <3>4 DEF Lifecycle
    <3>. QED BY <3>1, <3>2, <3>6, <3>7 DEF Lifecycle
  <2>3. CASE Own[Loading] = NoName
    <3>1. TypeOK'
      BY <1>4, <2>1, <2>3 DEF TypeOK, PreInit, tables
    <3>2. ChainsLoaded' /\ OwnInTable'
      BY <1>4, <2>1, <2>3, TablesKept DEF PreInit, TypeOK, Loaded
    <3>. QED BY <1>1, <2>2, <3>1, <3>2
  <2>4. CASE Own[Loading] \in Names
    <3>1. /\ EventsWith(Own[Loading]) \in Seq(Names)
          /\ Len(EventsWith(Own[Loading])) <= MaxEvents /\ Len(events) <= Len(EventsWith(Own[Loading]))
          /\ RegisteredId(Own[Loading]) \in Ids \cup {NoId}
          /\ RegisteredId(Own[Loading]) < Len(EventsWith(Own[Loading]))
      BY <2>4, Registering DEF TypeOK
    <3>2. Own[Loading] # NoName
      BY <2>4, ModulesAssumption
    <3>3. TypeOK'
      BY <1>4, <2>1, <3>1, <3>2 DEF TypeOK, PreInit
    <3>4. ChainsLoaded'
      <4>1. \A id \in Ids : \A k \in DOMAIN chains[id] : chains[id][k] \in Modules
        BY DEF TypeOK
      <4>2. \A m \in Modules : Loaded(m) => Loaded(m)'
        BY <1>4, <2>1 DEF TypeOK, PreInit, Loaded
      <4>. QED BY <1>4, <3>2, <4>1, <4>2 DEF ChainsLoaded, PreInit
    <3>5. OwnInTable'
      <4>1. \A m \in Modules : own[m] \in Int /\ own[m] < Len(events)
        BY EventsAssumption DEF OwnInTable, TypeOK, Ids, NoId
      <4>2. \A m \in Modules : own'[m] = IF m = Loading THEN RegisteredId(Own[Loading]) ELSE own[m]
        BY <1>4, <3>2 DEF PreInit, TypeOK
      <4>3. events' = EventsWith(Own[Loading]) /\ Len(events) \in Nat /\ Len(events') \in Nat
        BY <1>4, <3>1, <3>2 DEF PreInit, TypeOK
      <4>. QED BY <3>1, <4>1, <4>2, <4>3 DEF OwnInTable
    <3>. QED BY <1>1, <2>2, <3>3, <3>4, <3>5
  <2>. QED BY <2>1, <2>3, <2>4
<1>5. CASE Subscribe
  <2>. DEFINE name == Triggers[Loading][trigger]
              id   == RegisteredId(name)
  <2>1. at \in 1 .. Len(LoadOrder) /\ Loading \in Modules /\ name \in Names /\ Loaded(Loading)
    <3>1. at \in 1 .. Len(LoadOrder) /\ Loading \in Modules /\ trigger \in DOMAIN Triggers[Loading]
      BY <1>5, ModulesAssumption DEF Subscribe, Lifecycle, LoadingInOrder, Loading
    <3>2. Triggers[Loading] \in Seq(Names)
      BY <3>1, ModulesAssumption
    <3>3. name \in Names /\ trigger > 0
      BY <3>1, <3>2
    <3>. QED BY <1>5, <3>1, <3>3 DEF Subscribe, Lifecycle, LoadingInOrder, Loaded
  <2>2. /\ EventsWith(name) \in Seq(Names)
        /\ Len(EventsWith(name)) <= MaxEvents /\ Len(events) <= Len(EventsWith(name))
        /\ id \in Ids \cup {NoId}
    BY <2>1, Registering DEF TypeOK
  <2>3. /\ events' = EventsWith(name) /\ trigger' = trigger + 1
        /\ UNCHANGED <<phase, at, registered, status, own, stack, running, deinits, dispatched>>
        /\ \/ id = NoId /\ fault' = "chainOutOfBounds" /\ UNCHANGED chains
           \/ id # NoId /\ chains' = [chains EXCEPT ![id] = Append(@, Loading)] /\ UNCHANGED fault
    BY <1>5 DEF Subscribe
  <2>. HIDE DEF name, id
  <2>4. chains' \in [Ids -> Seq(Modules)]
    <3>1. chains \in [Ids -> Seq(Modules)]
      BY DEF TypeOK
    <3>2. \A c \in Seq(Modules) : Append(c, Loading) \in Seq(Modules)
      BY <2>1
    <3>. QED BY <2>2, <2>3, <3>1, <3>2
  <2>5. TypeOK'
    BY <2>2, <2>3, <2>4 DEF TypeOK
  <2>6. Lifecycle'
    <3>1. trigger \in Nat /\ trigger > 0 /\ phase = "load"
      BY <1>5, <2>1, ModulesAssumption DEF Subscribe, TypeOK
    <3>2. UNCHANGED Loading /\ (\A m : InList(m) <=> InList(m)')
      BY <2>3 DEF Loading, InList
    <3>3. LoadingInOrder'
      BY <2>3, <3>1, <3>2 DEF Lifecycle, LoadingInOrder
    <3>. QED BY <2>3, <3>1, <3>3 DEF Lifecycle
  <2>7. ChainsLoaded'
    <3>. SUFFICES ASSUME NEW i \in Ids, NEW k \in DOMAIN chains'[i] PROVE status[chains'[i][k]] # "absent"
      BY <2>3 DEF ChainsLoaded, Loaded
    <3>1. chains[i] \in Seq(Modules)
      BY DEF TypeOK
    <3>2. CASE chains'[i] = chains[i]
      BY <3>2 DEF ChainsLoaded, Loaded
    <3>3. CASE chains'[i] = Append(chains[i], Loading)
      BY <2>1, <3>1, <3>3 DEF ChainsLoaded, Loaded
    <3>. QED BY <2>3, <3>2, <3>3 DEF TypeOK
  <2>8. OwnInTable'
    <3>1. \A m \in Modules : own[m] \in Int /\ own[m] < Len(events)
      BY EventsAssumption DEF OwnInTable, TypeOK, Ids, NoId
    <3>. QED BY <2>2, <2>3, <3>1 DEF OwnInTable, TypeOK
  <2>. QED BY <1>1, <2>5, <2>6, <2>7, <2>8
<1>6. CASE AddModule
  <2>1. at \in 1 .. Len(LoadOrder) /\ Loading \in Modules /\ registered \in Seq(Modules)
    BY <1>6, ModulesAssumption DEF AddModule, Lifecycle, LoadingInOrder, Loading, TypeOK
  <2>2. /\ registered' = Append(registered, Loading) /\ phase = "load" /\ at' = at + 1 /\ trigger' = 0
        /\ UNCHANGED <<phase, status, tables, stack, running, deinits, dispatched, fault>>
    BY <1>6 DEF AddModule
  <2>3. TypeOK'
    BY <2>1, <2>2 DEF TypeOK, tables
  <2>4. Lifecycle'
    <3>1. LoadingInOrder /\ IsInjective(registered)
      BY <2>2 DEF Lifecycle
    <3>2. trigger > 0 /\ status[Loading] = "preinit"
      <4>1. Len(Triggers[Loading]) \in Nat /\ trigger \in Nat /\ trigger > Len(Triggers[Loading])
        BY <1>6, <2>1, ModulesAssumption DEF AddModule, TypeOK
      <4>. QED BY <3>1, <4>1 DEF LoadingInOrder
    <3>3. \A k \in DOMAIN registered : registered[k] # Loading
      <4>. SUFFICES ASSUME NEW k \in DOMAIN registered, registered[k] = Loading PROVE FALSE
        OBVIOUS
      <4>1. PICK j \in 1 .. at - 1 : registered[k] = LoadOrder[j]
        BY <3>1 DEF LoadingInOrder
      <4>2. j \in DOMAIN LoadOrder /\ at \in DOMAIN LoadOrder /\ j # at /\ LoadOrder[j] = LoadOrder[at]
        BY <2>1, <4>1, ModulesAssumption DEF Loading
      <4>. QED BY <4>2, ModulesAssumption DEF IsInjective
    <3>4. /\ DOMAIN registered' = 1 .. Len(registered) + 1 /\ DOMAIN registered = 1 .. Len(registered)
          /\ \A k \in 1 .. Len(registered) : registered'[k] = registered[k]
          /\ registered'[Len(registered) + 1] = Loading
          /\ Len(registered) \in Nat
      BY <2>1, <2>2
    <3>5. \A k \in DOMAIN registered' : 
             k \in DOMAIN registered \/ (registered'[k] = Loading /\ k = Len(registered) + 1)
      BY <3>4
    <3>6. IsInjective(registered')
      BY <3>1, <3>3, <3>4, <3>5 DEF IsInjective
    <3>7. \A m : InList(m)' <=> InList(m) \/ m = Loading
      BY <3>4, <3>5 DEF InList
    <3>8. LoadingInOrder'
      <4>1. at' \in 1 .. Len(LoadOrder) + 1 /\ trigger' = 0
        BY <2>1, <2>2
      <4>2. \A k \in DOMAIN registered' :
               status'[registered'[k]] = "preinit" /\ \E j \in 1 .. at' - 1 : registered'[k] = LoadOrder[j]
        BY <2>1, <2>2, <3>1, <3>2, <3>4, <3>5 DEF LoadingInOrder, Loading
      <4>3. \A m \in Modules : status'[m] # "absent" => status'[m] = "preinit" /\ InList(m)'
        BY <2>2, <3>1, <3>7 DEF LoadingInOrder
      <4>4. ~(trigger' > 0)
        BY <4>1
      <4>. QED BY <4>4, <4>1, <4>2, <4>3 DEF LoadingInOrder
    <3>. QED BY <2>2, <3>6, <3>8 DEF Lifecycle
  <2>5. ChainsLoaded' /\ OwnInTable'
    BY <2>2, TablesKept DEF TypeOK, Loaded
  <2>. QED BY <1>1, <2>3, <2>4, <2>5
<1>7. CASE LoadDone
  <2>1. TypeOK'
    BY <1>7 DEF TypeOK, LoadDone, tables
  <2>2. Lifecycle'
    BY <1>7, ModulesAssumption DEF Lifecycle, LoadDone, LoadingInOrder, WalkedTo, OthersGone, InList, TypeOK
  <2>3. ChainsLoaded' /\ OwnInTable'
    BY <1>7, TablesKept DEF LoadDone, TypeOK, Loaded
  <2>. QED BY <1>1, <2>1, <2>2, <2>3
<1>. QED
  BY <1>2, <1>3, <1>4, <1>5, <1>6, <1>7 DEF Load

-----------------------------------------------------------------------------
(* init_modules: the walk over a list that shrinks under it. *)

LEMMA InitKeeps == Inv /\ fault = "none" /\ InitModules => Inv'
<1>. SUFFICES ASSUME Inv, InitModules PROVE Inv'
  OBVIOUS
<1>. USE DEF Inv
<1>1. CallsInRounds' /\ FramesGood'
  BY NoCalls DEF InitModules, InitModule, InitFails, InitDone
<1>2. phase = "init" /\ WalkedTo("preinit", "ready") /\ OthersGone /\ IsInjective(registered)
  BY DEF InitModules, InitModule, InitFails, InitDone, Lifecycle
<1>3. /\ registered \in Seq(Modules) /\ Len(registered) \in Nat /\ DOMAIN registered = 1 .. Len(registered)
      /\ \A k \in 1 .. Len(registered) : registered[k] \in Modules
  BY DEF TypeOK
<1>4. ASSUME InitModule PROVE Inv'
  <2>1. /\ at \in 1 .. Len(registered) /\ at' = at + 1
        /\ status' = [status EXCEPT ![registered[at]] = "ready"]
        /\ UNCHANGED <<phase, trigger, registered, tables, stack, running, deinits, dispatched, fault>>
    BY <1>2, <1>4 DEF InitModule, WalkedTo
  <2>2. TypeOK'
    BY <2>1 DEF TypeOK, tables
  <2>3. \A m \in Modules : status'[m] = IF m = registered[at] THEN "ready" ELSE status[m]
    BY <2>1 DEF TypeOK
  <2>4. status[registered[at]] = "preinit"
    BY <1>2, <1>3, <2>1 DEF WalkedTo
  <2>5. WalkedTo("preinit", "ready")'
    BY <1>2, <1>3, <2>1, <2>3 DEF WalkedTo, IsInjective
  <2>6. OthersGone'
    BY <1>2, <1>3, <2>1, <2>3 DEF OthersGone, InList
  <2>7. \A m \in Modules : deinits'[m] = IF status'[m] = "freed" THEN 1 ELSE 0
    BY <2>1, <2>3, <2>4 DEF Lifecycle
  <2>8. Lifecycle'
    BY <1>2, <2>1, <2>5, <2>6, <2>7 DEF Lifecycle
  <2>9. ChainsLoaded' /\ OwnInTable'
    <3>1. \A m \in Modules : Loaded(m) => Loaded(m)'
      BY <2>3 DEF Loaded
    <3>. QED BY <2>1, <3>1, TablesKept DEF TypeOK
  <2>. QED BY <1>1, <2>2, <2>8, <2>9
<1>5. ASSUME InitFails PROVE Inv'
  <2>1. /\ at \in 1 .. Len(registered) /\ registered' = RemoveAt(registered, at)
        /\ status' = [status EXCEPT ![registered[at]] = "freed"]
        /\ deinits' = [deinits EXCEPT ![registered[at]] = @ + 1]
        /\ UNCHANGED <<phase, at, trigger, tables, stack, running, dispatched, fault>>
    BY <1>2, <1>5 DEF InitFails, WalkedTo
  <2>2. /\ registered' \in Seq(Modules) /\ Len(registered') = Len(registered) - 1
        /\ \A k \in 1 .. Len(registered) - 1 :
              registered'[k] = IF k < at THEN registered[k] ELSE registered[k + 1]
    BY <1>3, <2>1, Removing
  <2>3. DOMAIN registered' = 1 .. Len(registered) - 1
    BY <2>2
  <2>4. TypeOK'
    BY <2>1, <2>2 DEF TypeOK, tables
  <2>5. \A m \in Modules : status'[m] = IF m = registered[at] THEN "freed" ELSE status[m]
    BY <2>1 DEF TypeOK
  <2>6. \A m \in Modules : deinits'[m] = IF status'[m] = "freed" THEN 1 ELSE 0
    <3>1. status[registered[at]] = "preinit" /\ registered[at] \in Modules
      BY <1>2, <1>3, <2>1 DEF WalkedTo
    <3>2. \A m \in Modules : deinits'[m] = IF m = registered[at] THEN deinits[m] + 1 ELSE deinits[m]
      BY <2>1 DEF TypeOK
    <3>. QED BY <2>5, <3>1, <3>2 DEF Lifecycle
  <2>7. \A k \in 1 .. Len(registered) - 1 :
           \E j \in 1 .. Len(registered) :
              /\ j # at /\ registered'[k] = registered[j]
              /\ j = IF k < at THEN k ELSE k + 1
    <3>. TAKE k \in 1 .. Len(registered) - 1
    <3>1. CASE k < at
      BY <1>3, <2>1, <2>2, <3>1
    <3>2. CASE ~(k < at)
      BY <1>3, <2>1, <2>2, <3>2
    <3>. QED BY <3>1, <3>2
  <2>8. IsInjective(registered')
    <3>. SUFFICES ASSUME NEW k \in 1 .. Len(registered) - 1, NEW l \in 1 .. Len(registered) - 1,
                         registered'[k] = registered'[l]
                  PROVE  k = l
      BY <2>3 DEF IsInjective
    <3>1. PICK i \in 1 .. Len(registered) : registered'[k] = registered[i] /\ i = IF k < at THEN k ELSE k + 1
      BY <2>7
    <3>2. PICK j \in 1 .. Len(registered) : registered'[l] = registered[j] /\ j = IF l < at THEN l ELSE l + 1
      BY <2>7
    <3>3. i = j
      BY <1>2, <1>3, <3>1, <3>2 DEF IsInjective
    <3>. QED BY <1>3, <2>1, <3>1, <3>2, <3>3
  <2>9. WalkedTo("preinit", "ready")'
    <3>1. at' \in 1 .. Len(registered') + 1
      BY <1>3, <2>1, <2>2
    <3>2. ASSUME NEW k \in 1 .. Len(registered) - 1
          PROVE  status'[registered'[k]] = IF k < at THEN "ready" ELSE "preinit"
      <4>1. PICK j \in 1 .. Len(registered) :
               j # at /\ registered'[k] = registered[j] /\ j = IF k < at THEN k ELSE k + 1
        BY <2>7
      <4>2. registered[j] # registered[at] /\ registered[j] \in Modules
        BY <1>2, <1>3, <2>1, <4>1 DEF IsInjective
      <4>3. status[registered[j]] = IF j < at THEN "ready" ELSE "preinit"
        BY <1>2, <1>3 DEF WalkedTo
      <4>4. j < at <=> k < at
        BY <2>1, <4>1
      <4>. QED BY <2>5, <4>1, <4>2, <4>3, <4>4
    <3>. QED BY <2>1, <2>3, <3>1, <3>2 DEF WalkedTo
  <2>10. OthersGone'
    <3>. SUFFICES ASSUME NEW m \in Modules, status'[m] \notin {"absent", "freed"} PROVE InList(m)'
      BY DEF OthersGone
    <3>1. m # registered[at] /\ InList(m)
      BY <1>2, <2>5 DEF OthersGone
    <3>2. PICK j \in 1 .. Len(registered) : registered[j] = m
      BY <1>3, <3>1 DEF InList
    <3>3. j # at
      BY <3>1, <3>2
    <3>4. CASE j < at
      <4>1. j \in 1 .. Len(registered) - 1
        BY <1>3, <2>1, <3>4
      <4>2. registered'[j] = m
        BY <2>2, <3>2, <3>4, <4>1
      <4>. QED BY <2>3, <4>1, <4>2 DEF InList
    <3>5. CASE j > at
      <4>1. j - 1 \in 1 .. Len(registered) - 1 /\ ~(j - 1 < at) /\ (j - 1) + 1 = j
        BY <1>3, <2>1, <3>5
      <4>2. registered'[j - 1] = m
        BY <2>2, <3>2, <4>1
      <4>. QED BY <2>3, <4>1, <4>2 DEF InList
    <3>. QED BY <2>1, <3>3, <3>4, <3>5
  <2>11. Lifecycle'
    BY <1>2, <2>1, <2>6, <2>8, <2>9, <2>10 DEF Lifecycle
  <2>12. ChainsLoaded' /\ OwnInTable'
    <3>1. \A m \in Modules : Loaded(m) => Loaded(m)'
      BY <2>5 DEF Loaded
    <3>. QED BY <2>1, <3>1, TablesKept DEF TypeOK
  <2>. QED BY <1>1, <2>4, <2>11, <2>12
<1>6. ASSUME InitDone PROVE Inv'
  <2>1. TypeOK'
    BY <1>6 DEF InitDone, TypeOK, tables
  <2>2. at > Len(registered) /\ UNCHANGED <<registered, status, deinits>>
    BY <1>6 DEF InitDone
  <2>3. \A k \in DOMAIN registered : status[registered[k]] = "ready"
    BY <1>2, <1>3, <2>2 DEF WalkedTo
  <2>4. OthersGone'
    BY <1>2, <2>2 DEF OthersGone, InList
  <2>5. Lifecycle'
    <3>1. CASE registered = << >>
      BY <1>2, <1>3, <1>6, <2>2, <2>4, <3>1 DEF Lifecycle, InitDone, WalkedTo
    <3>2. CASE registered # << >>
      BY <1>2, <1>6, <2>2, <2>3, <2>4, <3>2 DEF Lifecycle, InitDone
    <3>. QED BY <3>1, <3>2
  <2>6. ChainsLoaded' /\ OwnInTable'
    BY <1>6, TablesKept DEF InitDone, TypeOK, Loaded
  <2>. QED BY <1>1, <2>1, <2>5, <2>6
<1>. QED
  BY <1>4, <1>5, <1>6 DEF InitModules

-----------------------------------------------------------------------------
(* clean_all and the signal. *)

LEMMA CleanKeeps == Inv /\ fault = "none" /\ CleanAll => Inv'
<1>. SUFFICES ASSUME Inv, CleanAll PROVE Inv'
  OBVIOUS
<1>. USE DEF Inv
<1>1. CallsInRounds' /\ FramesGood'
  BY NoCalls DEF CleanAll, UnloadModule, UnloadDone
<1>2. phase = "unload" /\ WalkedTo("ready", "freed") /\ OthersGone /\ IsInjective(registered)
  BY DEF CleanAll, UnloadModule, UnloadDone, Lifecycle
<1>3. /\ registered \in Seq(Modules) /\ Len(registered) \in Nat /\ DOMAIN registered = 1 .. Len(registered)
      /\ \A k \in 1 .. Len(registered) : registered[k] \in Modules
  BY DEF TypeOK
<1>4. ASSUME UnloadModule PROVE Inv'
  <2>1. /\ at \in 1 .. Len(registered) /\ at' = at + 1
        /\ status' = [status EXCEPT ![registered[at]] = "freed"]
        /\ deinits' = [deinits EXCEPT ![registered[at]] = @ + 1]
        /\ UNCHANGED <<phase, trigger, registered, tables, stack, running, dispatched, fault>>
    BY <1>2, <1>4 DEF UnloadModule, WalkedTo
  <2>2. TypeOK'
    BY <2>1 DEF TypeOK, tables
  <2>3. \A m \in Modules : status'[m] = IF m = registered[at] THEN "freed" ELSE status[m]
    BY <2>1 DEF TypeOK
  <2>4. status[registered[at]] = "ready" /\ registered[at] \in Modules
    BY <1>2, <1>3, <2>1 DEF WalkedTo
  <2>5. WalkedTo("ready", "freed")'
    BY <1>2, <1>3, <2>1, <2>3 DEF WalkedTo, IsInjective
  <2>6. OthersGone'
    BY <1>2, <1>3, <2>1, <2>3 DEF OthersGone, InList
  <2>7. \A m \in Modules : deinits'[m] = IF status'[m] = "freed" THEN 1 ELSE 0
    <3>1. \A m \in Modules : deinits'[m] = IF m = registered[at] THEN deinits[m] + 1 ELSE deinits[m]
      BY <2>1 DEF TypeOK
    <3>. QED BY <2>3, <2>4, <3>1 DEF Lifecycle
  <2>8. Lifecycle'
    BY <1>2, <2>1, <2>5, <2>6, <2>7 DEF Lifecycle
  <2>9. ChainsLoaded' /\ OwnInTable'
    <3>1. \A m \in Modules : Loaded(m) => Loaded(m)'
      BY <2>3 DEF Loaded
    <3>. QED BY <2>1, <3>1, TablesKept DEF TypeOK
  <2>. QED BY <1>1, <2>2, <2>8, <2>9
<1>5. ASSUME UnloadDone PROVE Inv'
  <2>1. TypeOK'
    BY <1>5 DEF UnloadDone, TypeOK, tables
  <2>2. /\ at > Len(registered) /\ phase' = "exit"
        /\ UNCHANGED <<at, trigger, registered, status, tables, stack, deinits>>
    BY <1>5 DEF UnloadDone
  <2>3. \A k \in DOMAIN registered : status[registered[k]] = "freed"
    BY <1>2, <1>3, <2>2 DEF WalkedTo
  <2>4. \A m \in Modules : status[m] \in {"absent", "freed"}
    BY <1>2, <2>3 DEF OthersGone, InList
  <2>5. Lifecycle'
    BY <1>2, <2>2, <2>4 DEF Lifecycle
  <2>6. ChainsLoaded' /\ OwnInTable'
    BY <2>2, TablesKept DEF TypeOK, Loaded
  <2>. QED BY <1>1, <2>1, <2>5, <2>6
<1>. QED
  BY <1>4, <1>5 DEF CleanAll

LEMMA SigintKeeps == Inv /\ Sigint => Inv'
<1>. SUFFICES ASSUME Inv, Sigint PROVE Inv'
  OBVIOUS
<1>. USE DEF Inv
<1>1. UNCHANGED <<at, trigger, registered, status, tables, stack, deinits, dispatched, fault>>
  BY DEF Sigint
<1>2. TypeOK'
  BY DEF Sigint, TypeOK, tables
<1>3. ChainsLoaded' /\ OwnInTable'
  BY <1>1, TablesKept DEF TypeOK, Loaded
<1>4. FramesGood'
  BY <1>1 DEF FramesGood, GoodFrames, tables
<1>5. CASE phase = "run"
  <2>1. phase' = phase
    BY <1>5 DEF Sigint
  <2>2. Lifecycle' /\ CallsInRounds'
    BY <1>1, <1>5, <2>1 DEF Lifecycle, OthersGone, InList, CallsInRounds
  <2>. QED BY <1>2, <1>3, <1>4, <2>2
<1>6. CASE phase # "run"
  <2>1. phase' = "killed"
    BY <1>6 DEF Sigint
  <2>2. Lifecycle' /\ CallsInRounds'
    BY <1>1, <1>6, <2>1 DEF Lifecycle, CallsInRounds
  <2>. QED BY <1>2, <1>3, <1>4, <2>2
<1>. QED
  BY <1>5, <1>6

-----------------------------------------------------------------------------
(* Rounds. *)

(* Module code in progress is of modules in the list, in their calls.      *)
LEMMA FrameKinds ==
  ASSUME NEW f \in GoodFrames
  PROVE  /\ f.code = "dispatch" =>
               f \in [code : {"dispatch"}, id : Ids, next : Nat \ {0}, called : Seq(Modules)] /\ f.id < Len(events)
         /\ f.code # "dispatch" =>
               f \in [code : {"run", "event"}, module : Modules, sent : 0 .. MaxPublish + 1] /\ status[f.module] = "ready"
  BY DEF GoodFrames, Frames

(* A frame stays good while modules keep their status and ids stay given.  *)
LEMMA FramesStayGood ==
  ASSUME events \in Seq(Names), events' \in Seq(Names), Len(events) <= Len(events'), UNCHANGED status
  PROVE  GoodFrames \subseteq GoodFrames'
<1>. SUFFICES ASSUME NEW f \in GoodFrames PROVE f \in GoodFrames'
  OBVIOUS
<1>1. CASE f.code = "dispatch"
  <2>1. f.id \in Int /\ f.id < Len(events)
    BY <1>1, FrameKinds, EventsAssumption DEF Ids
  <2>2. f.id < Len(events')
    BY <2>1
  <2>. QED BY <1>1, <2>2 DEF GoodFrames
<1>2. CASE f.code # "dispatch"
  BY <1>2 DEF GoodFrames
<1>. QED
  BY <1>1, <1>2

(* What a step inside a round must leave, given what it leaves alone.      *)
LEMMA RoundKeeps ==
  ASSUME Inv, phase = "run", phase' = "run", UNCHANGED <<registered, status, deinits, chains, own>>,
         at' \in Nat, TypeOK', Len(events) <= Len(events'),
         stack' \in Seq(GoodFrames'), stack' # << >> => at' > 0
  PROVE  Inv'
<1>. USE DEF Inv
<1>1. Lifecycle'
  BY DEF Lifecycle, OthersGone, InList
<1>2. ChainsLoaded'
  BY DEF ChainsLoaded, Loaded
<1>3. OwnInTable'
  <2>1. \A m \in Modules : own[m] \in Int /\ own[m] < Len(events)
    BY EventsAssumption DEF OwnInTable, TypeOK, Ids, NoId
  <2>2. Len(events) \in Nat /\ Len(events') \in Nat
    BY DEF TypeOK
  <2>. QED BY <2>1, <2>2 DEF OwnInTable
<1>4. FramesGood' /\ CallsInRounds'
  BY DEF FramesGood, CallsInRounds
<1>. QED
  BY <1>1, <1>2, <1>3, <1>4

(* Seq is monotonic. *)
LEMMA SeqOfMore ==
  ASSUME NEW S, NEW T, S \subseteq T, NEW s \in Seq(S)
  PROVE  s \in Seq(T)
<1>1. s = [k \in 1 .. Len(s) |-> s[k]] /\ Len(s) \in Nat /\ \A k \in 1 .. Len(s) : s[k] \in S
  OBVIOUS
<1>2. s \in [1 .. Len(s) -> T]
  BY <1>1
<1>. QED
  BY <1>1, <1>2

LEMMA RunKeeps == Inv /\ fault = "none" /\ Run => Inv'
<1>. SUFFICES ASSUME Inv, Run PROVE Inv'
  OBVIOUS
<1>. USE DEF Inv
<1>1. /\ phase = "run" /\ UNCHANGED <<trigger, registered, status, chains, own, running, deinits>>
      /\ OthersGone /\ \A k \in DOMAIN registered : registered[k] \in Modules /\ status[registered[k]] = "ready"
  BY DEF Run, StartRound, RunModule, EndRound, Publish, CallEvent, DispatchDone, ReturnFromModule,
         Lifecycle, TypeOK, tables
<1>2. /\ stack \in Seq(GoodFrames) /\ GoodFrames \subseteq Frames /\ events \in Seq(Names)
      /\ Len(events) \in Nat /\ at \in Nat /\ (stack # << >> => at > 0)
  BY StackOfGood DEF TypeOK, GoodFrames, CallsInRounds
<1>3. UNCHANGED events => GoodFrames \subseteq GoodFrames'
  BY <1>1, <1>2, FramesStayGood
<1>4. stack # << >> => Top \in GoodFrames /\ Below \in Seq(GoodFrames)
  BY <1>2, Returning
<1>5. stack' \in Seq(GoodFrames') => stack' \in Seq(Frames)
  BY SeqOfMore DEF GoodFrames
<1>6. ASSUME StartRound PROVE Inv'
  <2>1. stack = << >> /\ UNCHANGED <<stack, tables, dispatched, fault>> /\ at' = 1
    BY <1>2, <1>6 DEF StartRound
  <2>2. TypeOK'
    BY <1>1, <1>6, <2>1 DEF TypeOK, StartRound, tables
  <2>3. stack' \in Seq(GoodFrames')
    BY <2>1
  <2>4. CASE phase' = "run"
    BY <1>1, <1>2, <2>1, <2>2, <2>3, <2>4, RoundKeeps DEF tables
  <2>5. CASE phase' = "unload"
    <3>1. WalkedTo("ready", "freed")' /\ OthersGone'
      BY <1>1, <2>1 DEF WalkedTo, OthersGone, InList, TypeOK
    <3>2. Lifecycle'
      BY <1>1, <2>5, <3>1 DEF Lifecycle
    <3>3. CallsInRounds' /\ FramesGood'
      BY <2>1 DEF CallsInRounds, FramesGood
    <3>4. ChainsLoaded' /\ OwnInTable'
      BY <1>1, <2>1, TablesKept DEF TypeOK, Loaded
    <3>. QED BY <2>2, <3>2, <3>3, <3>4
  <2>. QED BY <1>1, <1>6, <2>4, <2>5 DEF StartRound
<1>7. ASSUME RunModule PROVE Inv'
  <2>1. /\ at \in DOMAIN registered /\ at' = at + 1 /\ UNCHANGED <<phase, events, dispatched, fault>>
        /\ stack' = IF registered[at] \in RunEnabled THEN <<RunFrame(registered[at])>> ELSE << >>
    BY <1>7 DEF RunModule, tables
  <2>2. RunFrame(registered[at]) \in GoodFrames
    BY <1>1, <2>1, EventsAssumption DEF RunFrame, GoodFrames, Frames
  <2>3. stack' \in Seq(GoodFrames')
    BY <1>3, <2>1, <2>2
  <2>4. TypeOK'
    BY <1>1, <1>2, <1>5, <2>1, <2>3 DEF TypeOK
  <2>. QED BY <1>1, <1>2, <2>1, <2>3, <2>4, RoundKeeps
<1>8. ASSUME EndRound PROVE Inv'
  <2>1. at' = 0 /\ UNCHANGED <<phase, events, stack, dispatched, fault>> /\ stack = << >>
    BY <1>8 DEF EndRound, tables
  <2>2. stack' \in Seq(GoodFrames')
    BY <2>1
  <2>3. TypeOK'
    BY <1>1, <2>1 DEF TypeOK
  <2>. QED BY <1>1, <1>2, <2>1, <2>2, <2>3, RoundKeeps
<1>9. ASSUME Publish PROVE Inv'
  <2>1. PICK name \in MayPublish :
          LET isOwn == name = Own[Top.module]
              id    == IF isOwn THEN own[Top.module] ELSE RegisteredId(name)
              here  == Push(Below, [Top EXCEPT !.sent = @ + 1])
          IN  /\ events' = IF isOwn THEN events ELSE EventsWith(name)
              /\ stack' = IF id \in Ids THEN Push(here, DispatchFrame(id)) ELSE here
    BY <1>9 DEF Publish
  <2>. DEFINE isOwn == name = Own[Top.module]
              id    == IF isOwn THEN own[Top.module] ELSE RegisteredId(name)
              mine  == [Top EXCEPT !.sent = @ + 1]
              here  == Push(Below, mine)
  <2>2. /\ events' = IF isOwn THEN events ELSE EventsWith(name)
        /\ stack' = IF id \in Ids THEN Push(here, DispatchFrame(id)) ELSE here
        /\ UNCHANGED <<phase, at, dispatched, fault>>
    BY <1>9, <2>1 DEF Publish
  <2>3. /\ Top \in [code : {"run", "event"}, module : Modules, sent : 0 .. MaxPublish + 1]
        /\ status[Top.module] = "ready" /\ stack # << >>
    BY <1>4, <1>9, FrameKinds DEF Publish, InModule
  <2>4. name \in Names /\ Top.sent + 1 \in 0 .. MaxPublish + 1
    <3>1. CASE Top.code = "run"
      BY <2>3, <3>1, ModulesAssumption, EventsAssumption DEF MayPublish
    <3>2. CASE Top.code = "event"
      BY <2>3, <3>2, ModulesAssumption, EventsAssumption DEF MayPublish
    <3>. QED BY <2>3, <3>1, <3>2
  <2>5. /\ EventsWith(name) \in Seq(Names) /\ Len(EventsWith(name)) <= MaxEvents
        /\ Len(events) <= Len(EventsWith(name))
        /\ RegisteredId(name) < Len(EventsWith(name)) /\ RegisteredId(name) \in Ids \cup {NoId}
    BY <2>4, Registering DEF TypeOK
  <2>6. /\ events' \in Seq(Names) /\ Len(events') <= MaxEvents /\ Len(events) <= Len(events')
        /\ id < Len(events')
    <3>1. CASE isOwn
      <4>1. events' = events /\ id = own[Top.module]
        BY <2>2, <3>1
      <4>2. own[Top.module] < Len(events) /\ Len(events) <= MaxEvents
        BY <2>3 DEF OwnInTable, TypeOK
      <4>. HIDE DEF isOwn, id
      <4>. QED BY <1>2, <4>1, <4>2
    <3>2. CASE ~isOwn
      <4>1. events' = EventsWith(name) /\ id = RegisteredId(name)
        BY <2>2, <3>2
      <4>. HIDE DEF isOwn, id
      <4>. QED BY <2>5, <4>1
    <3>. QED BY <3>1, <3>2
  <2>7. GoodFrames \subseteq GoodFrames'
    BY <1>1, <1>2, <2>6, FramesStayGood
  <2>8. mine \in GoodFrames'
    <3>1. /\ mine \in [code : {"run", "event"}, module : Modules, sent : 0 .. MaxPublish + 1]
          /\ mine.module = Top.module
      BY <2>3, <2>4
    <3>. HIDE DEF mine
    <3>2. mine \in Frames /\ mine.code # "dispatch" /\ status'[mine.module] = "ready"
      BY <1>1, <2>3, <3>1 DEF Frames
    <3>. QED BY <3>2 DEF GoodFrames
  <2>9. Below \in Seq(GoodFrames')
    BY <1>4, <2>3, <2>7, SeqOfMore
  <2>10. id \in Ids => DispatchFrame(id) \in GoodFrames'
    <3>. HIDE DEF id
    <3>1. ASSUME id \in Ids PROVE DispatchFrame(id) \in Frames /\ DispatchFrame(id).code = "dispatch" /\ DispatchFrame(id).id = id
      BY <3>1 DEF DispatchFrame, Frames
    <3>. QED BY <2>6, <3>1 DEF GoodFrames
  <2>. HIDE DEF id, mine, isOwn
  <2>11. stack' \in Seq(GoodFrames')
    BY <2>2, <2>8, <2>9, <2>10 DEF Push
  <2>12. TypeOK'
    BY <1>1, <1>5, <2>2, <2>6, <2>11 DEF TypeOK
  <2>. QED BY <1>1, <1>2, <2>2, <2>3, <2>6, <2>11, <2>12, RoundKeeps
<1>10. ASSUME CallEvent PROVE Inv'
  <2>. DEFINE m    == chains[Top.id][Top.next]
              mine == [Top EXCEPT !.next = @ + 1, !.called = Append(@, m)]
              here == Push(Below, mine)
  <2>1. /\ UNCHANGED <<phase, at, events, dispatched>> /\ stack # << >> /\ Top.code = "dispatch"
        /\ Top.next <= Len(chains[Top.id])
        /\ \/ status[m] = "freed" /\ fault' = "freedModuleCalled" /\ UNCHANGED stack
           \/ status[m] # "freed" /\ stack' = Push(here, EventFrame(m)) /\ UNCHANGED fault
    BY <1>10 DEF CallEvent, InDispatch, tables
  <2>2. Top \in [code : {"dispatch"}, id : Ids, next : Nat \ {0}, called : Seq(Modules)] /\ Top.id < Len(events)
    BY <1>4, <2>1, FrameKinds
  <2>3. chains[Top.id] \in Seq(Modules) /\ Top.next \in DOMAIN chains[Top.id]
    BY <2>1, <2>2 DEF TypeOK
  <2>4. m \in Modules /\ status[m] # "absent"
    BY <2>2, <2>3 DEF ChainsLoaded, Loaded
  <2>5. mine \in GoodFrames'
    <3>1. /\ mine \in [code : {"dispatch"}, id : Ids, next : Nat \ {0}, called : Seq(Modules)]
          /\ mine.id = Top.id
      <4>. HIDE DEF m
      <4>1. Append(Top.called, m) \in Seq(Modules) /\ Top.next + 1 \in Nat \ {0}
        BY <2>2, <2>4
      <4>2. \A n \in Nat \ {0}, c \in Seq(Modules) :
               /\ [Top EXCEPT !.next = n, !.called = c]
                    \in [code : {"dispatch"}, id : Ids, next : Nat \ {0}, called : Seq(Modules)]
               /\ [Top EXCEPT !.next = n, !.called = c].id = Top.id
        BY <2>2
      <4>. QED BY <4>1, <4>2
    <3>. HIDE DEF mine
    <3>2. mine \in Frames /\ mine.code = "dispatch" /\ mine.id < Len(events')
      BY <2>1, <2>2, <3>1 DEF Frames
    <3>. QED BY <3>2 DEF GoodFrames
  <2>6. Below \in Seq(GoodFrames')
    BY <1>3, <1>4, <2>1, SeqOfMore
  <2>7. status[m] # "freed" => EventFrame(m) \in GoodFrames'
    <3>. HIDE DEF m
    <3>1. ASSUME status[m] # "freed" PROVE status[m] = "ready"
      BY <1>1, <2>4, <3>1 DEF OthersGone, InList
    <3>2. EventFrame(m) \in Frames /\ EventFrame(m).code # "dispatch" /\ EventFrame(m).module = m
      BY <2>4, EventsAssumption DEF EventFrame, Frames
    <3>. QED BY <1>1, <3>1, <3>2 DEF GoodFrames
  <2>. HIDE DEF m, mine
  <2>8. stack' \in Seq(GoodFrames')
    <3>1. CASE UNCHANGED stack
      BY <1>2, <1>3, <2>1, <3>1, SeqOfMore
    <3>2. CASE status[m] # "freed" /\ stack' = Push(here, EventFrame(m))
      BY <2>5, <2>6, <2>7, <3>2 DEF Push
    <3>. QED BY <2>1, <3>1, <3>2
  <2>9. TypeOK'
    BY <1>1, <1>5, <2>1, <2>8 DEF TypeOK
  <2>. QED BY <1>1, <1>2, <2>1, <2>8, <2>9, RoundKeeps
<1>11. ASSUME DispatchDone PROVE Inv'
  <2>1. /\ UNCHANGED <<phase, at, events, fault>> /\ stack # << >> /\ Top.code = "dispatch" /\ stack' = Below
        /\ dispatched' = [name |-> NameOf(Top.id), called |-> Top.called]
    BY <1>11 DEF DispatchDone, InDispatch, tables
  <2>2. Top \in [code : {"dispatch"}, id : Ids, next : Nat \ {0}, called : Seq(Modules)] /\ Top.id < Len(events)
    BY <1>4, <2>1, FrameKinds
  <2>3. Top.id + 1 \in 1 .. Len(events)
    BY <1>2, <2>2, EventsAssumption DEF Ids
  <2>4. dispatched' \in [name : Names \cup {NoName}, called : Seq(Modules)]
    BY <1>2, <2>1, <2>2, <2>3 DEF NameOf
  <2>5. stack' \in Seq(GoodFrames')
    BY <1>3, <1>4, <2>1, SeqOfMore
  <2>6. TypeOK'
    BY <1>1, <1>5, <2>1, <2>4, <2>5 DEF TypeOK
  <2>. QED BY <1>1, <1>2, <2>1, <2>5, <2>6, RoundKeeps
<1>12. ASSUME ReturnFromModule PROVE Inv'
  <2>1. UNCHANGED <<phase, at, events, dispatched, fault>> /\ stack # << >> /\ stack' = Below
    BY <1>12 DEF ReturnFromModule, InModule, tables
  <2>2. stack' \in Seq(GoodFrames')
    BY <1>3, <1>4, <2>1, SeqOfMore
  <2>3. TypeOK'
    BY <1>1, <1>5, <2>1, <2>2 DEF TypeOK
  <2>. QED BY <1>1, <1>2, <2>1, <2>2, <2>3, RoundKeeps
<1>. QED
  BY <1>6, <1>7, <1>8, <1>9, <1>10, <1>11, <1>12 DEF Run

LEMMA InvariantStep == Inv /\ [Next]_vars => Inv'
<1>. SUFFICES ASSUME Inv, [Next]_vars PROVE Inv'
  OBVIOUS
<1>1. CASE Next
  BY <1>1, LoadKeeps, InitKeeps, RunKeeps, CleanKeeps, SigintKeeps DEF Next, EngineStep
<1>2. CASE UNCHANGED vars
  BY <1>2 DEF vars, tables, Inv, TypeOK, Lifecycle, LoadingInOrder, Loading, WalkedTo, OthersGone, InList,
              ChainsLoaded, Loaded, CallsInRounds, OwnInTable, FramesGood, GoodFrames
<1>. QED
  BY <1>1, <1>2

-----------------------------------------------------------------------------
(* The theorems. *)

(* Nothing breaks the invariant: not the order of the config file, not a   *)
(* failing init, not the nesting of events, not the moment of a signal.    *)
THEOREM Invariant == Spec => []Inv
<1>1. Init => Inv
  BY InitInv
<1>2. Inv /\ [Next]_vars => Inv'
  BY InvariantStep
<1>. QED
  BY <1>1, <1>2, PTL DEF Spec

(* Ids, chains, call frames and lists of main.c stay within their types,   *)
(* ids given out or kept by modules and calls below MAX_EVENT_IDS.         *)
THEOREM TypeCorrect == Spec => []TypeOK
<1>1. Inv => TypeOK
  BY DEF Inv
<1>. QED
  BY <1>1, Invariant, PTL

(* run() and event() are only active in modules whose init succeeded and   *)
(* whose deinit has not been called.                                       *)
THEOREM OnlyReady == Spec => []OnlyReadyModulesRun
<1>1. Inv => OnlyReadyModulesRun
  <2>. SUFFICES ASSUME Inv, NEW k \in DOMAIN stack, stack[k].code # "dispatch"
                PROVE  status[stack[k].module] = "ready"
    BY DEF OnlyReadyModulesRun
  <2>. QED BY DEF Inv, FramesGood, GoodFrames
<1>. QED
  BY <1>1, Invariant, PTL

(* At exit each module that was loaded has been deinitialised once.        *)
THEOREM DeinitedOnce == Spec => []DeinitOnce
<1>1. Inv => DeinitOnce
  BY DEF Inv, Lifecycle, DeinitOnce, Loaded
<1>. QED
  BY <1>1, Invariant, PTL

-----------------------------------------------------------------------------
(* What a module subscribes to and what it is called for.                  *)

(* Ids and names of the event table correspond one to one; a module that   *)
(* has an id has the id of its own name.                                   *)
OwnNamed == \A m \in Modules : own[m] # NoId => own[m] + 1 \in DOMAIN events /\ NameOf(own[m]) = Own[m]

(* A chain has only modules with a trigger of its name.                    *)
Triggered(m, name) == \E j \in DOMAIN Triggers[m] : Triggers[m][j] = name
ChainsTriggered ==
    \A id \in Ids : \A k \in DOMAIN chains[id] :
        id + 1 \in DOMAIN events /\ Triggered(chains[id][k], NameOf(id))

TablesAgree == IsInjective(events) /\ OwnNamed /\ ChainsTriggered

(* The names a call in progress is about: the one it dispatches, found in  *)
(* the event table, or the one the handler may publish.                    *)
About(f, table) == IF f.code = "dispatch" THEN {table[f.id + 1]} ELSE {EventEmits[f.module]} \ {NoName}

(* Calls nest: a call of run() is outermost, and whatever is called from a *)
(* dispatch is about names of lower rank.                                  *)
Nested(rank) ==
    \A j, k \in DOMAIN stack : j < k =>
        /\ stack[k].code # "run"
        /\ stack[j].code = "dispatch" => \A n \in About(stack[k], events) : rank[n] < rank[NameOf(stack[j].id)]

(* The places whose subscription is still to be entered, and the others.   *)
Pending == {p \in Places : phase = "load" /\ trigger > 0 /\ p[1] = at /\ trigger <= p[2]}
Entered(name) == Subscriptions(name) \ Pending

(* While loading goes well, the chain of an id has the modules of the      *)
(* places entered so far, and a name without id has no such place.         *)
ChainsListed ==
    phase # "killed" /\ fault # "chainOutOfBounds" =>
        \A name \in Names :
            /\ \A id \in Ids : id + 1 \in DOMAIN events /\ NameOf(id) = name => Lists(chains[id], Entered(name))
            /\ name \notin Range(events) => Entered(name) = {}

(* A dispatch in progress has called the front of its chain.               *)
CalledFront ==
    \A k \in DOMAIN stack : stack[k].code = "dispatch" =>
        LET f == stack[k] IN
        /\ f.next <= Len(chains[f.id]) + 1
        /\ Len(f.called) = f.next - 1
        /\ \A i \in 1 .. f.next - 1 : f.called[i] = chains[f.id][i]

(* Nothing is dispatched before all modules are loaded.                    *)
Undispatched == phase \in {"config", "load", "init", "killed"} \/ fault = "chainOutOfBounds" => dispatched.name = NoName
-----------------------------------------------------------------------------
(* The event table and what points into it.                                *)

(* The id returned for a name is the place of that name in the table left, *)
(* and all names keep their places.                                        *)
LEMMA IdOfName ==
  ASSUME NEW name \in Names, events \in Seq(Names), Len(events) <= MaxEvents
  PROVE  /\ RegisteredId(name) # NoId =>
               /\ RegisteredId(name) + 1 \in DOMAIN EventsWith(name)
               /\ EventsWith(name)[RegisteredId(name) + 1] = name
         /\ \A k \in DOMAIN events : k \in DOMAIN EventsWith(name) /\ EventsWith(name)[k] = events[k]
         /\ \A k \in DOMAIN EventsWith(name) :
               k \in DOMAIN events \/ (EventsWith(name)[k] = name /\ name \notin Range(events) /\ k = Len(events) + 1)
         /\ RegisteredId(name) = NoId => name \notin Range(events) /\ EventsWith(name) = events
         /\ IsInjective(events) => IsInjective(EventsWith(name))
<1>1. MaxEvents \in Nat \ {0} /\ Len(events) \in Nat /\ NoId = -1 /\ DOMAIN events = 1 .. Len(events)
  BY EventsAssumption DEF NoId
<1>2. CASE name \in Range(events)
  <2>. DEFINE k == CHOOSE k \in DOMAIN events : events[k] = name
  <2>1. \E j \in DOMAIN events : events[j] = name
    BY <1>2 DEF Range
  <2>2. k \in DOMAIN events /\ events[k] = name
    BY <2>1
  <2>3. EventsWith(name) = events /\ RegisteredId(name) = k - 1
    BY <1>2 DEF EventsWith, RegisteredId
  <2>. HIDE DEF k
  <2>4. k - 1 + 1 = k /\ k - 1 # -1
    BY <1>1, <2>2
  <2>. QED BY <1>1, <2>2, <2>3, <2>4
<1>3. CASE name \notin Range(events) /\ Len(events) >= MaxEvents
  <2>1. EventsWith(name) = events /\ RegisteredId(name) = NoId
    BY <1>3 DEF EventsWith, RegisteredId
  <2>. QED BY <1>3, <2>1
<1>4. CASE name \notin Range(events) /\ Len(events) < MaxEvents
  <2>0. ~(Len(events) >= MaxEvents) /\ ~(name \in Range(events))
    BY <1>1, <1>4
  <2>1. EventsWith(name) = Append(events, name) /\ RegisteredId(name) = Len(events)
    BY <2>0 DEF EventsWith, RegisteredId
  <2>2. /\ DOMAIN Append(events, name) = 1 .. Len(events) + 1
        /\ \A k \in 1 .. Len(events) : Append(events, name)[k] = events[k]
        /\ Append(events, name)[Len(events) + 1] = name
    OBVIOUS
  <2>3. \A k \in 1 .. Len(events) + 1 : k \in 1 .. Len(events) \/ k = Len(events) + 1
    BY <1>1
  <2>4. \A k \in DOMAIN events : events[k] # name
    BY <1>4 DEF Range
  <2>5. IsInjective(events) => IsInjective(EventsWith(name))
    BY <1>1, <2>1, <2>2, <2>3, <2>4 DEF IsInjective
  <2>6. Len(events) + 1 \in 1 .. Len(events) + 1 /\ Len(events) # -1
    BY <1>1
  <2>. QED BY <1>1, <1>4, <2>1, <2>2, <2>3, <2>5, <2>6
<1>. QED
  BY <1>1, <1>2, <1>3, <1>4

(* Of all steps three touch the tables: a module registers its event,      *)
(* subscribes to one, or publishes one.                                    *)
LEMMA TableSteps ==
  ASSUME [Next]_vars
  PROVE  UNCHANGED tables \/ PreInit \/ Subscribe \/ Publish
<1>1. CASE UNCHANGED vars
  BY <1>1 DEF vars, tables
<1>2. CASE Next
  <2>1. CASE Load
    BY <2>1 DEF Load, ReadConfig, SkipModule, AddModule, LoadDone
  <2>2. CASE InitModules
    BY <2>2 DEF InitModules, InitModule, InitFails, InitDone
  <2>3. CASE Run
    BY <2>3 DEF Run, StartRound, RunModule, EndRound, CallEvent, DispatchDone, ReturnFromModule
  <2>4. CASE CleanAll
    BY <2>4 DEF CleanAll, UnloadModule, UnloadDone
  <2>5. CASE Sigint
    BY <2>5 DEF Sigint
  <2>. QED BY <1>2, <2>1, <2>2, <2>3, <2>4, <2>5 DEF Next, EngineStep
<1>. QED
  BY <1>1, <1>2

(* What a publishing module publishes is a name, with the id of it.        *)
LEMMA Publishing ==
  ASSUME Inv, OwnNamed, Publish
  PROVE  /\ stack # << >> /\ Top \in GoodFrames /\ Top.code \in {"run", "event"} /\ Top.module \in Modules
         /\ \E name \in Names, id \in Ids \cup {NoId} :
               /\ Top.code = "event" => name \in About(Top, events)
               /\ events' = events \/ events' = EventsWith(name)
               /\ id # NoId => id + 1 \in DOMAIN events' /\ events'[id + 1] = name
               /\ stack' = LET here == Push(Below, [Top EXCEPT !.sent = @ + 1])
                           IN  IF id \in Ids THEN Push(here, DispatchFrame(id)) ELSE here
               /\ UNCHANGED <<phase, at, trigger, registered, status, chains, own, dispatched, fault>>
<1>1. stack \in Seq(GoodFrames) /\ stack # << >> /\ Top.code \in {"run", "event"}
  BY StackOfGood DEF Inv, TypeOK, Publish, InModule
<1>2. Top \in GoodFrames
  BY <1>1, Returning
<1>3. Top \in [code : {"run", "event"}, module : Modules, sent : 0 .. MaxPublish + 1]
  BY <1>1, <1>2, FrameKinds
<1>4. PICK name \in MayPublish :
        LET isOwn == name = Own[Top.module]
            id    == IF isOwn THEN own[Top.module] ELSE RegisteredId(name)
            here  == Push(Below, [Top EXCEPT !.sent = @ + 1])
        IN  /\ events' = IF isOwn THEN events ELSE EventsWith(name)
            /\ stack' = IF id \in Ids THEN Push(here, DispatchFrame(id)) ELSE here
  BY DEF Publish
<1>. DEFINE isOwn == name = Own[Top.module]
            id    == IF isOwn THEN own[Top.module] ELSE RegisteredId(name)
            here  == Push(Below, [Top EXCEPT !.sent = @ + 1])
<1>5. /\ events' = IF isOwn THEN events ELSE EventsWith(name)
      /\ stack' = IF id \in Ids THEN Push(here, DispatchFrame(id)) ELSE here
      /\ UNCHANGED <<phase, at, trigger, registered, status, chains, own, dispatched, fault>>
  BY <1>4 DEF Publish
<1>6. name \in Names /\ (Top.code = "event" => name \in About(Top, events))
  <2>1. CASE Top.code = "run"
    BY <1>3, <2>1, ModulesAssumption DEF MayPublish
  <2>2. CASE Top.code = "event"
    BY <1>3, <2>2, ModulesAssumption DEF MayPublish, About
  <2>. QED BY <1>1, <2>1, <2>2
<1>7. id \in Ids \cup {NoId} /\ (id # NoId => id + 1 \in DOMAIN events' /\ events'[id + 1] = name)
  <2>1. CASE isOwn
    <3>1. id = own[Top.module] /\ events' = events /\ name = Own[Top.module] /\ Top.module \in Modules
      BY <1>3, <1>5, <2>1
    <3>. HIDE DEF id
    <3>. QED BY <3>1 DEF OwnNamed, NameOf, Inv, TypeOK
  <2>2. CASE ~isOwn
    <3>1. id = RegisteredId(name) /\ events' = EventsWith(name)
      BY <1>5, <2>2
    <3>. HIDE DEF id
    <3>. QED BY <1>6, <3>1, Registering, IdOfName DEF Inv, TypeOK
  <2>. QED BY <2>1, <2>2
<1>8. events' = events \/ events' = EventsWith(name)
  BY <1>5
<1>. QED
  BY <1>1, <1>2, <1>3, <1>5, <1>6, <1>7, <1>8

(* Names keep their ids. *)
NamesStay ==
    \A id : id + 1 \in DOMAIN events => id + 1 \in DOMAIN events' /\ events'[id + 1] = events[id + 1]

LEMMA NamesKeepIds ==
  ASSUME Inv, OwnNamed, [Next]_vars
  PROVE  NamesStay
<1>1. CASE UNCHANGED events
  BY <1>1 DEF NamesStay
<1>2. ASSUME NEW name \in Names, events' = EventsWith(name) PROVE NamesStay
  BY <1>2, IdOfName DEF NamesStay, Inv, TypeOK
<1>3. CASE PreInit
  <2>1. at \in 1 .. Len(LoadOrder) /\ Loading \in Modules /\ Own[Loading] \in Names \cup {NoName}
    BY <1>3, ModulesAssumption DEF PreInit, Inv, Lifecycle, LoadingInOrder, Loading
  <2>. QED BY <1>1, <1>2, <1>3, <2>1 DEF PreInit, tables
<1>4. CASE Subscribe
  <2>1. at \in 1 .. Len(LoadOrder) /\ Loading \in Modules /\ trigger \in DOMAIN Triggers[Loading]
    BY <1>4, ModulesAssumption DEF Subscribe, Inv, Lifecycle, LoadingInOrder, Loading
  <2>2. Triggers[Loading][trigger] \in Names
    BY <2>1, ModulesAssumption
  <2>. QED BY <1>2, <1>4, <2>2 DEF Subscribe
<1>5. CASE Publish
  BY <1>1, <1>2, <1>5, Publishing
<1>. QED
  BY <1>1, <1>3, <1>4, <1>5, TableSteps DEF tables

(* An event in the table that is left to the table's owners.               *)
LEMMA TablesStillAgree ==
  ASSUME Inv, TablesAgree, [Next]_vars
  PROVE  TablesAgree'
<1>. USE DEF TablesAgree
<1>0. NamesStay
  BY NamesKeepIds
<1>1. ASSUME NEW name \in Names, events' = EventsWith(name) PROVE IsInjective(events)'
  BY <1>1, IdOfName DEF Inv, TypeOK
<1>2. UNCHANGED own => OwnNamed'
  <2>. SUFFICES ASSUME UNCHANGED own PROVE OwnNamed'
    OBVIOUS
  <2>. QED BY <1>0 DEF OwnNamed, NamesStay, NameOf
<1>3. UNCHANGED chains => ChainsTriggered'
  <2>. SUFFICES ASSUME UNCHANGED chains PROVE ChainsTriggered'
    OBVIOUS
  <2>. QED BY <1>0 DEF ChainsTriggered, NamesStay, NameOf
<1>4. CASE UNCHANGED tables
  BY <1>2, <1>3, <1>4 DEF tables
<1>5. CASE PreInit
  <2>1. at \in 1 .. Len(LoadOrder) /\ Loading \in Modules /\ Own[Loading] \in Names \cup {NoName}
    BY <1>5, ModulesAssumption DEF PreInit, Inv, Lifecycle, LoadingInOrder, Loading
  <2>2. CASE Own[Loading] = NoName
    BY <1>4, <1>5, <2>2 DEF PreInit
  <2>3. CASE Own[Loading] # NoName
    <3>1. /\ events' = EventsWith(Own[Loading]) /\ own' = [own EXCEPT ![Loading] = RegisteredId(Own[Loading])]
          /\ UNCHANGED chains /\ Own[Loading] \in Names
      BY <1>5, <2>1, <2>3 DEF PreInit
    <3>2. \A m \in Modules : own'[m] = IF m = Loading THEN RegisteredId(Own[Loading]) ELSE own[m]
      BY <3>1 DEF Inv, TypeOK
    <3>3. RegisteredId(Own[Loading]) # NoId =>
             RegisteredId(Own[Loading]) + 1 \in DOMAIN events' /\ events'[RegisteredId(Own[Loading]) + 1] = Own[Loading]
      BY <3>1, IdOfName DEF Inv, TypeOK
    <3>4. OwnNamed'
      <4>. SUFFICES ASSUME NEW m \in Modules, own'[m] # NoId
                    PROVE  own'[m] + 1 \in DOMAIN events' /\ events'[own'[m] + 1] = Own[m]
        BY DEF OwnNamed, NameOf
      <4>1. CASE m = Loading
        BY <3>2, <3>3, <4>1
      <4>2. CASE m # Loading
        BY <1>0, <3>2, <4>2 DEF OwnNamed, NamesStay, NameOf
      <4>. QED BY <4>1, <4>2
    <3>. QED BY <1>1, <1>3, <3>1, <3>4
  <2>. QED BY <2>2, <2>3
<1>6. CASE Subscribe
  <2>. DEFINE name == Triggers[Loading][trigger]
              id   == RegisteredId(name)
  <2>1. at \in 1 .. Len(LoadOrder) /\ Loading \in Modules /\ trigger \in DOMAIN Triggers[Loading]
    BY <1>6, ModulesAssumption DEF Subscribe, Inv, Lifecycle, LoadingInOrder, Loading
  <2>2. name \in Names /\ Triggered(Loading, name)
    BY <2>1, ModulesAssumption DEF Triggered
  <2>3. /\ events' = EventsWith(name) /\ UNCHANGED own
        /\ \/ id = NoId /\ UNCHANGED chains
           \/ id # NoId /\ chains' = [chains EXCEPT ![id] = Append(@, Loading)]
    BY <1>6 DEF Subscribe
  <2>4. id \in Ids \cup {NoId} /\ (id # NoId => id + 1 \in DOMAIN events' /\ events'[id + 1] = name)
    BY <2>2, <2>3, Registering, IdOfName DEF Inv, TypeOK
  <2>. HIDE DEF name, id
  <2>5. ASSUME id # NoId, chains' = [chains EXCEPT ![id] = Append(@, Loading)] PROVE ChainsTriggered'
    <3>. SUFFICES ASSUME NEW i \in Ids, NEW k \in DOMAIN chains'[i]
                  PROVE  i + 1 \in DOMAIN events' /\ Triggered(chains'[i][k], events'[i + 1])
      BY DEF ChainsTriggered, NameOf, Triggered
    <3>1. chains[i] \in Seq(Modules) /\ chains'[i] = IF i = id THEN Append(chains[i], Loading) ELSE chains[i]
      BY <2>5 DEF Inv, TypeOK
    <3>2. CASE k \in DOMAIN chains[i] /\ chains'[i][k] = chains[i][k]
      BY <1>0, <3>2 DEF ChainsTriggered, NamesStay, NameOf
    <3>3. CASE i = id /\ chains'[i][k] = Loading
      BY <2>2, <2>4, <2>5, <3>3
    <3>4. k \in DOMAIN chains[i] \/ (i = id /\ k = Len(chains[i]) + 1)
      BY <3>1
    <3>5. i = id => Append(chains[i], Loading)[Len(chains[i]) + 1] = Loading
                     /\ \A l \in DOMAIN chains[i] : Append(chains[i], Loading)[l] = chains[i][l]
      BY <3>1
    <3>. QED BY <3>1, <3>2, <3>3, <3>4, <3>5
  <2>. QED BY <1>1, <1>2, <1>3, <2>2, <2>3, <2>5
<1>7. CASE Publish
  <2>1. UNCHANGED <<own, chains>>
    BY <1>7 DEF Publish
  <2>2. IsInjective(events)'
    BY <1>1, <1>7, Publishing
  <2>. QED BY <1>2, <1>3, <2>1, <2>2
<1>. QED
  BY <1>4, <1>5, <1>6, <1>7, TableSteps

-----------------------------------------------------------------------------
(* The call stack: what a step leaves, pushes and pops.                    *)

LEMMA Pushed ==
  ASSUME NEW S, stack \in Seq(S), stack # << >>, NEW mine, NEW f
  PROVE  LET here == Push(Below, mine)
         IN  /\ Len(here) = Len(stack) /\ Len(Push(here, f)) = Len(stack) + 1
             /\ \A k \in 1 .. Len(stack) - 1 : here[k] = stack[k] /\ Push(here, f)[k] = stack[k]
             /\ here[Len(stack)] = mine /\ Push(here, f)[Len(stack)] = mine
             /\ Push(here, f)[Len(stack) + 1] = f
<1>. DEFINE n == Len(stack)
            T == S \cup {mine, f}
            here == Append(Below, mine)
<1>1. n \in Nat \ {0} /\ Below \in Seq(S) /\ Len(Below) = n - 1 /\ \A k \in 1 .. n - 1 : Below[k] = stack[k]
  BY Returning
<1>2. Below \in Seq(T)
  BY <1>1, SeqOfMore
<1>. HIDE DEF n
<1>3. /\ here \in Seq(T) /\ Len(here) = n /\ here[n] = mine
      /\ \A k \in 1 .. n - 1 : here[k] = Below[k]
  BY <1>1, <1>2
<1>. HIDE DEF here, T
<1>4. /\ Len(Append(here, f)) = n + 1 /\ Append(here, f)[n + 1] = f
      /\ \A k \in 1 .. n : Append(here, f)[k] = here[k]
  BY <1>1, <1>3
<1>5. \A k \in 1 .. n - 1 : k \in 1 .. n
  BY <1>1
<1>6. n \in 1 .. n
  BY <1>1
<1>. QED
  BY <1>1, <1>3, <1>4, <1>5, <1>6 DEF here, n, Push

(* The steps that change the call stack.                                   *)
LEMMA StackSteps ==
  ASSUME [Next]_vars
  PROVE  \/ UNCHANGED stack
         \/ stack = << >> /\ (stack' = << >> \/ \E m : stack' = <<RunFrame(m)>>)
         \/ stack # << >> /\ stack' = Below
         \/ Publish
         \/ CallEvent
<1>1. CASE UNCHANGED vars
  BY <1>1 DEF vars
<1>2. CASE Next
  <2>1. CASE Load
    BY <2>1 DEF Load, ReadConfig, SkipModule, PreInit, Subscribe, AddModule, LoadDone
  <2>2. CASE InitModules
    BY <2>2 DEF InitModules, InitModule, InitFails, InitDone
  <2>3. CASE Run
    BY <2>3 DEF Run, StartRound, RunModule, EndRound, DispatchDone, InDispatch, ReturnFromModule, InModule
  <2>4. CASE CleanAll
    BY <2>4 DEF CleanAll, UnloadModule, UnloadDone
  <2>5. CASE Sigint
    BY <2>5 DEF Sigint
  <2>. QED BY <1>2, <2>1, <2>2, <2>3, <2>4, <2>5 DEF Next, EngineStep
<1>. QED
  BY <1>1, <1>2

(* What run_callback_func is about to call.                                *)
LEMMA Calling ==
  ASSUME Inv, CallEvent
  PROVE  /\ stack # << >> /\ Top \in GoodFrames /\ Top.code = "dispatch" /\ Top.id \in Ids
         /\ Top.id + 1 \in DOMAIN events /\ NameOf(Top.id) \in Names
         /\ Top.next \in Nat \ {0} /\ Top.called \in Seq(Modules)
         /\ Top.next \in DOMAIN chains[Top.id] /\ chains[Top.id] \in Seq(Modules)
         /\ UNCHANGED <<phase, at, trigger, registered, status, tables, dispatched>>
         /\ LET m    == chains[Top.id][Top.next]
                here == Push(Below, [Top EXCEPT !.next = @ + 1, !.called = Append(@, m)])
            IN  \/ UNCHANGED stack /\ fault' = "freedModuleCalled"
                \/ stack' = Push(here, EventFrame(m)) /\ UNCHANGED fault
<1>1. stack \in Seq(GoodFrames) /\ stack # << >> /\ Top.code = "dispatch"
  BY StackOfGood DEF Inv, TypeOK, CallEvent, InDispatch
<1>2. Top \in GoodFrames
  BY <1>1, Returning
<1>3. /\ Top \in [code : {"dispatch"}, id : Ids, next : Nat \ {0}, called : Seq(Modules)]
      /\ Top.id < Len(events)
  BY <1>1, <1>2, FrameKinds
<1>4. Top.id + 1 \in DOMAIN events
  BY <1>3, EventsAssumption DEF Ids, Inv, TypeOK
<1>5. Top.next \in DOMAIN chains[Top.id] /\ chains[Top.id] \in Seq(Modules)
  BY <1>3 DEF CallEvent, Inv, TypeOK
<1>6. NameOf(Top.id) \in Names
  BY <1>4 DEF NameOf, Inv, TypeOK
<1>. QED
  BY <1>1, <1>2, <1>3, <1>4, <1>5, <1>6 DEF CallEvent

-----------------------------------------------------------------------------
(* Events nest no deeper than their rank. *)

(* A frame that was only advanced is about the same as before.             *)
Alike(f, g) ==
    /\ f.code = g.code
    /\ f.code = "dispatch" => f.id = g.id
    /\ f.code # "dispatch" => f.module = g.module

LEMMA NestedBelow ==
  ASSUME NEW rank, Inv, NamesStay, Nested(rank), stack' \in Seq(Frames),
         NEW n \in Nat, n <= Len(stack), n <= Len(stack'), \A k \in 1 .. n : Alike(stack'[k], stack[k])
  PROVE  \A j, k \in 1 .. n : j < k =>
            /\ stack'[k].code # "run"
            /\ stack'[j].code = "dispatch" =>
                  \A name \in About(stack'[k], events') : rank[name] < rank[events'[stack'[j].id + 1]]
<1>. SUFFICES ASSUME NEW j \in 1 .. n, NEW k \in 1 .. n, j < k
              PROVE  /\ stack'[k].code # "run"
                     /\ stack'[j].code = "dispatch" =>
                          \A name \in About(stack'[k], events') : rank[name] < rank[events'[stack'[j].id + 1]]
  OBVIOUS
<1>1. Len(stack) \in Nat /\ j \in DOMAIN stack /\ k \in DOMAIN stack
  BY DEF Inv, TypeOK
<1>2. \A i \in DOMAIN stack : stack[i].code = "dispatch" =>
         stack[i].id + 1 \in DOMAIN events /\ events'[stack[i].id + 1] = NameOf(stack[i].id)
  <2>. SUFFICES ASSUME NEW i \in DOMAIN stack, stack[i].code = "dispatch"
                PROVE  stack[i].id + 1 \in DOMAIN events
    BY DEF NamesStay, NameOf
  <2>1. stack[i] \in GoodFrames
    BY DEF Inv, FramesGood
  <2>2. stack[i].id \in Ids /\ stack[i].id < Len(events)
    BY <2>1, FrameKinds
  <2>. QED BY <2>2, EventsAssumption DEF Ids, Inv, TypeOK
<1>3. About(stack'[k], events') = About(stack[k], events)
  <2>1. CASE stack[k].code = "dispatch"
    BY <1>1, <1>2, <2>1 DEF About, Alike, NameOf
  <2>2. CASE stack[k].code # "dispatch"
    BY <2>2 DEF About, Alike
  <2>. QED BY <2>1, <2>2
<1>4. stack'[j].code = "dispatch" => events'[stack'[j].id + 1] = NameOf(stack[j].id) /\ stack[j].code = "dispatch"
  BY <1>1, <1>2 DEF Alike
<1>. QED
  BY <1>1, <1>3, <1>4 DEF Nested, Alike

(* A step that only advances frames, or drops the innermost.               *)
LEMMA NestedKept ==
  ASSUME NEW rank, Inv, NamesStay, Nested(rank), stack' \in Seq(Frames), Len(stack') <= Len(stack),
         \A k \in 1 .. Len(stack') : Alike(stack'[k], stack[k])
  PROVE  Nested(rank)'
<1>1. Len(stack) \in Nat /\ Len(stack') \in Nat /\ DOMAIN stack' = 1 .. Len(stack')
  BY DEF Inv, TypeOK
<1>2. \A j, k \in 1 .. Len(stack') : j < k =>
         /\ stack'[k].code # "run"
         /\ stack'[j].code = "dispatch" =>
               \A name \in About(stack'[k], events') : rank[name] < rank[events'[stack'[j].id + 1]]
  BY <1>1, NestedBelow
<1>. QED
  BY <1>1, <1>2 DEF Nested, NameOf

(* A step that calls something about names of lower rank than all the      *)
(* dispatches in progress.                                                 *)
LEMMA NestedPushed ==
  ASSUME NEW rank, Inv, NamesStay, Nested(rank), stack' \in Seq(Frames), Len(stack') = Len(stack) + 1,
         \A k \in 1 .. Len(stack) : Alike(stack'[k], stack[k]),
         stack'[Len(stack) + 1].code # "run",
         \A j \in 1 .. Len(stack) : stack[j].code = "dispatch" =>
            \A name \in About(stack'[Len(stack) + 1], events') : rank[name] < rank[NameOf(stack[j].id)]
  PROVE  Nested(rank)'
<1>. DEFINE n == Len(stack)
<1>1. n \in Nat /\ DOMAIN stack' = 1 .. n + 1 /\ \A k \in 1 .. n + 1 : k \in 1 .. n \/ k = n + 1
  BY DEF Inv, TypeOK
<1>2. \A j, k \in 1 .. n : j < k =>
         /\ stack'[k].code # "run"
         /\ stack'[j].code = "dispatch" =>
               \A name \in About(stack'[k], events') : rank[name] < rank[events'[stack'[j].id + 1]]
  BY <1>1, NestedBelow
<1>3. \A j \in 1 .. n : stack'[j].code = "dispatch" =>
         stack[j].code = "dispatch" /\ events'[stack'[j].id + 1] = NameOf(stack[j].id)
  <2>. SUFFICES ASSUME NEW j \in 1 .. n, stack'[j].code = "dispatch"
                PROVE  stack[j].code = "dispatch" /\ events'[stack'[j].id + 1] = NameOf(stack[j].id)
    OBVIOUS
  <2>1. stack[j].code = "dispatch" /\ stack'[j].id = stack[j].id
    BY DEF Alike
  <2>2. stack[j] \in GoodFrames
    BY DEF Inv, FramesGood, TypeOK
  <2>3. stack[j].id \in Ids /\ stack[j].id < Len(events)
    BY <2>1, <2>2, FrameKinds
  <2>4. stack[j].id + 1 \in DOMAIN events
    BY <2>3, EventsAssumption DEF Ids, Inv, TypeOK
  <2>. QED BY <2>1, <2>4 DEF NamesStay, NameOf
<1>4. SUFFICES ASSUME NEW j \in 1 .. n + 1, NEW k \in 1 .. n + 1, j < k
               PROVE  /\ stack'[k].code # "run"
                      /\ stack'[j].code = "dispatch" =>
                           \A name \in About(stack'[k], events') : rank[name] < rank[events'[stack'[j].id + 1]]
  BY <1>1 DEF Nested, NameOf
<1>5. j \in 1 .. n
  BY <1>1, <1>4
<1>6. CASE k \in 1 .. n
  BY <1>2, <1>4, <1>5, <1>6
<1>7. CASE k = n + 1
  BY <1>3, <1>5, <1>7
<1>. QED
  BY <1>1, <1>6, <1>7

LEMMA NestedStep ==
  ASSUME NEW rank \in [Names -> Nat], Descends(rank),
         Inv, Inv', TablesAgree, Nested(rank), [Next]_vars
  PROVE  Nested(rank)'
<1>1. NamesStay
  BY NamesKeepIds DEF TablesAgree
<1>2. stack \in Seq(Frames) /\ stack' \in Seq(Frames) /\ Len(stack) \in Nat
  BY DEF Inv, TypeOK
<1>3. \A f : Alike(f, f)
  BY DEF Alike
<1>4. CASE UNCHANGED stack
  BY <1>1, <1>2, <1>3, <1>4, NestedKept
<1>5. ASSUME stack = << >>, stack' = << >> \/ \E m : stack' = <<RunFrame(m)>> PROVE Nested(rank)'
  <2>1. Len(stack') \in 0 .. 1
    BY <1>5
  <2>. QED BY <1>2, <2>1 DEF Nested
<1>6. ASSUME stack # << >>, stack' = Below PROVE Nested(rank)'
  <2>1. Len(stack') = Len(stack) - 1 /\ \A k \in 1 .. Len(stack) - 1 : stack'[k] = stack[k]
    BY <1>2, <1>6, Returning
  <2>2. Len(stack') <= Len(stack) /\ \A k \in 1 .. Len(stack') : Alike(stack'[k], stack[k])
    BY <1>2, <1>3, <2>1
  <2>. QED BY <1>1, <1>2, <2>2, NestedKept
<1>7. ASSUME Publish PROVE Nested(rank)'
  <2>1. /\ stack # << >> /\ Top \in GoodFrames /\ Top.code \in {"run", "event"}
    BY <1>7, Publishing DEF TablesAgree
  <2>2. PICK name \in Names, id \in Ids \cup {NoId} :
               /\ Top.code = "event" => name \in About(Top, events)
               /\ id # NoId => id + 1 \in DOMAIN events' /\ events'[id + 1] = name
               /\ stack' = LET here == Push(Below, [Top EXCEPT !.sent = @ + 1])
                           IN  IF id \in Ids THEN Push(here, DispatchFrame(id)) ELSE here
    BY <1>7, Publishing DEF TablesAgree
  <2>. DEFINE mine == [Top EXCEPT !.sent = @ + 1]
              here == Push(Below, mine)
  <2>3. Alike(mine, Top)
    <3>1. Top \in [code : {"run", "event"}, module : Modules, sent : 0 .. MaxPublish + 1]
      BY <2>1, FrameKinds
    <3>. QED BY <3>1 DEF Alike
  <2>4. stack' = IF id \in Ids THEN Push(here, DispatchFrame(id)) ELSE here
    BY <2>2
  <2>. HIDE DEF mine
  <2>5. /\ Len(here) = Len(stack) /\ Len(Push(here, DispatchFrame(id))) = Len(stack) + 1
        /\ \A k \in 1 .. Len(stack) - 1 : here[k] = stack[k] /\ Push(here, DispatchFrame(id))[k] = stack[k]
        /\ here[Len(stack)] = mine /\ Push(here, DispatchFrame(id))[Len(stack)] = mine
        /\ Push(here, DispatchFrame(id))[Len(stack) + 1] = DispatchFrame(id)
    BY <1>2, <2>1, Pushed
  <2>. HIDE DEF here
  <2>6. \A k \in 1 .. Len(stack) : k = Len(stack) \/ k \in 1 .. Len(stack) - 1
    BY <1>2
  <2>7. CASE id \notin Ids
    <3>0. Len(stack') = Len(stack) /\ \A k \in 1 .. Len(stack) : stack'[k] = IF k = Len(stack) THEN mine ELSE stack[k]
      BY <1>2, <2>4, <2>5, <2>6, <2>7
    <3>1. Len(stack') <= Len(stack) /\ \A k \in 1 .. Len(stack') : Alike(stack'[k], stack[k])
      BY <1>2, <1>3, <2>3, <3>0 DEF Top
    <3>. QED BY <1>1, <1>2, <3>1, NestedKept
  <2>8. CASE id \in Ids
    <3>1. Len(stack') = Len(stack) + 1 /\ \A k \in 1 .. Len(stack) : Alike(stack'[k], stack[k])
      BY <1>2, <1>3, <2>3, <2>4, <2>5, <2>6, <2>8 DEF Top
    <3>2. stack'[Len(stack) + 1] = DispatchFrame(id)
      BY <2>4, <2>5, <2>8
    <3>3. id # NoId
      BY <2>8, EventsAssumption DEF Ids, NoId
    <3>4. DispatchFrame(id).code # "run" /\ About(DispatchFrame(id), events') = {name}
      BY <2>2, <3>3 DEF DispatchFrame, About
    <3>5. ASSUME NEW j \in 1 .. Len(stack), stack[j].code = "dispatch"
          PROVE  rank[name] < rank[NameOf(stack[j].id)]
      <4>1. j < Len(stack) /\ j \in DOMAIN stack /\ Len(stack) \in DOMAIN stack
        BY <1>2, <2>1, <2>6, <3>5 DEF Top
      <4>2. stack[Len(stack)].code # "run"
        BY <4>1 DEF Nested
      <4>3. name \in About(stack[Len(stack)], events)
        BY <2>1, <2>2, <4>2 DEF Top
      <4>. QED BY <3>5, <4>1, <4>3 DEF Nested
    <3>. QED BY <1>1, <1>2, <3>1, <3>2, <3>4, <3>5, NestedPushed
  <2>. QED BY <2>7, <2>8
<1>8. ASSUME CallEvent PROVE Nested(rank)'
  <2>. DEFINE m    == chains[Top.id][Top.next]
              mine == [Top EXCEPT !.next = @ + 1, !.called = Append(@, m)]
              here == Push(Below, mine)
  <2>1. /\ stack # << >> /\ Top \in GoodFrames /\ Top.code = "dispatch" /\ Top.id \in Ids
        /\ Top.id + 1 \in DOMAIN events /\ NameOf(Top.id) \in Names
        /\ Top.next \in DOMAIN chains[Top.id] /\ chains[Top.id] \in Seq(Modules)
        /\ UNCHANGED tables
        /\ UNCHANGED stack \/ stack' = Push(here, EventFrame(m))
    BY <1>8, Calling
  <2>2. m \in Modules /\ Triggered(m, NameOf(Top.id))
    BY <2>1 DEF TablesAgree, ChainsTriggered
  <2>3. Alike(mine, Top)
    <3>1. Top \in [code : {"dispatch"}, id : Ids, next : Nat \ {0}, called : Seq(Modules)]
      BY <2>1, FrameKinds
    <3>. QED BY <3>1 DEF Alike
  <2>4. CASE stack' = Push(here, EventFrame(m))
    <3>. HIDE DEF mine, m
    <3>1. /\ Len(Push(here, EventFrame(m))) = Len(stack) + 1
          /\ \A k \in 1 .. Len(stack) - 1 : Push(here, EventFrame(m))[k] = stack[k]
          /\ Push(here, EventFrame(m))[Len(stack)] = mine
          /\ Push(here, EventFrame(m))[Len(stack) + 1] = EventFrame(m)
      BY <1>2, <2>1, Pushed
    <3>. HIDE DEF here
    <3>2. \A k \in 1 .. Len(stack) : k = Len(stack) \/ k \in 1 .. Len(stack) - 1
      BY <1>2
    <3>3. Len(stack') = Len(stack) + 1 /\ \A k \in 1 .. Len(stack) : Alike(stack'[k], stack[k])
      BY <1>2, <1>3, <2>3, <2>4, <3>1, <3>2 DEF Top
    <3>4. EventFrame(m).code # "run" /\ About(EventFrame(m), events') = {EventEmits[m]} \ {NoName}
      BY DEF EventFrame, About
    <3>5. EventEmits[m] # NoName => rank[EventEmits[m]] < rank[NameOf(Top.id)] /\ EventEmits[m] \in Names
      BY <2>2, ModulesAssumption DEF Descends, Triggered
    <3>6. ASSUME NEW j \in 1 .. Len(stack), stack[j].code = "dispatch", EventEmits[m] # NoName
          PROVE  rank[EventEmits[m]] < rank[NameOf(stack[j].id)]
      <4>1. CASE j = Len(stack)
        BY <3>5, <3>6, <4>1 DEF Top
      <4>2. CASE j # Len(stack)
        <5>1. j < Len(stack) /\ j \in DOMAIN stack /\ Len(stack) \in DOMAIN stack
          BY <1>2, <4>2
        <5>2. About(Top, events) = {NameOf(Top.id)}
          BY <2>1 DEF About, NameOf
        <5>3. rank[NameOf(Top.id)] < rank[NameOf(stack[j].id)]
          BY <3>6, <5>1, <5>2 DEF Nested, Top
        <5>4. stack[j] \in GoodFrames
          BY <5>1 DEF Inv, FramesGood
        <5>5. stack[j].id \in Ids /\ stack[j].id < Len(events)
          BY <3>6, <5>4, FrameKinds
        <5>6. stack[j].id + 1 \in DOMAIN events
          BY <5>5, EventsAssumption DEF Ids, Inv, TypeOK
        <5>7. NameOf(stack[j].id) \in Names
          BY <5>6 DEF NameOf, Inv, TypeOK
        <5>8. rank[NameOf(stack[j].id)] \in Nat /\ rank[NameOf(Top.id)] \in Nat /\ rank[EventEmits[m]] \in Nat
          BY <2>1, <3>5, <3>6, <5>7
        <5>. QED BY <3>5, <3>6, <5>3, <5>8
      <4>. QED BY <4>1, <4>2
    <3>. QED BY <1>1, <1>2, <2>4, <3>1, <3>3, <3>4, <3>6, NestedPushed
  <2>. QED BY <1>4, <2>1, <2>4
<1>. QED
  BY <1>4, <1>5, <1>6, <1>7, <1>8, StackSteps

(* Where no event leads back to itself by way of its subscribers, no event *)
(* is dispatched again from inside its own dispatch.                       *)
THEOREM NoReentry ==
  ASSUME NEW rank \in [Names -> Nat], Descends(rank)
  PROVE  Spec => []NoReentrantDispatch
<1>. DEFINE NestInv == Inv /\ TablesAgree /\ Nested(rank)
<1>1. Init => NestInv
  <2>. SUFFICES ASSUME Init PROVE TablesAgree /\ Nested(rank)
    BY InitInv
  <2>. QED BY DEF Init, TablesAgree, IsInjective, OwnNamed, ChainsTriggered, Nested
<1>2. NestInv /\ [Next]_vars => NestInv'
  <2>. SUFFICES ASSUME NestInv, [Next]_vars PROVE NestInv'
    OBVIOUS
  <2>1. Inv'
    BY InvariantStep
  <2>2. TablesAgree'
    BY TablesStillAgree
  <2>3. Nested(rank)'
    BY <2>1, NestedStep
  <2>. QED BY <2>1, <2>2, <2>3
<1>3. NestInv => NoReentrantDispatch
  <2>. SUFFICES ASSUME NestInv,
                       \E j, k \in DOMAIN stack :
                          /\ stack[j].code = "dispatch" /\ stack[k].code = "dispatch"
                          /\ stack[j].id = stack[k].id /\ j # k
                PROVE  FALSE
    BY DEF NoReentrantDispatch
  <2>0. PICK j \in DOMAIN stack, k \in DOMAIN stack :
           j < k /\ stack[j].code = "dispatch" /\ stack[k].code = "dispatch" /\ stack[j].id = stack[k].id
    <3>1. \A j, k \in DOMAIN stack : j = k \/ j < k \/ k < j
      BY DEF Inv, TypeOK
    <3>. QED BY <3>1
  <2>1. About(stack[k], events) = {NameOf(stack[j].id)}
    BY <2>0 DEF About, NameOf
  <2>2. rank[NameOf(stack[j].id)] < rank[NameOf(stack[j].id)]
    BY <2>0, <2>1 DEF Nested
  <2>3. stack[j] \in GoodFrames
    BY DEF Inv, FramesGood
  <2>4. stack[j].id \in Ids /\ stack[j].id < Len(events)
    BY <2>0, <2>3, FrameKinds
  <2>5. stack[j].id + 1 \in DOMAIN events
    BY <2>4, EventsAssumption DEF Ids, Inv, TypeOK
  <2>6. rank[NameOf(stack[j].id)] \in Nat
    BY <2>5 DEF NameOf, Inv, TypeOK
  <2>. QED BY <2>2, <2>6
<1>. QED
  BY <1>1, <1>2, <1>3, PTL DEF Spec

-----------------------------------------------------------------------------
(* The chains list the subscriptions of the config file.                   *)

(* A place behind all others goes to the end of the list.                  *)
LEMMA ListsMore ==
  ASSUME NEW S, NEW seq \in Seq(Modules), Lists(seq, S), NEW p, \A q \in S : Before(q, p)
  PROVE  Lists(Append(seq, LoadOrder[p[1]]), S \cup {p})
<1>. DEFINE n   == Len(seq)
            all == Append(seq, LoadOrder[p[1]])
<1>1. PICK place \in [DOMAIN seq -> S] :
        /\ \A q \in S : \E k \in DOMAIN seq : place[k] = q
        /\ \A k, l \in DOMAIN seq : k < l => Before(place[k], place[l])
        /\ \A k \in DOMAIN seq : seq[k] = LoadOrder[place[k][1]]
  BY DEF Lists
<1>2. /\ n \in Nat /\ DOMAIN seq = 1 .. n /\ DOMAIN all = 1 .. n + 1
      /\ all[n + 1] = LoadOrder[p[1]] /\ \A k \in 1 .. n : all[k] = seq[k]
  OBVIOUS
<1>. HIDE DEF all, n
<1>. DEFINE more == [k \in 1 .. n + 1 |-> IF k = n + 1 THEN p ELSE place[k]]
<1>3. /\ n + 1 \in 1 .. n + 1
      /\ \A k \in 1 .. n + 1 : k = n + 1 \/ k \in 1 .. n
      /\ \A k \in 1 .. n : k \in 1 .. n + 1 /\ k # n + 1 /\ k < n + 1 /\ ~(n + 1 < k)
      /\ ~(n + 1 < n + 1)
  BY <1>2
<1>4. more[n + 1] = p /\ (\A k \in 1 .. n : more[k] = place[k] /\ place[k] \in S)
  BY <1>1, <1>2, <1>3
<1>5. more \in [1 .. n + 1 -> S \cup {p}]
  BY <1>1, <1>2, <1>3
<1>. HIDE DEF more
<1>6. \A q \in S \cup {p} : \E k \in 1 .. n + 1 : more[k] = q
  <2>. TAKE q \in S \cup {p}
  <2>1. CASE q = p
    BY <1>3, <1>4, <2>1
  <2>2. CASE q \in S
    BY <1>1, <1>2, <1>3, <1>4, <2>2
  <2>. QED BY <2>1, <2>2
<1>7. \A k, l \in 1 .. n + 1 : k < l => Before(more[k], more[l])
  <2>. SUFFICES ASSUME NEW k \in 1 .. n + 1, NEW l \in 1 .. n + 1, k < l PROVE Before(more[k], more[l])
    OBVIOUS
  <2>1. k \in 1 .. n
    BY <1>3
  <2>2. CASE l = n + 1
    BY <1>4, <2>1, <2>2
  <2>3. CASE l \in 1 .. n
    BY <1>1, <1>2, <1>4, <2>1, <2>3
  <2>. QED BY <1>3, <2>2, <2>3
<1>8. \A k \in 1 .. n + 1 : all[k] = LoadOrder[more[k][1]]
  <2>. TAKE k \in 1 .. n + 1
  <2>1. CASE k = n + 1
    BY <1>2, <1>4, <2>1
  <2>2. CASE k \in 1 .. n
    BY <1>1, <1>2, <1>4, <2>2
  <2>. QED BY <1>3, <2>1, <2>2
<1>9. DOMAIN all = 1 .. n + 1
  BY <1>2
<1>. DEFINE T == S \cup {p}
<1>10. Lists(all, T)
  <2>1. more \in [1 .. n + 1 -> T] /\ \A q \in T : \E k \in 1 .. n + 1 : more[k] = q
    BY <1>5, <1>6
  <2>. HIDE DEF T
  <2>2. \E f \in [1 .. n + 1 -> T] :
          /\ \A q \in T : \E k \in 1 .. n + 1 : f[k] = q
          /\ \A k, l \in 1 .. n + 1 : k < l => Before(f[k], f[l])
          /\ \A k \in 1 .. n + 1 : all[k] = LoadOrder[f[k][1]]
    BY <2>1, <1>7, <1>8, Zenon
  <2>3. PICK f \in [DOMAIN all -> T] :
          /\ \A q \in T : \E k \in DOMAIN all : f[k] = q
          /\ \A k, l \in DOMAIN all : k < l => Before(f[k], f[l])
          /\ \A k \in DOMAIN all : all[k] = LoadOrder[f[k][1]]
    BY ONLY <2>2, <1>9
  <2>. QED BY <2>3 DEF Lists
<1>. QED
  BY <1>10 DEF all

LEMMA ListsNone == Lists(<< >>, {})
<1>. DEFINE none == [k \in {} |-> k]
<1>1. DOMAIN << >> = {} /\ none \in [DOMAIN << >> -> {}]
  OBVIOUS
<1>. QED
  BY <1>1 DEF Lists

(* A place names a module of the load order and one of its triggers.       *)
LEMMA PlaceIs ==
  ASSUME NEW p \in Places
  PROVE  /\ p[1] \in DOMAIN LoadOrder /\ p[2] \in DOMAIN Triggers[LoadOrder[p[1]]]
         /\ p = <<p[1], p[2]>> /\ LoadOrder[p[1]] \in Modules /\ Loaded(LoadOrder[p[1]])
         /\ p[1] \in Nat /\ p[2] \in Nat
<1>1. PICK i \in DOMAIN LoadOrder : Loaded(LoadOrder[i]) /\ p \in PlacesOf(LoadOrder[i], i)
  BY DEF Places
<1>2. PICK j \in DOMAIN Triggers[LoadOrder[i]] : p = <<i, j>>
  BY <1>1 DEF PlacesOf
<1>3. LoadOrder[i] \in Modules /\ i \in Nat /\ Triggers[LoadOrder[i]] \in Seq(Names)
  BY ModulesAssumption
<1>4. j \in Nat
  BY <1>3
<1>. QED
  BY <1>1, <1>2, <1>3, <1>4

LEMMA IsPlace ==
  ASSUME NEW i \in DOMAIN LoadOrder, NEW j \in DOMAIN Triggers[LoadOrder[i]], Loaded(LoadOrder[i])
  PROVE  <<i, j>> \in Places
  BY DEF Places, PlacesOf

(* Only pre_init brings a module into the world, and nothing takes one out *)
(* of it: the places stay.                                                 *)
LEMMA PlacesStay ==
  ASSUME Inv, [Next]_vars, ~PreInit
  PROVE  UNCHANGED Places
<1>1. \A m \in Modules : Loaded(m)' <=> Loaded(m)
  <2>1. CASE UNCHANGED status
    BY <2>1 DEF Loaded
  <2>2. ASSUME NEW r \in Modules, NEW s \in {"ready", "freed"}, Loaded(r), status' = [status EXCEPT ![r] = s]
        PROVE  \A m \in Modules : Loaded(m)' <=> Loaded(m)
    <3>1. \A m \in Modules : status'[m] = IF m = r THEN s ELSE status[m]
      BY <2>2 DEF Inv, TypeOK
    <3>. QED BY <2>2, <3>1 DEF Loaded
  <2>3. CASE InitModule \/ InitFails \/ UnloadModule
    <3>1. at \in DOMAIN registered /\ registered[at] \in Modules /\ Loaded(registered[at])
      BY <2>3 DEF InitModule, InitFails, UnloadModule, Inv, Lifecycle, WalkedTo, TypeOK, Loaded
    <3>. QED BY <2>2, <2>3, <3>1 DEF InitModule, InitFails, UnloadModule
  <2>4. UNCHANGED status \/ InitModule \/ InitFails \/ UnloadModule
    <3>1. CASE UNCHANGED vars
      BY <3>1 DEF vars
    <3>2. CASE Load
      BY <3>2 DEF Load, ReadConfig, SkipModule, Subscribe, AddModule, LoadDone
    <3>3. CASE InitModules
      BY <3>3 DEF InitModules, InitDone
    <3>4. CASE Run
      BY <3>4 DEF Run, StartRound, RunModule, EndRound, Publish, CallEvent, DispatchDone, ReturnFromModule
    <3>5. CASE CleanAll
      BY <3>5 DEF CleanAll, UnloadDone
    <3>6. CASE Sigint
      BY <3>6 DEF Sigint
    <3>. QED BY <3>1, <3>2, <3>3, <3>4, <3>5, <3>6 DEF Next, EngineStep
  <2>. QED BY <2>1, <2>3, <2>4
<1>2. \A i \in DOMAIN LoadOrder : LoadOrder[i] \in Modules
  BY ModulesAssumption
<1>3. {i \in DOMAIN LoadOrder : Loaded(LoadOrder[i])}' = {i \in DOMAIN LoadOrder : Loaded(LoadOrder[i])}
  BY <1>1, <1>2
<1>. QED
  BY <1>3 DEF Places

(* A step other than PreInit and Subscribe enters no subscription and      *)
(* leaves none to be entered.                                              *)
LEMMA EnteredKept ==
  ASSUME Inv, [Next]_vars, ~PreInit, ~Subscribe, phase' # "killed", NEW name
  PROVE  Entered(name)' = Entered(name)
<1>1. UNCHANGED Places
  BY PlacesStay
<1>2. Subscriptions(name)' = Subscriptions(name)
  BY <1>1 DEF Subscriptions
<1>3. CASE UNCHANGED <<phase, at, trigger>>
  BY <1>1, <1>2, <1>3 DEF Entered, Pending
<1>4. CASE Pending = {} /\ Pending' = {}
  BY <1>2, <1>4 DEF Entered
<1>5. ASSUME phase # "load" \/ ~(trigger > 0), phase' # "load" \/ ~(trigger' > 0) PROVE Pending = {} /\ Pending' = {}
  BY <1>5 DEF Pending
<1>6. phase = "load" => LoadingInOrder
  BY DEF Inv, Lifecycle
<1>7. CASE AddModule
  <2>1. at \in 1 .. Len(LoadOrder) /\ Loading \in Modules /\ trigger > Len(Triggers[Loading]) /\ trigger' = 0
    BY <1>6, <1>7, ModulesAssumption DEF AddModule, LoadingInOrder, Loading
  <2>2. Len(Triggers[Loading]) \in Nat /\ DOMAIN Triggers[Loading] = 1 .. Len(Triggers[Loading]) /\ trigger \in Nat
    BY <2>1, ModulesAssumption DEF Inv, TypeOK
  <2>3. ASSUME NEW p \in Places, p[1] = at, trigger <= p[2] PROVE FALSE
    BY <2>1, <2>2, <2>3, PlaceIs DEF Loading
  <2>. QED BY <1>4, <2>1, <2>3 DEF Pending
<1>8. CASE Load /\ ~AddModule
  <2>1. ~(trigger > 0)
    <3>1. CASE ReadConfig
      BY <3>1 DEF ReadConfig, Inv, Lifecycle
    <3>2. CASE SkipModule
      BY <3>2 DEF SkipModule
    <3>3. CASE LoadDone
      BY <1>6, <3>3, ModulesAssumption DEF LoadDone, LoadingInOrder
    <3>. QED BY <1>8, <3>1, <3>2, <3>3 DEF Load
  <2>2. trigger' = trigger
    BY <1>8 DEF Load, ReadConfig, SkipModule, LoadDone
  <2>. QED BY <1>4, <1>5, <2>1, <2>2
<1>9. CASE InitModules \/ Run \/ CleanAll
  <2>1. phase # "load" /\ phase' # "load"
    BY <1>9 DEF InitModules, InitModule, InitFails, InitDone, CleanAll, UnloadModule, UnloadDone,
          Run, StartRound, RunModule, EndRound, Publish, CallEvent, DispatchDone, ReturnFromModule
  <2>. QED BY <1>4, <1>5, <2>1
<1>10. CASE Sigint
  <2>1. UNCHANGED <<phase, at, trigger>>
    BY <1>10 DEF Sigint
  <2>. QED BY <1>3, <2>1
<1>11. CASE UNCHANGED vars
  BY <1>3, <1>11 DEF vars
<1>. QED
  BY <1>7, <1>8, <1>9, <1>10, <1>11 DEF Next, EngineStep

(* pre_init of a module: its places appear, all still to be entered.       *)
LEMMA EnteredByPreInit ==
  ASSUME Inv, PreInit, NEW name
  PROVE  Entered(name)' = Entered(name)
<1>1. /\ phase = "load" /\ phase' = "load" /\ at' = at /\ trigger = 0 /\ trigger' = 1
      /\ at \in 1 .. Len(LoadOrder) /\ Loading \in Modules /\ LoadingInOrder
      /\ status' = [status EXCEPT ![Loading] = "preinit"]
  BY ModulesAssumption DEF PreInit, Inv, Lifecycle, LoadingInOrder, Loading
<1>2. \A m \in Modules : Loaded(m)' <=> Loaded(m) \/ m = Loading
  <2>1. \A m \in Modules : status'[m] = IF m = Loading THEN "preinit" ELSE status[m]
    BY <1>1 DEF Inv, TypeOK
  <2>. QED BY <2>1 DEF Loaded
<1>3. ~Loaded(Loading)
  <2>. SUFFICES ASSUME Loaded(Loading) PROVE FALSE
    OBVIOUS
  <2>1. InList(Loading)
    BY <1>1 DEF LoadingInOrder, Loaded
  <2>2. PICK j \in 1 .. at - 1 : Loading = LoadOrder[j]
    BY <1>1, <2>1 DEF LoadingInOrder, InList
  <2>3. j \in DOMAIN LoadOrder /\ at \in DOMAIN LoadOrder /\ j # at
    BY <1>1, <2>2, ModulesAssumption
  <2>. QED BY <2>2, <2>3, ModulesAssumption DEF IsInjective, Loading
<1>4. \A i \in DOMAIN LoadOrder : LoadOrder[i] \in Modules /\ (LoadOrder[i] = Loading <=> i = at)
  <2>1. at \in DOMAIN LoadOrder
    BY <1>1, ModulesAssumption
  <2>. QED BY <2>1, ModulesAssumption DEF IsInjective, Loading
<1>5. Places' = Places \cup PlacesOf(Loading, at)
  <2>1. at \in DOMAIN LoadOrder /\ LoadOrder[at] = Loading
    BY <1>1, ModulesAssumption DEF Loading
  <2>2. {i \in DOMAIN LoadOrder : Loaded(LoadOrder[i])}' = {i \in DOMAIN LoadOrder : Loaded(LoadOrder[i])} \cup {at}
    BY <1>2, <1>4, <2>1
  <2>. QED BY <2>1, <2>2 DEF Places
<1>6. \A p \in Places : p[1] # at
  BY <1>3, PlaceIs DEF Loading
<1>7. \A p \in PlacesOf(Loading, at) : p[1] = at /\ 1 <= p[2]
  BY <1>1, ModulesAssumption DEF PlacesOf
<1>8. Pending = {} /\ Pending' = PlacesOf(Loading, at)
  BY <1>1, <1>5, <1>6, <1>7 DEF Pending
<1>9. \A p \in PlacesOf(Loading, at) : p \notin Places
  BY <1>6, <1>7
<1>. QED
  BY <1>5, <1>8, <1>9 DEF Entered, Subscriptions

(* A turn of the trigger loop enters the next place, behind all others.    *)
LEMMA EnteredBySubscribe ==
  ASSUME Inv, Subscribe, NEW p, p = <<at, trigger>>, NEW name, name = Triggers[Loading][trigger]
  PROVE  /\ name \in Names /\ Loading \in Modules /\ Loading = LoadOrder[p[1]]
         /\ \A other : \A q \in Entered(other) : Before(q, p)
         /\ Entered(name)' = Entered(name) \cup {p}
         /\ \A other : other # name => Entered(other)' = Entered(other)
<1>1. /\ phase = "load" /\ phase' = "load" /\ at' = at /\ trigger' = trigger + 1
      /\ at \in 1 .. Len(LoadOrder) /\ Loading \in Modules /\ trigger \in DOMAIN Triggers[Loading]
      /\ LoadingInOrder /\ UNCHANGED status
  BY ModulesAssumption DEF Subscribe, Inv, Lifecycle, LoadingInOrder, Loading
<1>2. at \in DOMAIN LoadOrder /\ at \in Nat /\ trigger \in Nat \ {0} /\ name \in Names
  BY <1>1, ModulesAssumption
<1>3. status[Loading] = "preinit"
  BY <1>1, <1>2 DEF LoadingInOrder
<1>4. p \in Places /\ p[1] = at /\ p[2] = trigger
  BY <1>1, <1>2, <1>3, IsPlace DEF Loading, Loaded
<1>5. Places' = Places
  BY <1>1 DEF Places, Loaded
<1>6. \A q \in Places : q[1] <= at
  <2>. SUFFICES ASSUME NEW q \in Places PROVE q[1] <= at
    OBVIOUS
  <2>1. /\ q[1] \in DOMAIN LoadOrder /\ LoadOrder[q[1]] \in Modules /\ status[LoadOrder[q[1]]] # "absent"
        /\ q[1] \in Nat
    BY PlaceIs DEF Loaded
  <2>2. InList(LoadOrder[q[1]]) \/ LoadOrder[q[1]] = LoadOrder[at]
    BY <1>1, <2>1 DEF LoadingInOrder, Loading
  <2>3. CASE LoadOrder[q[1]] = LoadOrder[at]
    BY <1>2, <2>1, <2>3, ModulesAssumption DEF IsInjective
  <2>4. CASE InList(LoadOrder[q[1]])
    <3>1. PICK j \in 1 .. at - 1 : LoadOrder[q[1]] = LoadOrder[j]
      BY <1>1, <2>4 DEF LoadingInOrder, InList
    <3>2. j \in DOMAIN LoadOrder /\ j <= at
      BY <1>1, <3>1, ModulesAssumption
    <3>3. q[1] = j
      BY <2>1, <3>1, <3>2, ModulesAssumption DEF IsInjective
    <3>. QED BY <3>2, <3>3
  <2>. QED BY <2>2, <2>3, <2>4
<1>7. Pending = {q \in Places : q[1] = at /\ trigger <= q[2]} /\ Pending' = {q \in Places : q[1] = at /\ trigger + 1 <= q[2]}
  BY <1>1, <1>2, <1>5 DEF Pending
<1>8. \A q \in Places : /\ q[1] \in Nat /\ q[2] \in Nat
                        /\ (q[1] = at /\ q[2] = trigger) => q = p
  BY PlaceIs
<1>9. Pending' = Pending \ {p}
  BY <1>2, <1>4, <1>7, <1>8
<1>10. p \in Pending
  BY <1>2, <1>4, <1>7
<1>11. \A q \in Places : q \notin Pending => Before(q, p)
  <2>. SUFFICES ASSUME NEW q \in Places, q \notin Pending PROVE Before(q, p)
    OBVIOUS
  <2>1. q[1] <= at /\ ~(q[1] = at /\ trigger <= q[2]) /\ q[1] \in Nat /\ q[2] \in Nat
    BY <1>6, <1>7, <1>8
  <2>. QED BY <1>2, <1>4, <2>1 DEF Before
<1>12. p \in Subscriptions(name) /\ (\A other : other # name => p \notin Subscriptions(other))
  BY <1>4 DEF Subscriptions, Loading
<1>13. \A other : Subscriptions(other)' = Subscriptions(other) /\ Subscriptions(other) \subseteq Places
  BY <1>5 DEF Subscriptions
<1>14. Entered(name)' = Entered(name) \cup {p}
  BY <1>9, <1>10, <1>12, <1>13 DEF Entered
<1>15. \A other : other # name => Entered(other)' = Entered(other)
  BY <1>9, <1>12, <1>13 DEF Entered
<1>16. \A other : \A q \in Entered(other) : Before(q, p)
  BY <1>11, <1>13 DEF Entered
<1>. QED
  BY <1>1, <1>2, <1>4, <1>14, <1>15, <1>16 DEF Loading

LEMMA ChainsListedStep ==
  ASSUME Inv, Inv', TablesAgree, TablesAgree', ChainsListed, [Next]_vars
  PROVE  ChainsListed'
<1>. SUFFICES ASSUME phase' # "killed", fault' # "chainOutOfBounds" PROVE ChainsListed'
  BY DEF ChainsListed
<1>1. phase # "killed" /\ fault # "chainOutOfBounds"
  <2>1. CASE UNCHANGED vars
    BY <2>1 DEF vars
  <2>2. CASE Next
    BY <2>2 DEF Next, EngineStep, Load, ReadConfig, SkipModule, PreInit, Subscribe, AddModule, LoadDone,
          InitModules, InitModule, InitFails, InitDone, CleanAll, UnloadModule, UnloadDone, Sigint,
          Run, StartRound, RunModule, EndRound, Publish, CallEvent, DispatchDone, ReturnFromModule
  <2>. QED BY <2>1, <2>2
<1>2. \A name \in Names :
         /\ \A id \in Ids : id + 1 \in DOMAIN events /\ NameOf(id) = name => Lists(chains[id], Entered(name))
         /\ name \notin Range(events) => Entered(name) = {}
  BY <1>1 DEF ChainsListed
<1>3. NamesStay /\ events \in Seq(Names) /\ Len(events) <= MaxEvents /\ Len(events) \in Nat
  BY NamesKeepIds DEF TablesAgree, Inv, TypeOK
<1>4. \A id \in Ids : id + 1 \notin DOMAIN events => chains[id] = << >>
  <2>. SUFFICES ASSUME NEW id \in Ids, id + 1 \notin DOMAIN events PROVE chains[id] = << >>
    OBVIOUS
  <2>1. chains[id] \in Seq(Modules) /\ \A k \in DOMAIN chains[id] : FALSE
    BY DEF TablesAgree, ChainsTriggered, Inv, TypeOK
  <2>2. DOMAIN chains[id] = 1 .. Len(chains[id]) /\ Len(chains[id]) \in Nat
    BY <2>1
  <2>3. Len(chains[id]) # 0 => 1 \in DOMAIN chains[id]
    BY <2>2
  <2>. QED BY <2>1, <2>3, EmptySeq
<1>5. \A name : name \notin Range(events') => name \notin Range(events)
  <2>. SUFFICES ASSUME NEW k \in DOMAIN events PROVE events[k] \in Range(events')
    BY DEF Range
  <2>1. k - 1 + 1 = k
    BY <1>3
  <2>2. k \in DOMAIN events' /\ events'[k] = events[k]
    BY <1>3, <2>1 DEF NamesStay
  <2>. QED BY <2>2 DEF Range
(* Where nothing is entered it is enough that the table was only extended. *)
<1>6. ASSUME \A name : Entered(name)' = Entered(name), UNCHANGED chains,
             events' = events \/ \E name \in Names : events' = EventsWith(name)
      PROVE  ChainsListed'
  <2>1. ASSUME NEW name \in Names, NEW id \in Ids, id + 1 \in DOMAIN events', events'[id + 1] = name
        PROVE  Lists(chains'[id], Entered(name)')
    <3>1. CASE id + 1 \in DOMAIN events
      <4>1. name = NameOf(id)
        BY <1>3, <2>1, <3>1 DEF NamesStay, NameOf
      <4>. QED BY <1>2, <1>6, <3>1, <4>1
    <3>2. CASE id + 1 \notin DOMAIN events
      <4>1. PICK n \in Names : events' = EventsWith(n)
        BY <1>6, <2>1, <3>2
      <4>2. n = name /\ name \notin Range(events)
        BY <1>3, <2>1, <3>2, <4>1, IdOfName
      <4>3. Entered(name)' = {} /\ chains'[id] = << >>
        BY <1>2, <1>4, <1>6, <3>2, <4>2
      <4>. QED BY <4>3, ListsNone
    <3>. QED BY <3>1, <3>2
  <2>2. \A name \in Names : name \notin Range(events') => Entered(name)' = {}
    BY <1>2, <1>5, <1>6
  <2>. QED BY <2>1, <2>2 DEF ChainsListed, NameOf
<1>7. CASE PreInit
  <2>1. at \in 1 .. Len(LoadOrder) /\ Loading \in Modules /\ Own[Loading] \in Names \cup {NoName}
    BY <1>7, ModulesAssumption DEF PreInit, Inv, Lifecycle, LoadingInOrder, Loading
  <2>2. UNCHANGED chains /\ (events' = events \/ \E name \in Names : events' = EventsWith(name))
    BY <1>7, <2>1 DEF PreInit, tables
  <2>. QED BY <1>6, <1>7, <2>2, EnteredByPreInit
<1>8. CASE Subscribe
  <2>. DEFINE thisName  == Triggers[Loading][trigger]
              thisPlace == <<at, trigger>>
              thisId    == RegisteredId(thisName)
  <2>1. PICK name, p, id, m : name = thisName /\ p = thisPlace /\ id = thisId /\ m = Loading
    OBVIOUS
  <2>2. /\ name \in Names /\ m \in Modules /\ m = LoadOrder[p[1]]
        /\ \A other : \A q \in Entered(other) : Before(q, p)
        /\ Entered(name)' = Entered(name) \cup {p}
        /\ \A other : other # name => Entered(other)' = Entered(other)
    BY <1>8, <2>1, EnteredBySubscribe
  <2>3. /\ events' = EventsWith(name) /\ id = RegisteredId(name)
        /\ id # NoId /\ chains' = [chains EXCEPT ![id] = Append(@, m)]
    BY <1>8, <2>1 DEF Subscribe
  <2>. HIDE DEF thisName, thisPlace, thisId
  <2>4. id \in Ids /\ id + 1 \in DOMAIN events' /\ events'[id + 1] = name
    BY <1>3, <2>2, <2>3, Registering, IdOfName
  <2>5. \A k \in DOMAIN events' : k \in DOMAIN events \/ (events'[k] = name /\ name \notin Range(events))
    BY <1>3, <2>2, <2>3, IdOfName
  <2>6. \A i \in Ids : chains[i] \in Seq(Modules) /\ chains'[i] = IF i = id THEN Append(chains[i], m) ELSE chains[i]
    BY <2>3 DEF Inv, TypeOK
  <2>7. Lists(chains[id], Entered(name))
    <3>1. CASE id + 1 \in DOMAIN events
      <4>1. NameOf(id) = name
        BY <1>3, <2>4, <3>1 DEF NamesStay, NameOf
      <4>. QED BY <1>2, <2>2, <2>4, <3>1, <4>1
    <3>2. CASE id + 1 \notin DOMAIN events
      <4>1. chains[id] = << >> /\ Entered(name) = {}
        BY <1>2, <1>4, <2>2, <2>4, <2>5, <3>2
      <4>. QED BY <4>1, ListsNone
    <3>. QED BY <3>1, <3>2
  <2>8. ASSUME NEW other \in Names, NEW i \in Ids, i + 1 \in DOMAIN events', events'[i + 1] = other
        PROVE  Lists(chains'[i], Entered(other)')
    <3>1. CASE i = id
      <4>1. Entered(other)' = Entered(name) \cup {p}
        BY <2>2, <2>4, <2>8, <3>1
      <4>2. Lists(Append(chains[id], m), Entered(name) \cup {p})
        BY <2>2, <2>4, <2>6, <2>7, ListsMore
      <4>. QED BY <2>4, <2>6, <3>1, <4>1, <4>2
    <3>2. CASE i # id
      <4>1. other # name
        <5>1. i \in Int /\ id \in Int /\ i + 1 # id + 1
          BY <2>4, <3>2, EventsAssumption DEF Ids
        <5>. QED BY <2>4, <2>8, <5>1 DEF TablesAgree, IsInjective
      <4>2. i + 1 \in DOMAIN events
        BY <2>5, <2>8, <4>1
      <4>3. other = NameOf(i)
        BY <1>3, <2>8, <4>2 DEF NamesStay, NameOf
      <4>4. Entered(other)' = Entered(other)
        BY <2>2, <4>1
      <4>. QED BY <1>2, <2>6, <3>2, <4>2, <4>3, <4>4
    <3>. QED BY <3>1, <3>2
  <2>9. \A other \in Names : other \notin Range(events') => Entered(other)' = {}
    <3>1. name \in Range(events')
      BY <2>4 DEF Range
    <3>. QED BY <1>2, <1>5, <2>2, <3>1
  <2>. QED BY <2>8, <2>9 DEF ChainsListed, NameOf
<1>9. CASE ~PreInit /\ ~Subscribe
  <2>1. \A name : Entered(name)' = Entered(name)
    BY <1>9, EnteredKept
  <2>2. UNCHANGED chains /\ (events' = events \/ \E name \in Names : events' = EventsWith(name))
    <3>1. CASE UNCHANGED tables
      BY <3>1 DEF tables
    <3>2. CASE Publish
      BY <3>2, Publishing DEF TablesAgree
    <3>. QED BY <1>9, <3>1, <3>2, TableSteps
  <2>. QED BY <1>6, <2>1, <2>2
<1>. QED
  BY <1>7, <1>8, <1>9

-----------------------------------------------------------------------------
(* Every subscriber of an event is called, in order.                       *)

AtFront(f, table) ==
    f.code = "dispatch" =>
        /\ f.next <= Len(table[f.id]) + 1
        /\ Len(f.called) = f.next - 1
        /\ \A i \in 1 .. f.next - 1 : f.called[i] = table[f.id][i]

LEMMA CalledFrontStep ==
  ASSUME Inv, Inv', TablesAgree, CalledFront, [Next]_vars
  PROVE  CalledFront'
<1>1. \A k \in DOMAIN stack : AtFront(stack[k], chains)
  BY DEF CalledFront, AtFront
<1>2. /\ stack \in Seq(Frames) /\ stack' \in Seq(Frames) /\ Len(stack) \in Nat
      /\ DOMAIN stack = 1 .. Len(stack) /\ DOMAIN stack' = 1 .. Len(stack')
  BY DEF Inv, TypeOK
<1>6. Len(stack) \in Nat
  BY DEF Inv, TypeOK
<1>3. SUFFICES \A k \in DOMAIN stack' : AtFront(stack'[k], chains')
  BY DEF CalledFront, AtFront
<1>4. ASSUME stack = << >> PROVE \A k \in DOMAIN stack' : AtFront(stack'[k], chains')
  <2>1. ~Publish /\ ~CallEvent
    BY <1>4 DEF Publish, InModule, CallEvent, InDispatch
  <2>2. stack' = << >> \/ \E m : stack' = <<RunFrame(m)>>
    BY <1>4, <2>1, StackSteps
  <2>3. \A k \in DOMAIN stack' : stack'[k].code # "dispatch"
    <3>1. CASE stack' = << >>
      BY <3>1
    <3>2. ASSUME NEW m, stack' = <<RunFrame(m)>> PROVE \A k \in DOMAIN stack' : stack'[k].code # "dispatch"
      BY <3>2 DEF RunFrame
    <3>. QED BY <2>2, <3>1, <3>2
  <2>. QED BY <2>3 DEF AtFront
<1>5. ASSUME stack # << >> PROVE \A k \in DOMAIN stack' : AtFront(stack'[k], chains')
  <2>1. UNCHANGED chains
    <3>1. phase = "run"
      BY <1>5 DEF Inv, CallsInRounds
    <3>. QED BY <3>1, TableSteps DEF tables, PreInit, Subscribe, Publish
  <2>2. SUFFICES \A k \in DOMAIN stack' : AtFront(stack'[k], chains)
    BY <2>1
  <2>3. CASE UNCHANGED stack
    BY <1>1, <2>3
  <2>4. CASE stack' = Below
    <3>1. Len(stack') = Len(stack) - 1 /\ \A k \in 1 .. Len(stack) - 1 : stack'[k] = stack[k]
      BY <1>2, <1>5, <2>4, Returning
    <3>2. \A k \in 1 .. Len(stack) - 1 : k \in 1 .. Len(stack)
      BY <1>6
    <3>. QED BY <1>1, <1>2, <3>1, <3>2
  <2>5. CASE Publish
    <3>1. /\ Top \in GoodFrames /\ Top.code \in {"run", "event"}
          /\ \E id \in Ids \cup {NoId} :
                stack' = LET here == Push(Below, [Top EXCEPT !.sent = @ + 1])
                         IN  IF id \in Ids THEN Push(here, DispatchFrame(id)) ELSE here
      BY <2>5, Publishing DEF TablesAgree
    <3>2. PICK id \in Ids \cup {NoId} :
                stack' = LET here == Push(Below, [Top EXCEPT !.sent = @ + 1])
                         IN  IF id \in Ids THEN Push(here, DispatchFrame(id)) ELSE here
      BY <3>1
    <3>. DEFINE mine == [Top EXCEPT !.sent = @ + 1]
                here == Push(Below, mine)
                more == Push(here, DispatchFrame(id))
    <3>3. AtFront(mine, chains)
      <4>1. Top \in [code : {"run", "event"}, module : Modules, sent : 0 .. MaxPublish + 1]
        BY <3>1, FrameKinds
      <4>. QED BY <4>1 DEF AtFront
    <3>4. stack' = IF id \in Ids THEN more ELSE here
      BY <3>2
    <3>5. id \in Ids => AtFront(DispatchFrame(id), chains)
      BY DEF AtFront, DispatchFrame, Inv, TypeOK
    <3>. HIDE DEF mine
    <3>6. /\ Len(here) = Len(stack) /\ Len(more) = Len(stack) + 1
          /\ \A k \in 1 .. Len(stack) - 1 : here[k] = stack[k] /\ more[k] = stack[k]
          /\ here[Len(stack)] = mine /\ more[Len(stack)] = mine
          /\ more[Len(stack) + 1] = DispatchFrame(id)
      BY <1>2, <1>5, Pushed
    <3>. HIDE DEF here, more
    <3>7. \A k \in 1 .. Len(stack) + 1 : k = Len(stack) + 1 \/ k = Len(stack) \/ k \in 1 .. Len(stack) - 1
      BY <1>6
    <3>8. \A k \in 1 .. Len(stack) : k \in 1 .. Len(stack) + 1 /\ k # Len(stack) + 1
      BY <1>2
    <3>9. CASE id \in Ids
      <4>1. \A k \in 1 .. Len(stack) + 1 : AtFront(more[k], chains)
        <5>. TAKE k \in 1 .. Len(stack) + 1
        <5>1. CASE k = Len(stack) + 1
          BY <3>5, <3>6, <3>9, <5>1
        <5>2. CASE k = Len(stack)
          BY <3>3, <3>6, <5>2
        <5>3. CASE k \in 1 .. Len(stack) - 1
          BY <1>1, <1>2, <3>6, <3>8, <5>3
        <5>. QED BY <3>7, <5>1, <5>2, <5>3
      <4>. QED BY <1>2, <3>4, <3>6, <3>9, <4>1
    <3>10. CASE id \notin Ids
      <4>1. \A k \in 1 .. Len(stack) : AtFront(here[k], chains)
        BY <1>1, <1>2, <3>3, <3>6, <3>7, <3>8
      <4>. QED BY <1>2, <3>4, <3>6, <3>10, <4>1
    <3>. QED BY <3>9, <3>10
  <2>6. CASE CallEvent
    <3>. DEFINE m    == chains[Top.id][Top.next]
                mine == [Top EXCEPT !.next = @ + 1, !.called = Append(@, m)]
                here == Push(Below, mine)
                more == Push(here, EventFrame(m))
    <3>1. /\ Top \in GoodFrames /\ Top.code = "dispatch" /\ Top.id \in Ids
          /\ Top.next \in Nat \ {0} /\ Top.called \in Seq(Modules)
          /\ Top.next \in DOMAIN chains[Top.id] /\ chains[Top.id] \in Seq(Modules)
          /\ UNCHANGED stack \/ stack' = more
      BY <2>6, Calling
    <3>2. AtFront(mine, chains)
      <4>1. Top \in [code : {"dispatch"}, id : Ids, next : Nat \ {0}, called : Seq(Modules)]
        BY <3>1, FrameKinds
      <4>2. mine.id = Top.id /\ mine.next = Top.next + 1 /\ mine.called = Append(Top.called, m)
        BY <4>1
      <4>3. AtFront(Top, chains)
        BY <1>1, <1>2, <1>5 DEF Top
      <4>4. Len(Top.called) = Top.next - 1 /\ \A i \in 1 .. Top.next - 1 : Top.called[i] = chains[Top.id][i]
        BY <3>1, <4>3 DEF AtFront
      <4>5. m \in Modules
        BY <3>1
      <4>. HIDE DEF m
      <4>6. Len(Append(Top.called, m)) = Top.next /\ Append(Top.called, m)[Top.next] = m
            /\ \A i \in 1 .. Top.next - 1 : Append(Top.called, m)[i] = Top.called[i]
        BY <3>1, <4>4, <4>5
      <4>7. Top.next + 1 <= Len(chains[Top.id]) + 1 /\ (Top.next + 1) - 1 = Top.next
        BY <3>1
      <4>8. \A i \in 1 .. Top.next : i = Top.next \/ i \in 1 .. Top.next - 1
        BY <3>1
      <4>9. \A i \in 1 .. Top.next : Append(Top.called, m)[i] = chains[Top.id][i]
        BY <4>4, <4>6, <4>8 DEF m
      <4>. HIDE DEF mine
      <4>. QED BY <4>2, <4>6, <4>7, <4>9 DEF AtFront
    <3>3. AtFront(EventFrame(m), chains)
      BY DEF AtFront, EventFrame
    <3>. HIDE DEF mine, m
    <3>4. /\ Len(more) = Len(stack) + 1
          /\ \A k \in 1 .. Len(stack) - 1 : more[k] = stack[k]
          /\ more[Len(stack)] = mine /\ more[Len(stack) + 1] = EventFrame(m)
      BY <1>2, <1>5, Pushed
    <3>. HIDE DEF here, more
    <3>5. \A k \in 1 .. Len(stack) + 1 : k = Len(stack) + 1 \/ k = Len(stack) \/ k \in 1 .. Len(stack) - 1
      BY <1>6
    <3>6. \A k \in 1 .. Len(stack) + 1 : AtFront(more[k], chains)
      BY <1>1, <1>2, <3>2, <3>3, <3>4, <3>5
    <3>. QED BY <1>2, <2>3, <3>1, <3>4, <3>6
  <2>. QED BY <1>5, <2>3, <2>4, <2>5, <2>6, StackSteps
<1>. QED
  BY <1>4, <1>5

LEMMA UndispatchedStep ==
  ASSUME Undispatched, [Next]_vars
  PROVE  Undispatched'
<1>1. CASE UNCHANGED vars
  BY <1>1 DEF vars, Undispatched
<1>2. CASE Next
  <2>1. CASE Load
    BY <1>2, <2>1 DEF Next, EngineStep, Undispatched, Load, ReadConfig, SkipModule, PreInit, Subscribe, AddModule, LoadDone
  <2>2. CASE InitModules
    BY <2>2 DEF Undispatched, InitModules, InitModule, InitFails, InitDone
  <2>3. CASE Run
    BY <1>2, <2>3 DEF Next, EngineStep, Undispatched,
          Run, StartRound, RunModule, EndRound, Publish, CallEvent, DispatchDone, ReturnFromModule
  <2>4. CASE CleanAll
    BY <2>4 DEF Undispatched, CleanAll, UnloadModule, UnloadDone
  <2>5. CASE Sigint
    BY <2>5 DEF Undispatched, Sigint
  <2>. QED BY <1>2, <2>1, <2>2, <2>3, <2>4, <2>5 DEF Next, EngineStep
<1>. QED
  BY <1>1, <1>2

LEMMA DispatchStep ==
  ASSUME Inv, Inv', TablesAgree, ChainsListed, CalledFront, Undispatched, DispatchMatchesConfig, [Next]_vars
  PROVE  DispatchMatchesConfig'
<1>1. CASE UNCHANGED dispatched
  <2>. SUFFICES ASSUME dispatched.name # NoName PROVE UNCHANGED Places
    BY <1>1 DEF DispatchMatchesConfig, Subscriptions
  <2>1. ~PreInit
    BY DEF Undispatched, PreInit
  <2>. QED BY <2>1, PlacesStay
<1>2. CASE DispatchDone /\ fault = "none"
  <2>1. /\ phase = "run" /\ stack # << >> /\ Top.code = "dispatch" /\ Top.next > Len(chains[Top.id])
        /\ dispatched' = [name |-> NameOf(Top.id), called |-> Top.called]
    BY <1>2 DEF DispatchDone, InDispatch
  <2>2. stack \in Seq(GoodFrames) /\ stack \in Seq(Frames)
    BY StackOfGood DEF Inv, TypeOK
  <2>3. Top \in GoodFrames /\ Len(stack) \in Nat \ {0}
    BY <2>1, <2>2, Returning
  <2>4. /\ Top \in [code : {"dispatch"}, id : Ids, next : Nat \ {0}, called : Seq(Modules)]
        /\ Top.id < Len(events)
    BY <2>1, <2>3, FrameKinds
  <2>5. Top.id + 1 \in DOMAIN events /\ NameOf(Top.id) \in Names /\ chains[Top.id] \in Seq(Modules)
    <3>1. Top.id + 1 \in DOMAIN events
      BY <2>4, EventsAssumption DEF Ids, Inv, TypeOK
    <3>. QED BY <2>4, <3>1 DEF NameOf, Inv, TypeOK
  <2>6. Top.called = chains[Top.id]
    <3>1. /\ Top.next <= Len(chains[Top.id]) + 1 /\ Len(Top.called) = Top.next - 1
          /\ \A i \in 1 .. Top.next - 1 : Top.called[i] = chains[Top.id][i]
      <4>1. Len(stack) \in DOMAIN stack
        BY <2>2, <2>3
      <4>. QED BY <2>1, <4>1 DEF CalledFront, Top
    <3>2. Top.next - 1 = Len(chains[Top.id])
      BY <2>1, <2>4, <2>5, <3>1
    <3>3. Top.called \in Seq(Modules)
      BY <2>4
    <3>4. Len(Top.called) = Len(chains[Top.id]) /\ \A i \in 1 .. Len(Top.called) : Top.called[i] = chains[Top.id][i]
      BY <3>1, <3>2
    <3>. QED BY <2>5, <3>3, <3>4, SeqEqual
  <2>7. Lists(chains[Top.id], Entered(NameOf(Top.id)))
    BY <1>2, <2>1, <2>4, <2>5 DEF ChainsListed
  <2>8. Entered(NameOf(Top.id)) = Subscriptions(NameOf(Top.id))
    BY <2>1 DEF Entered, Pending
  <2>9. \A n : Subscriptions(n)' = Subscriptions(n)
    BY <1>2 DEF DispatchDone, Subscriptions, Places, Loaded
  <2>10. PICK n : n = NameOf(Top.id)
    OBVIOUS
  <2>11. dispatched'.name = n /\ dispatched'.called = chains[Top.id] /\ Lists(chains[Top.id], Subscriptions(n)')
    BY <2>1, <2>6, <2>7, <2>8, <2>9, <2>10
  <2>. QED BY <2>9, <2>11 DEF DispatchMatchesConfig, Subscriptions
<1>3. UNCHANGED dispatched \/ (DispatchDone /\ fault = "none")
  <2>1. CASE UNCHANGED vars
    BY <2>1 DEF vars
  <2>2. CASE Load
    BY <2>2 DEF Load, ReadConfig, SkipModule, PreInit, Subscribe, AddModule, LoadDone
  <2>3. CASE InitModules
    BY <2>3 DEF InitModules, InitModule, InitFails, InitDone
  <2>4. CASE Run /\ fault = "none"
    BY <2>4 DEF Run, StartRound, RunModule, EndRound, Publish, CallEvent, ReturnFromModule
  <2>5. CASE CleanAll
    BY <2>5 DEF CleanAll, UnloadModule, UnloadDone
  <2>6. CASE Sigint
    BY <2>6 DEF Sigint
  <2>. QED BY <2>1, <2>2, <2>3, <2>4, <2>5, <2>6 DEF Next, EngineStep
<1>. QED
  BY <1>1, <1>2, <1>3

(* run_callback_func calls the modules whose triggers name the event, once *)
(* per trigger and in the order of the config file, for every set of       *)
(* modules, subscriptions, failures to load, and every nesting of events.  *)
THEOREM DispatchFollowsConfig == Spec => []DispatchMatchesConfig
<1>. DEFINE DispatchInv == /\ Inv /\ TablesAgree /\ ChainsListed /\ CalledFront /\ Undispatched
                           /\ DispatchMatchesConfig
<1>1. Init => DispatchInv
  <2>. SUFFICES ASSUME Init PROVE DispatchInv
    OBVIOUS
  <2>1. TablesAgree /\ CalledFront /\ Undispatched /\ DispatchMatchesConfig
    BY DEF Init, TablesAgree, IsInjective, OwnNamed, ChainsTriggered, CalledFront, Undispatched, DispatchMatchesConfig
  <2>2. Places = {}
    <3>1. \A i \in DOMAIN LoadOrder : ~Loaded(LoadOrder[i])
      BY ModulesAssumption DEF Init, Loaded
    <3>. QED BY <3>1 DEF Places
  <2>3. ChainsListed
    BY <2>2 DEF Init, ChainsListed, Entered, Subscriptions
  <2>. QED BY <2>1, <2>3, InitInv
<1>2. DispatchInv /\ [Next]_vars => DispatchInv'
  <2>. SUFFICES ASSUME DispatchInv, [Next]_vars PROVE DispatchInv'
    OBVIOUS
  <2>1. Inv'
    BY InvariantStep
  <2>2. TablesAgree'
    BY TablesStillAgree
  <2>3. ChainsListed'
    BY <2>1, <2>2, ChainsListedStep
  <2>4. CalledFront' /\ Undispatched'
    BY <2>1, CalledFrontStep, UndispatchedStep
  <2>5. DispatchMatchesConfig'
    BY <2>1, DispatchStep
  <2>. QED BY <2>1, <2>2, <2>3, <2>4, <2>5
<1>3. DispatchInv => DispatchMatchesConfig
  OBVIOUS
<1>. QED
  BY <1>1, <1>2, <1>3, PTL DEF Spec
=============================================================================
