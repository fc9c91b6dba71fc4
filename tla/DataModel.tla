----------------------------- MODULE DataModel -----------------------------
(* The data model of an IED as tools/python_client/libiec61850client.py    *)
(* keeps it: nested dictionaries, here a function from the paths that      *)
(* exist in it to their entries.  A path is a sequence of names, <<LD, LN, *)
(* DO, DA ...>>; the dictionary below a path is empty if no path continues *)
(* it.  The module has the operators that discover, search, read and       *)
(* write such a model; IedClient.tla has the state.                        *)
EXTENDS Naturals, Sequences, FiniteSets, SequencesExt

CONSTANTS
  Kids,        \* The server's tree: path -> the names below it, in order.
  Class,       \* Child of a logical node -> "DO", "DS", "URCB" or "BRCB".
  Members,     \* Data set -> the sequence of the paths it lists.
  DatSet,      \* Report control block -> its data set.
  TypeOf,      \* Leaf of the server's tree -> its MMS type.
  NamePrefix,  \* Pairs of names of which the first begins the second.
  Unknown,     \* The value "UNKNOWN" of a leaf that was not read.
  Structure    \* What printValue makes of a value with parts.

Tree == DOMAIN Kids
KidsOf(p) == [i \in DOMAIN Kids[p] |-> Append(p, Kids[p][i])]
Leaves == {p \in Tree : Len(p) > 3 /\ Kids[p] = << >>}
LogicalNodes == {p \in Tree : Len(p) = 2}
DataSets == DOMAIN Members
MemberPath(ds, i) == Append(ds, ToString(i - 1))
DxPaths == UNION {{MemberPath(ds, i) : i \in DOMAIN Members[ds]} : ds \in DataSets}

(* A path is below the paths it continues, names below a path differ: they *)
(* are the keys of a dictionary.  Data sets and control blocks are below   *)
(* logical nodes.                                                          *)
ASSUME TreeAssumption ==
  /\ Kids \in [Tree -> Seq(STRING)] /\ \A p \in Tree : IsInjective(Kids[p])
  /\ \A p \in Tree : \A i \in 1..Len(p) :
       SubSeq(p, 1, i - 1) \in Tree /\ p[i] \in Range(Kids[SubSeq(p, 1, i - 1)])
  /\ \A ds \in DataSets : ds \in Tree /\ Len(ds) = 3 /\ Class[ds] = "DS"
  /\ \A rcb \in DOMAIN DatSet : rcb \in Tree /\ Len(rcb) = 3 /\ Class[rcb] \in {"URCB", "BRCB"}

(* Data sets list what is in the tree, control blocks report data sets.    *)
ASSUME DataSetsAssumption ==
  /\ Members \in [DataSets -> Seq(Tree)]
  /\ DatSet \in [DOMAIN DatSet -> DataSets] /\ IsFiniteSet(DOMAIN DatSet)

(* What a read of p returns while the leaves of the server have the values *)
(* vals: printValue prints a leaf, and names a structure only.             *)
printValue(p, vals) == IF p \in Leaves THEN vals[p] ELSE Structure

(***************************************************************************)
(* The service calls of a discovery, in order.                             *)
(***************************************************************************)
Call(service, path) == [service |-> service, path |-> path]
OfClass(ln, c) == SelectSeq(KidsOf(ln), LAMBDA p : Class[p] = c)
EachOf(seq, Calls(_)) == FlattenSeq([i \in DOMAIN seq |-> Calls(seq[i])])

(* The calls of printDataDirectory(p): one directory, and for each name in *)
(* it the calls below the name and, where nothing is below, a read.        *)
DirectoryCalls[p \in Tree] ==
  <<Call("directory", p)>> \o
    EachOf(KidsOf(p), LAMBDA k : DirectoryCalls[k] \o
                        IF Kids[k] = << >> THEN <<Call("read", k)>> ELSE << >>)

NodeCalls(ln) ==
  LET Directories(c) == EachOf(OfClass(ln, c), LAMBDA p : DirectoryCalls[p])
  IN  <<Call("objects", ln)>> \o Directories("DO")
        \o <<Call("datasets", ln)>>
        \o EachOf(OfClass(ln, "DS"), LAMBDA p : <<Call("members", p)>>)
        \o <<Call("urcbs", ln)>> \o Directories("URCB")
        \o <<Call("brcbs", ln)>> \o Directories("BRCB")

DiscoveryCalls ==
  <<Call("devices", << >>)>> \o
    EachOf(KidsOf(<< >>), LAMBDA ld : <<Call("nodes", ld)>> \o
                                        EachOf(KidsOf(ld), NodeCalls))

(***************************************************************************)
(* The dictionaries a discovery or a directory builds.                     *)
(***************************************************************************)
Branch == [reftype |-> "none", value |-> Unknown, typed |-> FALSE]
Reference == [reftype |-> "DX", value |-> Unknown, typed |-> TRUE]
Attribute(v, typed) == [reftype |-> "DA", value |-> v, typed |-> typed]

EmptyModel == [p \in {} |-> Branch]

(* An entry below a directory, when the calls done have succeeded: a name  *)
(* with nothing below it, be it that its own directory failed, is a leaf,  *)
(* and it has a value and a type if it could be read.                      *)
BelowDirectory(p, done, vals) ==
  IF Kids[p] # << >> /\ Call("directory", p) \in done
  THEN Branch
  ELSE IF Call("read", p) \in done THEN Attribute(printValue(p, vals), TRUE)
       ELSE Attribute(Unknown, FALSE)

Below(p) == {q \in Tree \cup DxPaths : Len(q) > Len(p) /\ IsPrefix(p, q)}

(* printDataDirectory(p) when the first n of its calls succeed.  Only data *)
(* objects, what is below them, and report control blocks have a directory.*)
HasDirectory(p) == p \in Tree /\ Len(p) > 2 /\ (Len(p) = 3 => Class[p] # "DS")

printDataDirectory(p, n, vals) ==
  LET done == IF HasDirectory(p) THEN {DirectoryCalls[p][i] : i \in 1..n} ELSE {}
  IN  [q \in {q \in Below(p) : Call("directory", Front(q)) \in done} |->
         BelowDirectory(q, done, vals)]

(* The failures discovery looks at: those of the calls of a server, a      *)
(* device, a node or a data set.  A failing directory or read goes by.     *)
Structural == {"devices", "nodes", "objects", "datasets", "members", "urcbs", "brcbs"}

(* The call at which a discovery ends whose first n calls succeed.         *)
EndOf(n) ==
  LET failing == {i \in n + 1 .. Len(DiscoveryCalls) : DiscoveryCalls[i].service \in Structural}
  IN  IF failing = {} THEN Len(DiscoveryCalls)
      ELSE CHOOSE i \in failing : \A j \in failing : i <= j

(* discovery returns `model', a name it never bound, when a device or a    *)
(* logical node cannot be listed: that is an exception.                    *)
DiscoveryRaises(n) ==
  EndOf(n) > n /\ DiscoveryCalls[EndOf(n)].service \in {"nodes", "objects"}

(* The dictionary of a path is entered just before the call that lists it. *)
ListedBy(p) ==
  CASE Len(p) = 1 -> Call("nodes", p)
    [] Len(p) = 2 -> Call("objects", p)
    [] Len(p) = 3 /\ Class[p] = "DS" -> Call("members", p)
    [] Len(p) = 3 /\ Class[p] # "DS" -> Call("directory", p)

discovery(n, vals) ==
  LET done    == {DiscoveryCalls[i] : i \in 1..n}
      reached == {DiscoveryCalls[i] : i \in 1..EndOf(n)}
      Entered(p) ==
        IF p \in DxPaths THEN Call("members", Front(p)) \in done
        ELSE IF Len(p) > 3 THEN Call("directory", Front(p)) \in done
        ELSE p # << >> /\ ListedBy(p) \in reached
  IN  [p \in {p \in Tree \cup DxPaths : Entered(p)} |->
         IF p \in DxPaths THEN Reference
         ELSE IF Len(p) > 3 THEN BelowDirectory(p, done, vals)
         ELSE Branch]

(***************************************************************************)
(* Searching and changing a model.                                         *)
(***************************************************************************)
(* parseRef finds something: the reference is in the model and its         *)
(* dictionary is not the empty one.  The empty reference is the model.     *)
Found(m, p) ==
  IF p = << >> THEN m # EmptyModel
  ELSE /\ p \in DOMAIN m
       /\ \/ m[p].reftype # "none" \/ m[p].value # Unknown
          \/ \E q \in DOMAIN m : q \in Below(p)

(* ref.startswith(member): the texts, so a name may end inside another.    *)
StartsWith(p, member) ==
  /\ Len(member) <= Len(p)
  /\ \A i \in 1..Len(member) - 1 : p[i] = member[i]
  /\ LET last == Len(member)
     IN  p[last] = member[last] \/ <<member[last], p[last]>> \in NamePrefix

(* A search goes through the nested dictionaries in the order in which     *)
(* discovery entered the names: that of the tree, and in a node the data   *)
(* sets, then the unbuffered and then the buffered control blocks.         *)
Precedes(p, q) ==
  \E i \in 1..Len(p) :
    LET dir == SubSeq(p, 1, i - 1)
    IN  /\ dir = SubSeq(q, 1, i - 1)
        /\ \E j, k \in DOMAIN Kids[dir] : j < k /\ Kids[dir][j] = p[i] /\ Kids[dir][k] = q[i]

FirstOf(paths) ==
  {p \in paths : \A q \in paths \ {p} :
                   IF Class[p] = Class[q] THEN Precedes(p, q) ELSE Class[p] = "URCB"}

(* The data sets of the model that hold a member with which p begins, and  *)
(* the control blocks that report one of them.                             *)
DataSetsFor(m, p) ==
  {ds \in DataSets : \E i \in DOMAIN Members[ds] :
                       MemberPath(ds, i) \in DOMAIN m /\ StartsWith(p, Members[ds][i])}

ControlBlocksFor(m, ds) ==
  {rcb \in DOMAIN DatSet :
     LET attribute == Append(rcb, "DatSet")
     IN  /\ Front(rcb) = Front(ds) /\ DatSet[rcb] = ds
         /\ attribute \in DOMAIN m /\ m[attribute].value # Unknown}

(* The types getMMsValue makes a value of; it gives None for the others    *)
(* (for a bit string too: it returns what the setter returns, nothing),    *)
(* and cannot take the text of an octet string.                            *)
Encodable == {"visible-string", "boolean", "integer", "unsigned", "mms-string",
              "float", "binary-time", "generalized-time", "utc-time"}

(* The three ways a value gets into a model: a leaf that was read, with    *)
(* its type; the element of a report, without one; a directory that        *)
(* replaces what was below p.                                              *)
SetRead(m, read) ==
  [p \in DOMAIN read \cup DOMAIN m |-> IF p \in DOMAIN read THEN read[p] ELSE m[p]]

SetReported(m, p, v) == IF p \in DOMAIN m THEN [m EXCEPT ![p].value = v] ELSE m

ReplaceBelow(m, p, sub) ==
  [q \in (DOMAIN m \ Below(p)) \cup DOMAIN sub |->
     IF q = p THEN Branch ELSE IF q \in DOMAIN sub THEN sub[q] ELSE m[q]]
=============================================================================
