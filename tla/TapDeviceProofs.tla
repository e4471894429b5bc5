--------------------------- MODULE TapDeviceProofs ---------------------------
(***************************************************************************)
(* Proofs about TapDevice, for every set of adapters and names, and however *)
(* often adapters are installed and removed.                               *)
(***************************************************************************)
EXTENDS TapDevice, FiniteSetTheorems, TLAPS

Events  == {"read_event", "write_event"}
Handles == {"class_key", "fd", "ctl"} \union Events
Guids   == {a.guid : a \in Adapters} \union {"empty"}

WinPlaces   == {"START", "SEARCH", "DEVICE", "EVENTS", "MEDIA"}
PosixPlaces == {"SETIFF", "MTU", "SETMTU", "UP", "SETUP", "BRIDGE"}
Searches    == [idx : Nat \ {0}, found : Nat, first : Guids]

Types ==
    /\ os \in {"windows", "posix"}
    /\ registry \in Seq(Adapters)
    /\ pc \in [Procs -> {"IDLE", "OPEN"} \union WinPlaces \union PosixPlaces]
    /\ search \in [Procs -> Searches]
    /\ guid \in [Procs -> Guids]
    /\ tap \in [Procs -> SUBSET (Guids \union Handles)]
    /\ held \in [Procs -> SUBSET (Guids \union Handles)]
    /\ net \in [Procs -> {"none", "new", "mtu", "up", "bridged"}]
    /\ ~twice

(* What the struct names at each place. *)
Fields(p) ==
    IF pc[p] \in {"MEDIA", "OPEN"} /\ os = "windows" THEN Events \union {guid[p]}
    ELSE IF pc[p] \in {"OPEN", "BRIDGE"} THEN {"fd"}
    ELSE {}

(* What is open beside it, in locals of ntap_tap_open and its helpers. *)
Locals(p) ==
    CASE pc[p] = "SEARCH" -> {"class_key"}
      [] pc[p] = "EVENTS" -> {guid[p]}
      [] pc[p] \in {"SETIFF", "MTU", "UP"} -> {"fd"}
      [] pc[p] \in {"SETMTU", "SETUP"} -> {"fd", "ctl"}
      [] pc[p] = "BRIDGE" -> {"ctl"}
      [] OTHER -> {}

(* The device of a process: at every place the two together are what it     *)
(* has open, and the interface is as far as the calls made so far.          *)
Accounts(p) ==
    /\ pc[p] \in WinPlaces => os = "windows"
    /\ pc[p] \in PosixPlaces => os = "posix"
    /\ tap[p] = Fields(p)
    /\ held[p] = Fields(p) \union Locals(p)
    /\ pc[p] \in WinPlaces \union {"IDLE"} => net[p] = "none"
    /\ pc[p] \in {"OPEN", "BRIDGE"} /\ os = "posix" => net[p] \in {"up", "bridged"}

IInv == Types /\ \A p \in Procs : Accounts(p)

(* The id of a TAP adapter. *)
TapId(g) == \E a \in Adapters : Supported(a) /\ a.guid = g

Chooses(p) ==
    pc[p] \in {"DEVICE", "EVENTS", "MEDIA"} \/ (pc[p] = "OPEN" /\ os = "windows")

(* What was found is a TAP adapter, and no device is opened without one. *)
Found(p) ==
    /\ guid[p] # "empty" => TapId(guid[p])
    /\ search[p].first # "empty" => TapId(search[p].first)
    /\ Chooses(p) => guid[p] # "empty"

(* What a search knows of the adapters it has passed, if none came or went. *)
Passed(p) == {i \in 1 .. Len(registry) : i < search[p].idx /\ Usable(registry[i])}

Searching(p) ==
    pc[p] = "SEARCH" /\ stable[p] =>
        /\ \A i \in Passed(p) : ~Matches(name, registry[i])
        /\ search[p].found = 0 => Passed(p) = {} /\ search[p].first = "empty"
        /\ search[p].found > 0 => \E i \in Passed(p) : search[p].first = registry[i].guid
        /\ search[p].found = 1 => \A i, j \in Passed(p) : i = j
        /\ search[p].found > 1 => \E i, j \in Passed(p) : i # j

(* The two halves of RightAdapter. *)
Chosen(p) == Searched(p) => guid[p] = Wanted
Backed(p) ==
    guid[p] \in held[p] =>
        \E i \in DOMAIN registry : registry[i].guid = guid[p] /\ Supported(registry[i])

(* The check chooses nothing before its one search. *)
CheckOnce ==
    verdict = "none" =>
        /\ pc["check"] # "OPEN"
        /\ pc["check"] \in {"IDLE", "START"} => guid["check"] = "empty"

JInv ==
    /\ IInv /\ CheckOnce /\ stable \in [Procs -> BOOLEAN]
    /\ \A p \in Procs : Found(p) /\ Searching(p) /\ Chosen(p) /\ Backed(p)

-----------------------------------------------------------------------------
LEMMA GuidLemma ==
    ASSUME NEW g \in Guids
    PROVE  g \notin Handles
  BY GuidAssumption DEF Guids, Handles, Events

(* The registry and the search deal in adapters and their ids. *)
LEMMA RegistryLemma ==
    ASSUME Types
    PROVE  \A i \in DOMAIN registry : registry[i] \in Adapters /\ registry[i].guid \in Guids
  BY DEF Types, Guids

LEMMA FoundLemma ==
    ASSUME Types, NEW p \in Procs
    PROVE  OnlyFound(search[p]) \in Guids
  BY DEF Types, Searches, OnlyFound, Guids

(* The step is one of process p. *)
OnlyOf(p) ==
    /\ os' = os
    /\ \A q \in Procs \ {p} :
         /\ pc'[q] = pc[q] /\ guid'[q] = guid[q]
         /\ tap'[q] = tap[q] /\ held'[q] = held[q] /\ net'[q] = net[q]

LEMMA OthersKeep ==
    ASSUME IInv, NEW p \in Procs, Types', Accounts(p)', OnlyOf(p)
    PROVE  IInv'
<1> SUFFICES ASSUME NEW q \in Procs \ {p} PROVE Accounts(q)'
  BY DEF IInv
<1> QED BY DEF IInv, OnlyOf, Accounts, Fields, Locals

LEMMA WinOpenKeeps ==
    ASSUME IInv, NEW p \in Procs, WinOpen(p)
    PROVE  IInv'
<1>1. Types /\ Accounts(p) /\ p \in Procs
  BY DEF IInv, Procs
<1>2. Types'
  <2>1. /\ os' \in {"windows", "posix"} /\ registry' \in Seq(Adapters)
        /\ pc' \in [Procs -> {"IDLE", "OPEN"} \union WinPlaces \union PosixPlaces]
        /\ net' \in [Procs -> {"none", "new", "mtu", "up", "bridged"}]
    BY <1>1 DEF WinOpen, Types, WinPlaces, PosixPlaces, MayOpen, OpenReturns, Goes,
         Took, NoSearch
  <2>2. search' \in [Procs -> Searches] /\ guid' \in [Procs -> Guids]
    BY <1>1, RegistryLemma, FoundLemma DEF WinOpen, Types, Searches, Guids, MayOpen,
         OpenReturns, Goes, Took, NoSearch
  <2>3. /\ tap' \in [Procs -> SUBSET (Guids \union Handles)]
        /\ held' \in [Procs -> SUBSET (Guids \union Handles)]
    BY <1>1 DEF WinOpen, Types, Handles, Events, MayOpen, OpenReturns, Goes, Took,
         NoSearch
  <2>4. ~twice'
    BY <1>1, GuidLemma DEF WinOpen, Types, Accounts, Fields, Locals, Handles, Events,
         MayOpen, OpenReturns, Goes, Took, NoSearch
  <2> QED BY <2>1, <2>2, <2>3, <2>4 DEF Types
<1>3. OnlyOf(p)
  BY <1>1 DEF WinOpen, Types, OnlyOf, MayOpen, OpenReturns, Goes, Took, NoSearch
<1>4. Accounts(p)'
  BY <1>1, <1>2, GuidLemma DEF WinOpen, Types, Accounts, Fields, Locals, WinPlaces,
       PosixPlaces, Handles, Events, MayOpen, OpenReturns, Goes, Took, NoSearch
<1> QED BY <1>1, <1>2, <1>3, <1>4, OthersKeep

LEMMA SearchNextKeeps ==
    ASSUME IInv, NEW p \in Procs, SearchNext(p)
    PROVE  IInv'
<1>1. Types /\ Accounts(p) /\ p \in Procs
  BY DEF IInv, Procs
<1>2. Types'
  <2>1. /\ os' \in {"windows", "posix"} /\ registry' \in Seq(Adapters)
        /\ pc' \in [Procs -> {"IDLE", "OPEN"} \union WinPlaces \union PosixPlaces]
        /\ net' \in [Procs -> {"none", "new", "mtu", "up", "bridged"}]
    BY <1>1 DEF SearchNext, Types, WinPlaces, PosixPlaces, Goes, Closed
  <2>2. search' \in [Procs -> Searches] /\ guid' \in [Procs -> Guids]
    <3> DEFINE a == registry[search[p].idx]
    <3>1. /\ search[p].idx \in Nat \ {0} /\ search[p].found \in Nat
          /\ search[p].first \in Guids
      BY <1>1 DEF Types, Searches
    <3>2. a.guid \in Guids
      <4>1. search[p].idx \in DOMAIN registry
        BY <1>1, <3>1 DEF SearchNext, Types
      <4> QED BY <1>1, <4>1, RegistryLemma
    <3>3. \/ guid' = [guid EXCEPT ![p] = a.guid] /\ search' = search
          \/ /\ guid' = guid
             /\ \E n \in Nat, f \in Guids :
                  search' = [search EXCEPT ![p] =
                               [idx |-> search[p].idx + 1, found |-> n, first |-> f]]
      <4> HIDE DEF a
      <4>1. /\ (IF Usable(a) THEN search[p].found + 1 ELSE search[p].found) \in Nat
            /\ (IF Usable(a) /\ search[p].first = "empty" THEN a.guid
                                                          ELSE search[p].first) \in Guids
        BY <3>1, <3>2
      <4> QED BY <1>1, <4>1 DEF SearchNext, a
    <3> HIDE DEF a
    <3>4. \A n \in Nat, f \in Guids :
            [idx |-> search[p].idx + 1, found |-> n, first |-> f] \in Searches
      BY <3>1 DEF Searches
    <3> QED BY <1>1, <3>2, <3>3, <3>4 DEF Types
  <2>3. /\ tap' \in [Procs -> SUBSET (Guids \union Handles)]
        /\ held' \in [Procs -> SUBSET (Guids \union Handles)]
    BY <1>1 DEF SearchNext, Types, Handles, Events, Goes, Closed
  <2>4. ~twice'
    BY <1>1, GuidLemma DEF SearchNext, Types, Accounts, Fields, Locals, Handles,
         Events, Goes, Closed
  <2> QED BY <2>1, <2>2, <2>3, <2>4 DEF Types
<1>3. OnlyOf(p)
  BY <1>1 DEF SearchNext, Types, OnlyOf, Goes, Closed
<1>4. Accounts(p)'
  BY <1>1, <1>2, GuidLemma DEF SearchNext, Types, Accounts, Fields, Locals, WinPlaces,
       PosixPlaces, Handles, Events, Goes, Closed
<1> QED BY <1>1, <1>2, <1>3, <1>4, OthersKeep

LEMMA SearchEndKeeps ==
    ASSUME IInv, NEW p \in Procs, SearchEnd(p)
    PROVE  IInv'
<1>1. Types /\ Accounts(p) /\ p \in Procs
  BY DEF IInv, Procs
<1>2. Types'
  <2>1. /\ os' \in {"windows", "posix"} /\ registry' \in Seq(Adapters)
        /\ pc' \in [Procs -> {"IDLE", "OPEN"} \union WinPlaces \union PosixPlaces]
        /\ net' \in [Procs -> {"none", "new", "mtu", "up", "bridged"}]
    BY <1>1 DEF SearchEnd, Types, WinPlaces, PosixPlaces, Goes, Closed, OpenReturns
  <2>2. search' \in [Procs -> Searches] /\ guid' \in [Procs -> Guids]
    BY <1>1, RegistryLemma, FoundLemma DEF SearchEnd, Types, Searches, Guids, Goes,
         Closed, OpenReturns
  <2>3. /\ tap' \in [Procs -> SUBSET (Guids \union Handles)]
        /\ held' \in [Procs -> SUBSET (Guids \union Handles)]
    BY <1>1 DEF SearchEnd, Types, Handles, Events, Goes, Closed, OpenReturns
  <2>4. ~twice'
    BY <1>1, GuidLemma DEF SearchEnd, Types, Accounts, Fields, Locals, Handles,
         Events, Goes, Closed, OpenReturns
  <2> QED BY <2>1, <2>2, <2>3, <2>4 DEF Types
<1>3. OnlyOf(p)
  BY <1>1 DEF SearchEnd, Types, OnlyOf, Goes, Closed, OpenReturns
<1>4. Accounts(p)'
  BY <1>1, <1>2, GuidLemma DEF SearchEnd, Types, Accounts, Fields, Locals, WinPlaces,
       PosixPlaces, Handles, Events, Goes, Closed, OpenReturns
<1> QED BY <1>1, <1>2, <1>3, <1>4, OthersKeep

LEMMA OpenDeviceKeeps ==
    ASSUME IInv, NEW p \in Procs, OpenDevice(p)
    PROVE  IInv'
<1>1. Types /\ Accounts(p) /\ p \in Procs
  BY DEF IInv, Procs
<1>2. Types'
  <2>1. /\ os' \in {"windows", "posix"} /\ registry' \in Seq(Adapters)
        /\ pc' \in [Procs -> {"IDLE", "OPEN"} \union WinPlaces \union PosixPlaces]
        /\ net' \in [Procs -> {"none", "new", "mtu", "up", "bridged"}]
    BY <1>1 DEF OpenDevice, Types, WinPlaces, PosixPlaces, Goes, Took, OpenReturns, Device
  <2>2. search' \in [Procs -> Searches] /\ guid' \in [Procs -> Guids]
    BY <1>1, RegistryLemma, FoundLemma DEF OpenDevice, Types, Searches, Guids, Goes,
         Took, OpenReturns, Device
  <2>3. /\ tap' \in [Procs -> SUBSET (Guids \union Handles)]
        /\ held' \in [Procs -> SUBSET (Guids \union Handles)]
    BY <1>1 DEF OpenDevice, Types, Handles, Events, Goes, Took, OpenReturns, Device
  <2>4. ~twice'
    BY <1>1, GuidLemma DEF OpenDevice, Types, Accounts, Fields, Locals, Handles,
         Events, Goes, Took, OpenReturns, Device
  <2> QED BY <2>1, <2>2, <2>3, <2>4 DEF Types
<1>3. OnlyOf(p)
  BY <1>1 DEF OpenDevice, Types, OnlyOf, Goes, Took, OpenReturns, Device
<1>4. Accounts(p)'
  BY <1>1, <1>2, GuidLemma DEF OpenDevice, Types, Accounts, Fields, Locals, WinPlaces,
       PosixPlaces, Handles, Events, Goes, Took, OpenReturns, Device
<1> QED BY <1>1, <1>2, <1>3, <1>4, OthersKeep

LEMMA CreateEventsKeeps ==
    ASSUME IInv, NEW p \in Procs, CreateEvents(p)
    PROVE  IInv'
<1>1. Types /\ Accounts(p) /\ p \in Procs
  BY DEF IInv, Procs
<1>2. Types'
  <2>1. /\ os' \in {"windows", "posix"} /\ registry' \in Seq(Adapters)
        /\ pc' \in [Procs -> {"IDLE", "OPEN"} \union WinPlaces \union PosixPlaces]
        /\ net' \in [Procs -> {"none", "new", "mtu", "up", "bridged"}]
    BY <1>1 DEF CreateEvents, Types, WinPlaces, PosixPlaces, Goes, Took, OpenReturns,
         Device, FieldsBefore
  <2>2. search' \in [Procs -> Searches] /\ guid' \in [Procs -> Guids]
    BY <1>1, RegistryLemma, FoundLemma DEF CreateEvents, Types, Searches, Guids, Goes,
         Took, OpenReturns, Device, FieldsBefore
  <2>3. /\ tap' \in [Procs -> SUBSET (Guids \union Handles)]
        /\ held' \in [Procs -> SUBSET (Guids \union Handles)]
    BY <1>1 DEF CreateEvents, Types, Handles, Events, Goes, Took, OpenReturns, Device,
         FieldsBefore
  <2>4. ~twice'
    BY <1>1, GuidLemma DEF CreateEvents, Types, Accounts, Fields, Locals, Handles,
         Events, Goes, Took, OpenReturns, Device, FieldsBefore
  <2> QED BY <2>1, <2>2, <2>3, <2>4 DEF Types
<1>3. OnlyOf(p)
  BY <1>1 DEF CreateEvents, Types, OnlyOf, Goes, Took, OpenReturns, Device, FieldsBefore
<1>4. Accounts(p)'
  BY <1>1, <1>2, GuidLemma DEF CreateEvents, Types, Accounts, Fields, Locals,
       WinPlaces, PosixPlaces, Handles, Events, Goes, Took, OpenReturns, Device,
       FieldsBefore
<1> QED BY <1>1, <1>2, <1>3, <1>4, OthersKeep

LEMMA SetMediaStatusKeeps ==
    ASSUME IInv, NEW p \in Procs, SetMediaStatus(p)
    PROVE  IInv'
<1>1. Types /\ Accounts(p) /\ p \in Procs
  BY DEF IInv, Procs
<1>2. Types'
  <2>1. /\ os' \in {"windows", "posix"} /\ registry' \in Seq(Adapters)
        /\ pc' \in [Procs -> {"IDLE", "OPEN"} \union WinPlaces \union PosixPlaces]
        /\ net' \in [Procs -> {"none", "new", "mtu", "up", "bridged"}]
    BY <1>1 DEF SetMediaStatus, Types, WinPlaces, PosixPlaces, OpenReturns, TapClose,
         Closed, devVars
  <2>2. search' \in [Procs -> Searches] /\ guid' \in [Procs -> Guids]
    BY <1>1, RegistryLemma, FoundLemma DEF SetMediaStatus, Types, Searches, Guids,
         OpenReturns, TapClose, Closed, devVars
  <2>3. /\ tap' \in [Procs -> SUBSET (Guids \union Handles)]
        /\ held' \in [Procs -> SUBSET (Guids \union Handles)]
    BY <1>1 DEF SetMediaStatus, Types, Handles, Events, OpenReturns, TapClose, Closed,
         devVars
  <2>4. ~twice'
    BY <1>1, GuidLemma DEF SetMediaStatus, Types, Accounts, Fields, Locals, Handles,
         Events, OpenReturns, TapClose, Closed, devVars
  <2> QED BY <2>1, <2>2, <2>3, <2>4 DEF Types
<1>3. OnlyOf(p)
  BY <1>1 DEF SetMediaStatus, Types, OnlyOf, OpenReturns, TapClose, Closed, devVars
<1>4. Accounts(p)'
  BY <1>1, <1>2, GuidLemma DEF SetMediaStatus, Types, Accounts, Fields, Locals,
       WinPlaces, PosixPlaces, Handles, Events, OpenReturns, TapClose, Closed, devVars
<1> QED BY <1>1, <1>2, <1>3, <1>4, OthersKeep

LEMMA PosixOpenKeeps ==
    ASSUME IInv, NEW p \in Procs, PosixOpen(p)
    PROVE  IInv'
<1>1. Types /\ Accounts(p) /\ p \in Procs
  BY DEF IInv, Procs
<1>2. Types'
  <2>1. /\ os' \in {"windows", "posix"} /\ registry' \in Seq(Adapters)
        /\ pc' \in [Procs -> {"IDLE", "OPEN"} \union WinPlaces \union PosixPlaces]
        /\ net' \in [Procs -> {"none", "new", "mtu", "up", "bridged"}]
    BY <1>1 DEF PosixOpen, Types, WinPlaces, PosixPlaces, MayOpen, OpenReturns, Goes, Took
  <2>2. search' \in [Procs -> Searches] /\ guid' \in [Procs -> Guids]
    BY <1>1, RegistryLemma, FoundLemma DEF PosixOpen, Types, Searches, Guids, MayOpen,
         OpenReturns, Goes, Took
  <2>3. /\ tap' \in [Procs -> SUBSET (Guids \union Handles)]
        /\ held' \in [Procs -> SUBSET (Guids \union Handles)]
    BY <1>1 DEF PosixOpen, Types, Handles, Events, MayOpen, OpenReturns, Goes, Took
  <2>4. ~twice'
    BY <1>1, GuidLemma DEF PosixOpen, Types, Accounts, Fields, Locals, Handles,
         Events, MayOpen, OpenReturns, Goes, Took
  <2> QED BY <2>1, <2>2, <2>3, <2>4 DEF Types
<1>3. OnlyOf(p)
  BY <1>1 DEF PosixOpen, Types, OnlyOf, MayOpen, OpenReturns, Goes, Took
<1>4. Accounts(p)'
  BY <1>1, <1>2, GuidLemma DEF PosixOpen, Types, Accounts, Fields, Locals, WinPlaces,
       PosixPlaces, Handles, Events, MayOpen, OpenReturns, Goes, Took
<1> QED BY <1>1, <1>2, <1>3, <1>4, OthersKeep

LEMMA SetIffKeeps ==
    ASSUME IInv, NEW p \in Procs, SetIff(p)
    PROVE  IInv'
<1>1. Types /\ Accounts(p) /\ p \in Procs
  BY DEF IInv, Procs
<1>2. Types'
  <2>1. /\ os' \in {"windows", "posix"} /\ registry' \in Seq(Adapters)
        /\ pc' \in [Procs -> {"IDLE", "OPEN"} \union WinPlaces \union PosixPlaces]
        /\ net' \in [Procs -> {"none", "new", "mtu", "up", "bridged"}]
    BY <1>1 DEF SetIff, Types, WinPlaces, PosixPlaces, Goes, FdClose, Closed, OpenReturns
  <2>2. search' \in [Procs -> Searches] /\ guid' \in [Procs -> Guids]
    BY <1>1, RegistryLemma, FoundLemma DEF SetIff, Types, Searches, Guids, Goes,
         FdClose, Closed, OpenReturns
  <2>3. /\ tap' \in [Procs -> SUBSET (Guids \union Handles)]
        /\ held' \in [Procs -> SUBSET (Guids \union Handles)]
    BY <1>1 DEF SetIff, Types, Handles, Events, Goes, FdClose, Closed, OpenReturns
  <2>4. ~twice'
    BY <1>1, GuidLemma DEF SetIff, Types, Accounts, Fields, Locals, Handles, Events,
         Goes, FdClose, Closed, OpenReturns
  <2> QED BY <2>1, <2>2, <2>3, <2>4 DEF Types
<1>3. OnlyOf(p)
  BY <1>1 DEF SetIff, Types, OnlyOf, Goes, FdClose, Closed, OpenReturns
<1>4. Accounts(p)'
  BY <1>1, <1>2, GuidLemma DEF SetIff, Types, Accounts, Fields, Locals, WinPlaces,
       PosixPlaces, Handles, Events, Goes, FdClose, Closed, OpenReturns
<1> QED BY <1>1, <1>2, <1>3, <1>4, OthersKeep

LEMMA ControlSocketKeeps ==
    ASSUME IInv, NEW p \in Procs, ControlSocket(p)
    PROVE  IInv'
<1>1. Types /\ Accounts(p) /\ p \in Procs
  BY DEF IInv, Procs
<1>2. Types'
  <2>1. /\ os' \in {"windows", "posix"} /\ registry' \in Seq(Adapters)
        /\ pc' \in [Procs -> {"IDLE", "OPEN"} \union WinPlaces \union PosixPlaces]
        /\ net' \in [Procs -> {"none", "new", "mtu", "up", "bridged"}]
    BY <1>1 DEF ControlSocket, Types, WinPlaces, PosixPlaces, Goes, Took, FdClose,
         Closed, OpenReturns
  <2>2. search' \in [Procs -> Searches] /\ guid' \in [Procs -> Guids]
    BY <1>1, RegistryLemma, FoundLemma DEF ControlSocket, Types, Searches, Guids,
         Goes, Took, FdClose, Closed, OpenReturns
  <2>3. /\ tap' \in [Procs -> SUBSET (Guids \union Handles)]
        /\ held' \in [Procs -> SUBSET (Guids \union Handles)]
    BY <1>1 DEF ControlSocket, Types, Handles, Events, Goes, Took, FdClose, Closed,
         OpenReturns
  <2>4. ~twice'
    BY <1>1, GuidLemma DEF ControlSocket, Types, Accounts, Fields, Locals, Handles,
         Events, Goes, Took, FdClose, Closed, OpenReturns
  <2> QED BY <2>1, <2>2, <2>3, <2>4 DEF Types
<1>3. OnlyOf(p)
  BY <1>1 DEF ControlSocket, Types, OnlyOf, Goes, Took, FdClose, Closed, OpenReturns
<1>4. Accounts(p)'
  BY <1>1, <1>2, GuidLemma DEF ControlSocket, Types, Accounts, Fields, Locals,
       WinPlaces, PosixPlaces, Handles, Events, Goes, Took, FdClose, Closed,
       OpenReturns
<1> QED BY <1>1, <1>2, <1>3, <1>4, OthersKeep

LEMMA SetMtuKeeps ==
    ASSUME IInv, NEW p \in Procs, SetMtu(p)
    PROVE  IInv'
<1>1. Types /\ Accounts(p) /\ p \in Procs
  BY DEF IInv, Procs
<1>2. Types'
  <2>1. /\ os' \in {"windows", "posix"} /\ registry' \in Seq(Adapters)
        /\ pc' \in [Procs -> {"IDLE", "OPEN"} \union WinPlaces \union PosixPlaces]
        /\ net' \in [Procs -> {"none", "new", "mtu", "up", "bridged"}]
    BY <1>1 DEF SetMtu, Types, WinPlaces, PosixPlaces, Goes, FdClose, Closed,
         OpenReturns, ControlSockets
  <2>2. search' \in [Procs -> Searches] /\ guid' \in [Procs -> Guids]
    BY <1>1, RegistryLemma, FoundLemma DEF SetMtu, Types, Searches, Guids, Goes,
         FdClose, Closed, OpenReturns, ControlSockets
  <2>3. /\ tap' \in [Procs -> SUBSET (Guids \union Handles)]
        /\ held' \in [Procs -> SUBSET (Guids \union Handles)]
    BY <1>1 DEF SetMtu, Types, Handles, Events, Goes, FdClose, Closed, OpenReturns,
         ControlSockets
  <2>4. ~twice'
    BY <1>1, GuidLemma DEF SetMtu, Types, Accounts, Fields, Locals, Handles, Events,
         Goes, FdClose, Closed, OpenReturns, ControlSockets
  <2> QED BY <2>1, <2>2, <2>3, <2>4 DEF Types
<1>3. OnlyOf(p)
  BY <1>1 DEF SetMtu, Types, OnlyOf, Goes, FdClose, Closed, OpenReturns, ControlSockets
<1>4. Accounts(p)'
  BY <1>1, <1>2, GuidLemma DEF SetMtu, Types, Accounts, Fields, Locals, WinPlaces,
       PosixPlaces, Handles, Events, Goes, FdClose, Closed, OpenReturns,
       ControlSockets
<1> QED BY <1>1, <1>2, <1>3, <1>4, OthersKeep

LEMMA SetUpKeeps ==
    ASSUME IInv, NEW p \in Procs, SetUp(p)
    PROVE  IInv'
<1>1. Types /\ Accounts(p) /\ p \in Procs
  BY DEF IInv, Procs
<1>2. Types'
  <2>1. /\ os' \in {"windows", "posix"} /\ registry' \in Seq(Adapters)
        /\ pc' \in [Procs -> {"IDLE", "OPEN"} \union WinPlaces \union PosixPlaces]
        /\ net' \in [Procs -> {"none", "new", "mtu", "up", "bridged"}]
    BY <1>1 DEF SetUp, Types, WinPlaces, PosixPlaces, FdClose, Closed, OpenReturns,
         ControlSockets
  <2>2. search' \in [Procs -> Searches] /\ guid' \in [Procs -> Guids]
    BY <1>1, RegistryLemma, FoundLemma DEF SetUp, Types, Searches, Guids, FdClose,
         Closed, OpenReturns, ControlSockets
  <2>3. /\ tap' \in [Procs -> SUBSET (Guids \union Handles)]
        /\ held' \in [Procs -> SUBSET (Guids \union Handles)]
    BY <1>1 DEF SetUp, Types, Handles, Events, FdClose, Closed, OpenReturns,
         ControlSockets
  <2>4. ~twice'
    BY <1>1, GuidLemma DEF SetUp, Types, Accounts, Fields, Locals, Handles, Events,
         FdClose, Closed, OpenReturns, ControlSockets
  <2> QED BY <2>1, <2>2, <2>3, <2>4 DEF Types
<1>3. OnlyOf(p)
  BY <1>1 DEF SetUp, Types, OnlyOf, FdClose, Closed, OpenReturns, ControlSockets
<1>4. Accounts(p)'
  BY <1>1, <1>2, GuidLemma DEF SetUp, Types, Accounts, Fields, Locals, WinPlaces,
       PosixPlaces, Handles, Events, FdClose, Closed, OpenReturns, ControlSockets
<1> QED BY <1>1, <1>2, <1>3, <1>4, OthersKeep

LEMMA CloseTapKeeps ==
    ASSUME IInv, NEW p \in Procs, CloseTap(p)
    PROVE  IInv'
<1>1. Types /\ Accounts(p) /\ p \in Procs
  BY DEF IInv, Procs
<1>2. Types'
  <2>1. /\ os' \in {"windows", "posix"} /\ registry' \in Seq(Adapters)
        /\ pc' \in [Procs -> {"IDLE", "OPEN"} \union WinPlaces \union PosixPlaces]
        /\ net' \in [Procs -> {"none", "new", "mtu", "up", "bridged"}]
    BY <1>1 DEF CloseTap, Types, WinPlaces, PosixPlaces, TapClose, Closed, Goes
  <2>2. search' \in [Procs -> Searches] /\ guid' \in [Procs -> Guids]
    BY <1>1, RegistryLemma, FoundLemma DEF CloseTap, Types, Searches, Guids, TapClose,
         Closed, Goes
  <2>3. /\ tap' \in [Procs -> SUBSET (Guids \union Handles)]
        /\ held' \in [Procs -> SUBSET (Guids \union Handles)]
    BY <1>1 DEF CloseTap, Types, Handles, Events, TapClose, Closed, Goes
  <2>4. ~twice'
    BY <1>1, GuidLemma DEF CloseTap, Types, Accounts, Fields, Locals, Handles, Events,
         TapClose, Closed, Goes
  <2> QED BY <2>1, <2>2, <2>3, <2>4 DEF Types
<1>3. OnlyOf(p)
  BY <1>1 DEF CloseTap, Types, OnlyOf, TapClose, Closed, Goes
<1>4. Accounts(p)'
  BY <1>1, <1>2, GuidLemma DEF CloseTap, Types, Accounts, Fields, Locals, WinPlaces,
       PosixPlaces, Handles, Events, TapClose, Closed, Goes
<1> QED BY <1>1, <1>2, <1>3, <1>4, OthersKeep

LEMMA AttachBridgeKeeps ==
    ASSUME IInv, AttachBridge
    PROVE  IInv'
<1>1. Types /\ Accounts("run") /\ "run" \in Procs
  BY DEF IInv, Procs
<1>2. Types'
  <2>1. /\ os' \in {"windows", "posix"} /\ registry' \in Seq(Adapters)
        /\ pc' \in [Procs -> {"IDLE", "OPEN"} \union WinPlaces \union PosixPlaces]
        /\ net' \in [Procs -> {"none", "new", "mtu", "up", "bridged"}]
    BY <1>1 DEF AttachBridge, Types, WinPlaces, PosixPlaces, Goes, Took
  <2>2. search' \in [Procs -> Searches] /\ guid' \in [Procs -> Guids]
    BY <1>1, RegistryLemma, FoundLemma DEF AttachBridge, Types, Searches, Guids, Goes,
         Took
  <2>3. /\ tap' \in [Procs -> SUBSET (Guids \union Handles)]
        /\ held' \in [Procs -> SUBSET (Guids \union Handles)]
    BY <1>1 DEF AttachBridge, Types, Handles, Events, Goes, Took
  <2>4. ~twice'
    BY <1>1, GuidLemma DEF AttachBridge, Types, Accounts, Fields, Locals, Handles,
         Events, Goes, Took
  <2> QED BY <2>1, <2>2, <2>3, <2>4 DEF Types
<1>3. OnlyOf("run")
  BY <1>1 DEF AttachBridge, Types, OnlyOf, Goes, Took
<1>4. Accounts("run")'
  BY <1>1, <1>2, GuidLemma DEF AttachBridge, Types, Accounts, Fields, Locals,
       WinPlaces, PosixPlaces, Handles, Events, Goes, Took
<1> QED BY <1>1, <1>2, <1>3, <1>4, OthersKeep

LEMMA BridgeAddKeeps ==
    ASSUME IInv, BridgeAdd
    PROVE  IInv'
<1>1. Types /\ Accounts("run") /\ "run" \in Procs
  BY DEF IInv, Procs
<1>2. Types'
  <2>1. /\ os' \in {"windows", "posix"} /\ registry' \in Seq(Adapters)
        /\ pc' \in [Procs -> {"IDLE", "OPEN"} \union WinPlaces \union PosixPlaces]
        /\ net' \in [Procs -> {"none", "new", "mtu", "up", "bridged"}]
    BY <1>1 DEF BridgeAdd, Types, WinPlaces, PosixPlaces, Goes, Closed
  <2>2. search' \in [Procs -> Searches] /\ guid' \in [Procs -> Guids]
    BY <1>1, RegistryLemma, FoundLemma DEF BridgeAdd, Types, Searches, Guids, Goes, Closed
  <2>3. /\ tap' \in [Procs -> SUBSET (Guids \union Handles)]
        /\ held' \in [Procs -> SUBSET (Guids \union Handles)]
    BY <1>1 DEF BridgeAdd, Types, Handles, Events, Goes, Closed
  <2>4. ~twice'
    BY <1>1, GuidLemma DEF BridgeAdd, Types, Accounts, Fields, Locals, Handles,
         Events, Goes, Closed
  <2> QED BY <2>1, <2>2, <2>3, <2>4 DEF Types
<1>3. OnlyOf("run")
  BY <1>1 DEF BridgeAdd, Types, OnlyOf, Goes, Closed
<1>4. Accounts("run")'
  BY <1>1, <1>2, GuidLemma DEF BridgeAdd, Types, Accounts, Fields, Locals, WinPlaces,
       PosixPlaces, Handles, Events, Goes, Closed
<1> QED BY <1>1, <1>2, <1>3, <1>4, OthersKeep

LEMMA CheckEnumeratesKeeps ==
    ASSUME IInv, CheckEnumerates
    PROVE  IInv'
<1>1. Types /\ Accounts("check") /\ "check" \in Procs
  BY DEF IInv, Procs
<1>2. Types'
  <2>1. /\ os' \in {"windows", "posix"} /\ registry' \in Seq(Adapters)
        /\ pc' \in [Procs -> {"IDLE", "OPEN"} \union WinPlaces \union PosixPlaces]
        /\ net' \in [Procs -> {"none", "new", "mtu", "up", "bridged"}]
    BY <1>1 DEF CheckEnumerates, Types, WinPlaces, PosixPlaces, Goes, devVars
  <2>2. search' \in [Procs -> Searches] /\ guid' \in [Procs -> Guids]
    BY <1>1, RegistryLemma, FoundLemma DEF CheckEnumerates, Types, Searches, Guids,
         Goes, devVars
  <2>3. /\ tap' \in [Procs -> SUBSET (Guids \union Handles)]
        /\ held' \in [Procs -> SUBSET (Guids \union Handles)]
    BY <1>1 DEF CheckEnumerates, Types, Handles, Events, Goes, devVars
  <2>4. ~twice'
    BY <1>1, GuidLemma DEF CheckEnumerates, Types, Accounts, Fields, Locals, Handles,
         Events, Goes, devVars
  <2> QED BY <2>1, <2>2, <2>3, <2>4 DEF Types
<1>3. OnlyOf("check")
  BY <1>1 DEF CheckEnumerates, Types, OnlyOf, Goes, devVars
<1>4. Accounts("check")'
  BY <1>1, <1>2, GuidLemma DEF CheckEnumerates, Types, Accounts, Fields, Locals,
       WinPlaces, PosixPlaces, Handles, Events, Goes, devVars
<1> QED BY <1>1, <1>2, <1>3, <1>4, OthersKeep

LEMMA ChangeKeeps ==
    ASSUME IInv, Change
    PROVE  IInv'
<1>1. registry \in Seq(Adapters) /\ UNCHANGED <<os, pc, search, guid, devVars>>
  BY DEF IInv, Types, Change
<1>2. registry' \in Seq(Adapters)
  <2>1. CASE \E i \in DOMAIN registry : registry' = RemoveAt(registry, i)
    <3>1. PICK i \in 1 .. Len(registry) : registry' = RemoveAt(registry, i)
      BY <1>1, <2>1
    <3>2. /\ SubSeq(registry, 1, i - 1) \in Seq(Adapters)
          /\ SubSeq(registry, i + 1, Len(registry)) \in Seq(Adapters)
      BY <1>1
    <3> QED BY <3>1, <3>2 DEF RemoveAt
  <2>2. CASE \E a \in Adapters, i \in 1 .. Len(registry) + 1 :
                registry' = InsertAt(registry, i, a)
    <3>1. PICK a \in Adapters, i \in 1 .. Len(registry) + 1 :
             registry' = InsertAt(registry, i, a)
      BY <2>2
    <3>2. /\ SubSeq(registry, 1, i - 1) \in Seq(Adapters)
          /\ SubSeq(registry, i, Len(registry)) \in Seq(Adapters) /\ <<a>> \in Seq(Adapters)
      BY <1>1
    <3> QED BY <3>1, <3>2 DEF InsertAt
  <2> QED BY <2>1, <2>2 DEF Change
<1>3. Types'
  BY <1>1, <1>2 DEF IInv, Types, devVars
<1> QED BY <1>1, <1>3 DEF IInv, Accounts, Fields, Locals, devVars

LEMMA StepKeeps ==
    ASSUME IInv, [Next]_vars
    PROVE  IInv'
<1>1. CASE UNCHANGED vars
  BY <1>1 DEF IInv, Types, Accounts, Fields, Locals, vars, devVars
<1>2. CASE CheckEnumerates \/ AttachBridge \/ BridgeAdd \/ Change
  BY <1>2, CheckEnumeratesKeeps, AttachBridgeKeeps, BridgeAddKeeps, ChangeKeeps
<1>3. ASSUME NEW p \in Procs,
             \/ WinOpen(p) \/ SearchNext(p) \/ SearchEnd(p)
             \/ OpenDevice(p) \/ CreateEvents(p) \/ SetMediaStatus(p)
      PROVE  IInv'
  BY <1>3, WinOpenKeeps, SearchNextKeeps, SearchEndKeeps, OpenDeviceKeeps,
     CreateEventsKeeps, SetMediaStatusKeeps
<1>4. ASSUME NEW p \in Procs,
             \/ PosixOpen(p) \/ SetIff(p) \/ ControlSocket(p) \/ SetMtu(p) \/ SetUp(p)
             \/ CloseTap(p)
      PROVE  IInv'
  BY <1>4, PosixOpenKeeps, SetIffKeeps, ControlSocketKeeps, SetMtuKeeps, SetUpKeeps,
     CloseTapKeeps
<1> QED BY <1>1, <1>2, <1>3, <1>4 DEF Next

LEMMA Start == Init => IInv
<1> SUFFICES ASSUME Init PROVE IInv
  OBVIOUS
<1>1. registry \in Seq(Adapters)
  <2>1. CASE os = "posix"
    BY <2>1 DEF Init
  <2>2. CASE os # "posix"
    <3>1. PICK n \in 0 .. MaxAdapters : registry \in [1 .. n -> Adapters]
      BY <2>2 DEF Init
    <3> QED BY <3>1, NameAssumption
  <2> QED BY <2>1, <2>2
<1>2. "empty" \in Guids
  BY DEF Guids
<1>3. /\ search \in [Procs -> Searches] /\ guid \in [Procs -> Guids]
  BY <1>2 DEF Init, Searches, NoSearch
<1>4. Types
  BY <1>1, <1>3 DEF Init, Types
<1>5. \A p \in Procs : Accounts(p)
  BY DEF Init, Accounts, Fields, Locals, WinPlaces, PosixPlaces
<1> QED BY <1>4, <1>5 DEF IInv

-----------------------------------------------------------------------------
(* IInv holds in every reachable state. *)
THEOREM Inductive == Spec => []IInv
<1> QED BY Start, StepKeeps, PTL DEF Spec

(* OwnedExactly, of ntap_tap_open, ntap_tap_close, tap_set_mtu, tap_set_up   *)
(* and the environment check: whichever call fails in whichever process,    *)
(* nothing stays open that the struct does not name, and nothing is closed  *)
(* twice.                                                                   *)
THEOREM NothingLeaks == Spec => []OwnedExactly
<1>1. IInv => OwnedExactly
  <2> SUFFICES ASSUME IInv, NEW p \in Procs
               PROVE  /\ pc[p] \in {"IDLE", "START", "OPEN"} => held[p] = tap[p]
                      /\ pc[p] \in {"IDLE", "START"} => held[p] = {} /\ net[p] = "none"
                      /\ pc[p] = "OPEN" /\ os = "posix" => net[p] \in {"up", "bridged"}
    BY DEF IInv, Types, OwnedExactly
  <2>1. Accounts(p)
    BY DEF IInv
  <2>2. pc[p] \in {"IDLE", "START", "OPEN"} => Locals(p) = {}
    BY DEF Locals
  <2>3. pc[p] \in {"IDLE", "START"} => Fields(p) = {}
    BY DEF Fields
  <2> QED BY <2>1, <2>2, <2>3 DEF Accounts, WinPlaces
<1> QED BY <1>1, Inductive, PTL

-----------------------------------------------------------------------------
(* The search. *)

LEMMA WantedSame ==
    ASSUME registry' = registry, name' = name
    PROVE  Wanted' = Wanted
  BY DEF Wanted, Usable, Supported, Matches

(* The adapters as the search sees them. *)
UsableOnes == {i \in DOMAIN registry : Usable(registry[i])}
NamedOnes  == {i \in UsableOnes : Matches(name, registry[i])}

LEMMA UsableFinite ==
    ASSUME Types
    PROVE  /\ IsFiniteSet(UsableOnes)
           /\ UsableOnes = {i \in 1 .. Len(registry) : Usable(registry[i])}
           /\ Len(registry) \in Nat
<1>1. /\ UsableOnes = {i \in 1 .. Len(registry) : Usable(registry[i])}
      /\ Len(registry) \in Nat
  BY DEF Types, UsableOnes
<1>2. IsFiniteSet(1 .. Len(registry))
  BY <1>1, FS_Interval
<1> QED BY <1>1, <1>2, FS_Subset

(* Wanted, when a name fits. *)
LEMMA WantedNamed ==
    ASSUME Types, NEW i \in NamedOnes, \A j \in NamedOnes : i <= j
    PROVE  Wanted = registry[i].guid
<1>1. NamedOnes \subseteq Nat
  BY UsableFinite DEF NamedOnes
<1>2. \A k \in NamedOnes : (\A j \in NamedOnes : k <= j) => k = i
  BY <1>1
<1>3. (CHOOSE k \in NamedOnes : \A j \in NamedOnes : k <= j) = i
  BY <1>2
<1> QED BY <1>3 DEF Wanted, NamedOnes, UsableOnes

(* Wanted, when none does. *)
LEMMA WantedOnly ==
    ASSUME Types, NamedOnes = {}
    PROVE  /\ UsableOnes = {} => Wanted = "empty"
           /\ \A i \in UsableOnes : UsableOnes = {i} => Wanted = registry[i].guid
           /\ \A i, j \in UsableOnes : i # j => Wanted = "empty"
<1>1. Wanted = IF Cardinality(UsableOnes) = 1
               THEN registry[CHOOSE i \in UsableOnes : TRUE].guid ELSE "empty"
  BY DEF Wanted, NamedOnes, UsableOnes
<1>2. UsableOnes = {} => Cardinality(UsableOnes) # 1
  BY FS_EmptySet
<1>3. ASSUME NEW i \in UsableOnes, UsableOnes = {i}
      PROVE  Wanted = registry[i].guid
  <2>1. Cardinality(UsableOnes) = 1
    BY <1>3, FS_Singleton
  <2>2. (CHOOSE k \in UsableOnes : TRUE) = i
    BY <1>3
  <2> QED BY <1>1, <2>1, <2>2
<1>4. ASSUME NEW i \in UsableOnes, NEW j \in UsableOnes, i # j
      PROVE  Wanted = "empty"
  <2>1. ~\E x : UsableOnes = {x}
    BY <1>4
  <2>2. Cardinality(UsableOnes) # 1
    BY <2>1, UsableFinite, FS_Singleton
  <2> QED BY <1>1, <2>2
<1> QED BY <1>1, <1>2, <1>3, <1>4

-----------------------------------------------------------------------------
(* Every other step: nothing that the search looked at or found changes. *)
QuietStep(p) ==
    /\ UNCHANGED <<os, registry, name, search, guid, stable>>
    /\ \A q \in Procs \ {p} : pc'[q] = pc[q]
    /\ pc[p] # "SEARCH" /\ pc'[p] \notin {"SEARCH", "START", "DEVICE"}
    /\ Chooses(p)' => Chooses(p)
    /\ verdict' = "none" =>
         verdict = "none" /\ (pc'[p] \in {"IDLE", "OPEN"} => p = "run" \/ pc[p] = "OPEN")

LEMMA QuietSteps ==
    ASSUME JInv, NEW p \in Procs,
           \/ OpenDevice(p) \/ CreateEvents(p) \/ SetMediaStatus(p)
           \/ PosixOpen(p) \/ SetIff(p) \/ ControlSocket(p) \/ SetMtu(p) \/ SetUp(p)
           \/ CloseTap(p)
    PROVE  QuietStep(p)
<1>1. Types /\ Accounts(p)
  BY DEF JInv, IInv
<1> USE DEF QuietStep, Chooses, Types, Accounts, WinPlaces, PosixPlaces,
           OpenReturns, Goes, Procs
<1>2. CASE OpenDevice(p) \/ CreateEvents(p) \/ SetMediaStatus(p)
  BY <1>1, <1>2 DEF OpenDevice, CreateEvents, SetMediaStatus
<1>3. CASE PosixOpen(p) \/ SetIff(p) \/ ControlSocket(p)
  BY <1>1, <1>3 DEF PosixOpen, SetIff, ControlSocket, FdClose
<1>4. CASE SetMtu(p) \/ SetUp(p) \/ CloseTap(p)
  BY <1>1, <1>4 DEF SetMtu, SetUp, CloseTap, FdClose
<1> QED BY <1>2, <1>3, <1>4

LEMMA BridgeSteps ==
    ASSUME JInv, AttachBridge \/ BridgeAdd
    PROVE  QuietStep("run")
<1>1. Types /\ "run" \in Procs /\ Accounts("run")
  BY DEF JInv, IInv, Procs
<1> QED BY <1>1 DEF QuietStep, Chooses, Types, Accounts, PosixPlaces, AttachBridge,
     BridgeAdd, Goes, Procs

(* A device that is held is that of the id chosen, and it was chosen.       *)
LEMMA HeldLemma ==
    ASSUME Types, NEW p \in Procs, Accounts(p)
    PROVE  guid[p] \in held[p] <=> Chooses(p) /\ pc[p] # "DEVICE"
<1>1. guid[p] \notin Handles
  BY GuidLemma DEF Types
<1> QED BY <1>1 DEF Types, Accounts, Fields, Locals, Chooses, Handles, Events, WinPlaces,
            PosixPlaces

(* The device that CreateFile opens is a TAP adapter's, now as when it was   *)
(* chosen.                                                                  *)
LEMMA OpenedLemma ==
    ASSUME JInv, NEW p \in Procs, OpenDevice(p), pc'[p] = "EVENTS"
    PROVE  \E i \in DOMAIN registry : registry[i].guid = guid[p] /\ Supported(registry[i])
<1>1. Types /\ Found(p) /\ pc[p] = "DEVICE"
  BY DEF JInv, IInv, OpenDevice
<1>2. Exists(guid[p])
  BY <1>1 DEF OpenDevice, OpenReturns, Types
<1>3. PICK i \in DOMAIN registry : registry[i].guid = guid[p]
  BY <1>2 DEF Exists
<1>4. PICK a \in Adapters : Supported(a) /\ a.guid = guid[p] /\ a.guid # "empty"
  BY <1>1 DEF Found, Chooses, TapId
<1>5. registry[i] \in Adapters
  BY <1>1, RegistryLemma
<1>6. registry[i].kind = a.kind
  BY <1>3, <1>4, <1>5, GuidAssumption
<1> QED BY <1>3, <1>4, <1>6 DEF Supported

LEMMA QuietKeeps ==
    ASSUME JInv, IInv', NEW p \in Procs, QuietStep(p),
           pc[p] = "DEVICE" /\ pc'[p] # "IDLE" => OpenDevice(p) /\ pc'[p] = "EVENTS"
    PROVE  JInv'
<1>1. ASSUME NEW q \in Procs PROVE Found(q)' /\ Searching(q)' /\ Chosen(q)'
  <2>1. /\ Found(q) /\ Searching(q) /\ Chosen(q)
        /\ UNCHANGED <<os, registry, name, search, guid, stable>>
        /\ Chooses(q)' => Chooses(q)
        /\ pc'[q] = "SEARCH" <=> pc[q] = "SEARCH"
    BY DEF JInv, QuietStep, Chooses
  <2>2. Wanted' = Wanted
    BY <2>1, WantedSame
  <2>3. Found(q)'
    BY <2>1 DEF Found, TapId, Supported
  <2>4. Chosen(q)'
    BY <2>1, <2>2 DEF Chosen, Searched
  <2>5. Passed(q)' = Passed(q)
    BY <2>1 DEF Passed, Usable, Supported
  <2>6. Searching(q)'
    BY <2>1, <2>5 DEF Searching, Matches
  <2> QED BY <2>3, <2>4, <2>6
<1>2. CheckOnce'
  <2>1. CheckOnce /\ (p = "run" \/ p = "check")
    BY DEF JInv, Procs
  <2> QED BY <2>1 DEF QuietStep, CheckOnce, Procs
<1>3. ASSUME NEW q \in Procs, guid'[q] \in held'[q]
      PROVE  \E i \in DOMAIN registry' :
               registry'[i].guid = guid'[q] /\ Supported(registry'[i])
  <2>1. registry' = registry /\ guid' = guid /\ os' = os
    BY DEF QuietStep
  <2>2. Chooses(q)' /\ pc'[q] # "DEVICE"
    <3>1. Types' /\ Accounts(q)'
      BY DEF IInv
    <3>2. guid'[q] \notin Handles
      BY <3>1, GuidLemma DEF Types
    <3> QED BY <1>3, <3>1, <3>2 DEF Types, Accounts, Fields, Locals, Chooses, Handles,
               Events, WinPlaces, PosixPlaces
  <2>3. CASE pc[q] = "DEVICE"
    <3>1. q = p /\ pc'[p] # "IDLE"
      BY <2>2, <2>3 DEF QuietStep, Chooses
    <3> QED BY <2>1, <2>3, <3>1, OpenedLemma
  <2>4. CASE pc[q] # "DEVICE"
    <3>1. Chooses(q) /\ Types /\ Accounts(q) /\ Backed(q)
      BY <2>2 DEF QuietStep, Chooses, JInv, IInv
    <3>2. guid[q] \in held[q]
      BY <2>4, <3>1, HeldLemma
    <3> QED BY <2>1, <3>1, <3>2 DEF Backed
  <2> QED BY <2>3, <2>4
<1>4. \A q \in Procs : Backed(q)'
  BY <1>3 DEF Backed, Supported
<1> QED BY <1>1, <1>2, <1>4 DEF JInv, QuietStep

-----------------------------------------------------------------------------
(* The steps of the search, and of the registry. *)

LEMMA OthersFound ==
    ASSUME JInv, NEW p \in Procs, NEW q \in Procs \ {p}, OnlyOf(p),
           UNCHANGED <<registry, name>>, search'[q] = search[q], stable'[q] = stable[q]
    PROVE  Found(q)' /\ Searching(q)' /\ Chosen(q)' /\ Backed(q)'
<1>1. /\ Found(q) /\ Searching(q) /\ Chosen(q) /\ Backed(q)
      /\ UNCHANGED <<os, registry, name>>
      /\ pc'[q] = pc[q] /\ guid'[q] = guid[q] /\ held'[q] = held[q]
  BY DEF JInv, OnlyOf
<1>2. Wanted' = Wanted
  BY <1>1, WantedSame
<1>3. Found(q)'
  BY <1>1 DEF Found, TapId, Supported, Chooses
<1>4. Chosen(q)'
  BY <1>1, <1>2 DEF Chosen, Searched
<1>5. Passed(q)' = Passed(q)
  BY <1>1 DEF Passed, Usable, Supported
<1>6. Searching(q)'
  BY <1>1, <1>5 DEF Searching, Matches
<1>7. Backed(q)'
  BY <1>1 DEF Backed, Supported
<1> QED BY <1>3, <1>4, <1>6, <1>7

(* A process that has no device open is backed by none. *)
LEMMA NothingHeld ==
    ASSUME IInv', NEW p \in Procs, pc'[p] \in {"IDLE", "START", "SEARCH", "DEVICE"}
    PROVE  Backed(p)'
<1>1. Types' /\ Accounts(p)'
  BY DEF IInv
<1>2. guid'[p] \notin Handles
  BY <1>1, GuidLemma DEF Types
<1>3. guid'[p] \notin held'[p]
  BY <1>1, <1>2 DEF Accounts, Fields, Locals, Handles
<1> QED BY <1>3 DEF Backed

LEMMA WinOpenFinds ==
    ASSUME JInv, IInv', NEW p \in Procs, WinOpen(p)
    PROVE  JInv'
<1>1. Types /\ stable \in [Procs -> BOOLEAN] /\ (p = "run" \/ p = "check")
  BY DEF JInv, IInv, Procs
<1>2. /\ guid'[p] = "empty" /\ search'[p] = NoSearch /\ UNCHANGED <<registry, name>>
      /\ \A q \in Procs \ {p} : search'[q] = search[q]
  BY <1>1 DEF WinOpen, Types
<1>3. \/ /\ stable' = [stable EXCEPT ![p] = TRUE]
         /\ pc' = [pc EXCEPT ![p] = "SEARCH"] /\ verdict' = verdict
      \/ /\ stable' = [stable EXCEPT ![p] = FALSE] /\ pc' = [pc EXCEPT ![p] = "IDLE"]
         /\ verdict' = IF p = "check" THEN "failed" ELSE verdict
  BY DEF WinOpen, Goes, OpenReturns
<1>4. /\ \A q \in Procs \ {p} : stable'[q] = stable[q]
      /\ stable' \in [Procs -> BOOLEAN]
  BY <1>1, <1>3
<1>5. \/ pc'[p] = "SEARCH" /\ verdict' = verdict
      \/ /\ pc'[p] = "IDLE" /\ stable'[p] = FALSE
         /\ verdict' = IF p = "check" THEN "failed" ELSE verdict
  BY <1>1, <1>3 DEF Types
<1>6. OnlyOf(p)
  BY <1>1 DEF WinOpen, Types, OnlyOf, MayOpen, OpenReturns, Goes, Took, NoSearch
<1>7. Found(p)'
  BY <1>2, <1>5 DEF Found, Chooses, NoSearch
<1>8. Passed(p)' = {}
  BY <1>2 DEF Passed, NoSearch
<1>9. Searching(p)' /\ Chosen(p)'
  BY <1>2, <1>8, <1>5 DEF Searching, Chosen, Searched, NoSearch
<1>10. Backed(p)'
  BY <1>5, NothingHeld
<1>11. CheckOnce'
  <2>1. CASE p = "check"
    BY <1>5, <2>1 DEF CheckOnce
  <2>2. CASE p = "run"
    <3>1. verdict' = verdict /\ pc'["check"] = pc["check"] /\ guid'["check"] = guid["check"]
      BY <1>5, <1>6, <2>2 DEF OnlyOf, Procs
    <3> QED BY <3>1 DEF JInv, CheckOnce
  <2> QED BY <1>1, <2>1, <2>2
<1>12. ASSUME NEW q \in Procs
       PROVE  Found(q)' /\ Searching(q)' /\ Chosen(q)' /\ Backed(q)'
  <2>1. CASE q = p
    BY <1>7, <1>9, <1>10, <2>1
  <2>2. CASE q # p
    BY <1>2, <1>4, <1>6, <2>2, OthersFound
  <2> QED BY <2>1, <2>2
<1> QED BY <1>4, <1>11, <1>12 DEF JInv

LEMMA CheckEnumeratesFinds ==
    ASSUME JInv, IInv', CheckEnumerates
    PROVE  JInv'
<1> DEFINE p == "check"
<1>1. /\ Types /\ stable \in [Procs -> BOOLEAN] /\ p \in Procs
      /\ Found(p) /\ guid[p] = "empty" /\ pc[p] = "IDLE"
  BY DEF JInv, IInv, Procs, CheckEnumerates, CheckOnce
<1>2. /\ UNCHANGED <<registry, name, search, guid>>
      /\ \A q \in Procs \ {p} : stable'[q] = stable[q]
      /\ stable' \in [Procs -> BOOLEAN]
      /\ \/ pc'[p] = "START" /\ stable'[p] = FALSE /\ verdict' = "none"
         \/ pc'[p] = "IDLE" /\ stable'[p] = CountsNone /\ verdict' = "missing"
  BY <1>1 DEF CheckEnumerates, Types, Goes, CountsNone
<1>3. OnlyOf(p)
  BY <1>1 DEF CheckEnumerates, Types, OnlyOf, Goes, devVars
<1>4. Found(p)'
  BY <1>1, <1>2 DEF Found, Chooses, TapId, Supported
<1>5. Searching(p)'
  BY <1>2 DEF Searching
<1>6. Chosen(p)'
  <2>1. CountsNone => Wanted = "empty"
    <3>1. CountsNone => UsableOnes = {} /\ NamedOnes = {}
      BY DEF CountsNone, UsableOnes, NamedOnes, Usable
    <3> QED BY <1>1, <3>1, WantedOnly
  <2>2. Wanted' = Wanted
    BY <1>2, WantedSame
  <2> QED BY <1>1, <1>2, <2>1, <2>2 DEF Chosen, Searched
<1>7. Backed(p)'
  BY <1>1, <1>2, NothingHeld
<1>8. CheckOnce'
  BY <1>1, <1>2 DEF CheckOnce
<1> QED BY <1>1, <1>2, <1>3, <1>4, <1>5, <1>6, <1>7, <1>8, OthersFound DEF JInv

LEMMA SearchNextFinds ==
    ASSUME JInv, IInv', NEW p \in Procs, SearchNext(p)
    PROVE  JInv'
<1> DEFINE a == registry[search[p].idx]
           s == search[p]
<1>1. /\ Types /\ stable \in [Procs -> BOOLEAN] /\ (p = "run" \/ p = "check")
      /\ Found(p) /\ Searching(p) /\ pc[p] = "SEARCH" /\ s \in Searches
      /\ s.idx \in 1 .. Len(registry) /\ Len(registry) \in Nat
  BY DEF JInv, IInv, Procs, SearchNext, Types, Searches
<1>2. /\ UNCHANGED <<registry, name, stable, verdict>>
      /\ \A q \in Procs \ {p} : search'[q] = search[q]
  BY <1>1 DEF SearchNext, Types, Goes
<1>3. OnlyOf(p)
  BY <1>1 DEF SearchNext, Types, OnlyOf, Goes, Closed
<1>4. a \in Adapters /\ s.idx \in DOMAIN registry
  BY <1>1, RegistryLemma DEF Types
<1>5. Backed(p)'
  <2>1. pc'[p] \in {"SEARCH", "DEVICE"}
    BY <1>1 DEF SearchNext, Types, Goes
  <2> QED BY <2>1, NothingHeld
<1>6. CheckOnce'
  BY <1>1, <1>2, <1>3 DEF JInv, CheckOnce, OnlyOf, SearchNext, Goes, Types, Procs
<1>7. Wanted' = Wanted
  BY <1>2, WantedSame
<1>8. CASE Usable(a) /\ Matches(name, a)
  <2>1. guid'[p] = a.guid /\ search' = search /\ pc'[p] = "DEVICE"
    BY <1>1, <1>8 DEF SearchNext, Goes, Types
  <2>2. Found(p)'
    BY <1>1, <1>4, <1>8, <2>1 DEF Found, TapId, Usable, Supported
  <2>3. Searching(p)'
    BY <2>1 DEF Searching
  <2>4. stable[p] => Wanted = a.guid
    <3> SUFFICES ASSUME stable[p] PROVE Wanted = a.guid
      OBVIOUS
    <3>1. s.idx \in NamedOnes
      BY <1>4, <1>8 DEF NamedOnes, UsableOnes
    <3>2. \A j \in NamedOnes : s.idx <= j
      <4>1. \A j \in NamedOnes : j \in 1 .. Len(registry) /\ j \notin Passed(p)
        BY <1>1 DEF NamedOnes, UsableOnes, Searching, Types
      <4>2. \A j \in NamedOnes : ~(j < s.idx)
        BY <4>1 DEF Passed, NamedOnes, UsableOnes
      <4> QED BY <1>1, <4>1, <4>2
    <3> QED BY <1>1, <3>1, <3>2, WantedNamed
  <2>5. Chosen(p)'
    BY <1>2, <1>7, <2>1, <2>4 DEF Chosen, Searched
  <2> QED BY <1>2, <1>3, <1>5, <1>6, <2>2, <2>3, <2>5, OthersFound DEF JInv
<1>9. CASE ~(Usable(a) /\ Matches(name, a))
  <2> DEFINE t == search'[p]
  <2>1. /\ t = [idx   |-> s.idx + 1,
                found |-> IF Usable(a) THEN s.found + 1 ELSE s.found,
                first |-> IF Usable(a) /\ s.first = "empty" THEN a.guid ELSE s.first]
        /\ UNCHANGED <<guid, pc>>
    BY <1>1, <1>9 DEF SearchNext, Types
  <2>2. Found(p)'
    <3>1. t.first # "empty" => TapId(t.first)
      BY <1>1, <1>4, <2>1 DEF Found, TapId, Usable
    <3> QED BY <1>1, <2>1, <3>1 DEF Found, TapId, Supported, Chooses
  <2>3. Chosen(p)'
    BY <1>1, <2>1 DEF Chosen, Searched
  <2>4. Passed(p)' = IF Usable(a) THEN Passed(p) \union {s.idx} ELSE Passed(p)
    <3>1. t.idx = s.idx + 1 /\ s.idx \in Nat
      BY <1>1, <2>1
    <3>2. \A i \in 1 .. Len(registry) : i < t.idx <=> i < s.idx \/ i = s.idx
      BY <1>1, <3>1
    <3>3. Passed(p)' = {i \in 1 .. Len(registry) : i < t.idx /\ Usable(registry[i])}
      BY <1>2 DEF Passed, Usable, Supported
    <3> QED BY <1>1, <3>2, <3>3 DEF Passed
  <2>5. Searching(p)'
    <3> SUFFICES ASSUME stable[p]
                 PROVE  /\ \A i \in Passed(p)' : ~Matches(name, registry[i])
                        /\ t.found = 0 => Passed(p)' = {} /\ t.first = "empty"
                        /\ t.found > 0 => \E i \in Passed(p)' : t.first = registry[i].guid
                        /\ t.found = 1 => \A i, j \in Passed(p)' : i = j
                        /\ t.found > 1 => \E i, j \in Passed(p)' : i # j
      BY <1>2 DEF Searching, Matches
    <3>1. /\ \A i \in Passed(p) : ~Matches(name, registry[i])
          /\ s.found = 0 => Passed(p) = {} /\ s.first = "empty"
          /\ s.found > 0 => \E i \in Passed(p) : s.first = registry[i].guid
          /\ s.found = 1 => \A i, j \in Passed(p) : i = j
          /\ s.found > 1 => \E i, j \in Passed(p) : i # j
          /\ s.found \in Nat
      BY <1>1 DEF Searching, Searches
    <3>2. \A i \in Passed(p) : i # s.idx /\ registry[i].guid # "empty"
      BY <1>1 DEF Passed, Usable
    <3>3. CASE ~Usable(a)
      BY <2>1, <2>4, <3>1, <3>3
    <3>4. CASE Usable(a)
      <4>1. /\ Passed(p)' = Passed(p) \union {s.idx} /\ t.found = s.found + 1
            /\ t.first = IF s.first = "empty" THEN a.guid ELSE s.first
        BY <2>1, <2>4, <3>4
      <4>2. \A i \in Passed(p)' : ~Matches(name, registry[i])
        BY <1>9, <3>1, <3>4, <4>1
      <4>3. \E i \in Passed(p)' : t.first = registry[i].guid
        BY <3>1, <3>2, <4>1
      <4>4. t.found = 1 => \A i, j \in Passed(p)' : i = j
        BY <3>1, <4>1
      <4>5. t.found > 1 => \E i, j \in Passed(p)' : i # j
        <5> SUFFICES ASSUME s.found > 0 PROVE \E i, j \in Passed(p)' : i # j
          BY <3>1, <4>1
        <5> QED BY <3>1, <3>2, <4>1
      <4> QED BY <3>1, <4>1, <4>2, <4>3, <4>4, <4>5
    <3> QED BY <3>3, <3>4
  <2> QED BY <1>2, <1>3, <1>5, <1>6, <2>2, <2>3, <2>5, OthersFound DEF JInv
<1> QED BY <1>8, <1>9

LEMMA SearchEndFinds ==
    ASSUME JInv, IInv', NEW p \in Procs, SearchEnd(p)
    PROVE  JInv'
<1> DEFINE s == search[p]
<1>1. /\ Types /\ stable \in [Procs -> BOOLEAN] /\ (p = "run" \/ p = "check")
      /\ Found(p) /\ Searching(p) /\ pc[p] = "SEARCH" /\ s \in Searches
      /\ s.idx > Len(registry) /\ Len(registry) \in Nat
  BY DEF JInv, IInv, Procs, SearchEnd, Types, Searches
<1>2. UNCHANGED <<registry, name, stable, search>> /\ guid'[p] = OnlyFound(s)
  BY <1>1 DEF SearchEnd, Types
<1>3. OnlyOf(p)
  BY <1>1 DEF SearchEnd, Types, OnlyOf, Goes, Closed, OpenReturns
<1>4. \/ pc'[p] = "DEVICE" /\ OnlyFound(s) # "empty" /\ verdict' = verdict
      \/ /\ pc'[p] = "IDLE" /\ OnlyFound(s) = "empty"
         /\ verdict' = IF p = "check" THEN "failed" ELSE verdict
  BY <1>1 DEF SearchEnd, Types, Goes, OpenReturns
<1>5. Backed(p)'
  BY <1>4, NothingHeld
<1>6. CheckOnce'
  BY <1>1, <1>3, <1>4 DEF JInv, CheckOnce, OnlyOf, Procs
<1>7. Found(p)'
  BY <1>1, <1>2, <1>4 DEF Found, TapId, Supported, Chooses, OnlyFound
<1>8. Searching(p)'
  BY <1>4 DEF Searching
<1>9. stable[p] => Wanted = OnlyFound(s)
  <2> SUFFICES ASSUME stable[p] PROVE Wanted = OnlyFound(s)
    OBVIOUS
  <2>1. Passed(p) = UsableOnes
    BY <1>1, UsableFinite DEF Passed, Searches
  <2>2. NamedOnes = {}
    BY <1>1, <2>1 DEF NamedOnes, Searching
  <2>3. s.found \in Nat
    BY <1>1 DEF Searches
  <2>4. CASE s.found = 0
    BY <1>1, <2>1, <2>2, <2>4, WantedOnly DEF Searching, OnlyFound
  <2>5. CASE s.found = 1
    <3>1. PICK i \in UsableOnes : s.first = registry[i].guid /\ UsableOnes = {i}
      BY <1>1, <2>1, <2>5 DEF Searching
    <3> QED BY <1>1, <2>2, <2>5, <3>1, WantedOnly DEF OnlyFound
  <2>6. CASE s.found > 1
    <3>1. \E i, j \in UsableOnes : i # j
      BY <1>1, <2>1, <2>6 DEF Searching
    <3> QED BY <1>1, <2>2, <2>6, <3>1, WantedOnly DEF OnlyFound
  <2> QED BY <2>3, <2>4, <2>5, <2>6
<1>10. Chosen(p)'
  <2>1. Wanted' = Wanted
    BY <1>2, WantedSame
  <2> QED BY <1>2, <1>9, <2>1 DEF Chosen, Searched
<1> QED BY <1>1, <1>2, <1>3, <1>5, <1>6, <1>7, <1>8, <1>10, OthersFound DEF JInv

(* Two sequences, one after the other. *)
LEMMA Joined ==
    ASSUME NEW S, NEW s \in Seq(S), NEW t \in Seq(S)
    PROVE  /\ s \o t \in Seq(S) /\ Len(s \o t) = Len(s) + Len(t)
           /\ \A m \in 1 .. Len(s) : (s \o t)[m] = s[m]
           /\ \A m \in 1 .. Len(t) : (s \o t)[Len(s) + m] = t[m]
  OBVIOUS

(* A device that is held keeps its adapter. *)
LEMMA ChangeFinds ==
    ASSUME JInv, IInv', Change
    PROVE  JInv'
<1>1. /\ registry \in Seq(Adapters) /\ UNCHANGED <<os, pc, search, guid, held, verdict>>
      /\ stable' = [p \in Procs |-> FALSE] /\ CheckOnce
  BY DEF JInv, IInv, Types, Change, devVars
<1>2. CheckOnce' /\ stable' \in [Procs -> BOOLEAN]
  BY <1>1 DEF CheckOnce
<1>3. \A p \in Procs : Found(p)' /\ Searching(p)' /\ Chosen(p)'
  BY <1>1 DEF JInv, Found, TapId, Supported, Chooses, Searching, Chosen, Searched
<1>4. ASSUME NEW k \in DOMAIN registry, \E p \in Procs : registry[k].guid \in held[p]
      PROVE  \E j \in DOMAIN registry' : registry'[j] = registry[k]
  <2>1. k \in 1 .. Len(registry) /\ Len(registry) \in Nat
    BY <1>1
  <2>2. CASE \E i \in DOMAIN registry :
               /\ \A p \in Procs : Device(registry[i].guid) \notin held[p]
               /\ registry' = RemoveAt(registry, i)
    <3>1. PICK i \in 1 .. Len(registry) : /\ \A p \in Procs : registry[i].guid \notin held[p]
                                          /\ registry' = RemoveAt(registry, i)
      BY <1>1, <2>2 DEF Device
    <3>2. i # k
      BY <1>4, <3>1
    <3> DEFINE u == SubSeq(registry, 1, i - 1)
               v == SubSeq(registry, i + 1, Len(registry))
    <3>3. /\ u \in Seq(Adapters) /\ Len(u) = i - 1
          /\ \A m \in 1 .. i - 1 : u[m] = registry[m]
          /\ v \in Seq(Adapters) /\ Len(v) = Len(registry) - i
          /\ \A m \in 1 .. Len(registry) - i : v[m] = registry[m + i]
      BY <1>1
    <3>4. registry' = u \o v
      BY <3>1 DEF RemoveAt
    <3> HIDE DEF u, v
    <3>7. /\ DOMAIN registry' = 1 .. Len(registry) - 1
          /\ \A m \in 1 .. i - 1 : registry'[m] = u[m]
          /\ \A m \in 1 .. Len(registry) - i : registry'[i - 1 + m] = v[m]
      <4>1. /\ registry' \in Seq(Adapters) /\ Len(registry') = Len(u) + Len(v)
            /\ \A m \in 1 .. Len(u) : registry'[m] = u[m]
            /\ \A m \in 1 .. Len(v) : registry'[Len(u) + m] = v[m]
        <5>1. /\ u \o v \in Seq(Adapters) /\ Len(u \o v) = Len(u) + Len(v)
              /\ \A m \in 1 .. Len(u) : (u \o v)[m] = u[m]
              /\ \A m \in 1 .. Len(v) : (u \o v)[Len(u) + m] = v[m]
          <6>1. u \in Seq(Adapters) /\ v \in Seq(Adapters)
            BY <3>3
          <6> QED BY <6>1, Joined
        <5> QED BY <3>4, <5>1
      <4> QED BY <2>1, <3>3, <4>1
    <3>5. CASE k < i
      <4>1. k \in 1 .. i - 1
        BY <2>1, <3>5
      <4>2. registry'[k] = registry[k] /\ k \in DOMAIN registry'
        BY <3>3, <3>7, <4>1
      <4> QED BY <4>2
    <3>6. CASE k > i
      <4> DEFINE m == k - i
      <4>1. m \in 1 .. Len(registry) - i /\ m + i = k
        BY <2>1, <3>6
      <4> HIDE DEF m
      <4>2. v[m] = registry[k]
        BY <3>3, <4>1
      <4>3. registry'[i - 1 + m] = v[m]
        BY <3>3, <3>7, <4>1
      <4>4. i - 1 + m \in DOMAIN registry'
        BY <2>1, <3>7, <4>1
      <4> QED BY <4>2, <4>3, <4>4
    <3> QED BY <2>1, <3>2, <3>5, <3>6
  <2>3. CASE \E a \in Adapters, i \in 1 .. Len(registry) + 1 :
               registry' = InsertAt(registry, i, a)
    <3>1. PICK a \in Adapters, i \in 1 .. Len(registry) + 1 :
             registry' = InsertAt(registry, i, a)
      BY <2>3
    <3> DEFINE u == SubSeq(registry, 1, i - 1)
               v == SubSeq(registry, i, Len(registry))
    <3>2. /\ u \in Seq(Adapters) /\ Len(u) = i - 1
          /\ \A m \in 1 .. i - 1 : u[m] = registry[m]
          /\ v \in Seq(Adapters) /\ Len(v) = Len(registry) - i + 1
          /\ \A m \in 1 .. Len(registry) - i + 1 : v[m] = registry[m + i - 1]
      BY <1>1
    <3>3. registry' = u \o <<a>> \o v /\ u \o <<a>> \in Seq(Adapters)
      BY <3>1, <3>2 DEF InsertAt
    <3> DEFINE w == u \o <<a>>
    <3> HIDE DEF u, v
    <3>4. /\ w \in Seq(Adapters) /\ Len(w) = i
          /\ \A m \in 1 .. i - 1 : w[m] = registry[m]
      <4>1. <<a>> \in Seq(Adapters) /\ Len(<<a>>) = 1
        OBVIOUS
      <4>2. /\ w \in Seq(Adapters) /\ Len(w) = Len(u) + 1
            /\ \A m \in 1 .. Len(u) : w[m] = u[m]
        BY <3>2, <4>1, Joined
      <4> QED BY <3>2, <4>2
    <3> HIDE DEF w
    <3>5. /\ DOMAIN registry' = 1 .. Len(registry) + 1
          /\ \A m \in 1 .. i - 1 : registry'[m] = registry[m]
          /\ \A m \in 1 .. Len(registry) - i + 1 : registry'[i + m] = v[m]
      <4>1. /\ registry' \in Seq(Adapters) /\ Len(registry') = Len(w) + Len(v)
            /\ \A m \in 1 .. Len(w) : registry'[m] = w[m]
            /\ \A m \in 1 .. Len(v) : registry'[Len(w) + m] = v[m]
        <5>1. /\ w \o v \in Seq(Adapters) /\ Len(w \o v) = Len(w) + Len(v)
              /\ \A m \in 1 .. Len(w) : (w \o v)[m] = w[m]
              /\ \A m \in 1 .. Len(v) : (w \o v)[Len(w) + m] = v[m]
          BY <3>2, <3>4, Joined
        <5>2. registry' = w \o v
          BY <3>3 DEF w
        <5> QED BY <5>1, <5>2
      <4> QED BY <2>1, <3>2, <3>4, <4>1
    <3>6. CASE k < i
      <4>1. k \in 1 .. i - 1
        BY <2>1, <3>6
      <4> QED BY <2>1, <3>5, <4>1
    <3>7. CASE k >= i
      <4> DEFINE m == k - i + 1
      <4>1. m \in 1 .. Len(registry) - i + 1 /\ m + i - 1 = k
        BY <2>1, <3>7
      <4> HIDE DEF m
      <4>2. v[m] = registry[k]
        BY <3>2, <4>1
      <4>3. registry'[i + m] = v[m]
        BY <3>5, <4>1
      <4>4. i + m \in DOMAIN registry'
        BY <2>1, <3>5, <4>1
      <4> QED BY <4>2, <4>3, <4>4
    <3> QED BY <2>1, <3>6, <3>7
  <2> QED BY <2>2, <2>3 DEF Change
<1>5. \A p \in Procs : Backed(p)'
  <2> SUFFICES ASSUME NEW p \in Procs, guid[p] \in held[p]
               PROVE  \E j \in DOMAIN registry' :
                        registry'[j].guid = guid[p] /\ Supported(registry'[j])
    BY <1>1 DEF Backed, Supported
  <2>1. PICK k \in DOMAIN registry : registry[k].guid = guid[p] /\ Supported(registry[k])
    BY DEF JInv, Backed
  <2> QED BY <1>4, <2>1
<1> QED BY <1>2, <1>3, <1>5 DEF JInv

-----------------------------------------------------------------------------
LEMMA FindsStep ==
    ASSUME JInv, IInv', [Next]_vars
    PROVE  JInv'
<1>1. CASE UNCHANGED vars
  <2>1. UNCHANGED <<os, registry, name, pc, search, guid, held, verdict, stable>>
    BY <1>1 DEF vars, devVars
  <2>2. Wanted' = Wanted /\ \A p \in Procs : Passed(p)' = Passed(p)
    BY <2>1, WantedSame DEF Passed, Usable, Supported
  <2> QED BY <2>1, <2>2 DEF JInv, CheckOnce, Found, TapId, Supported, Chooses, Searching,
             Matches, Chosen, Searched, Backed
<1>2. ASSUME NEW p \in Procs,
             \/ OpenDevice(p) \/ CreateEvents(p) \/ SetMediaStatus(p)
             \/ PosixOpen(p) \/ SetIff(p) \/ ControlSocket(p) \/ SetMtu(p) \/ SetUp(p)
             \/ CloseTap(p)
      PROVE  JInv'
  <2>1. pc[p] = "DEVICE" /\ pc'[p] # "IDLE" => OpenDevice(p) /\ pc'[p] = "EVENTS"
    BY <1>2 DEF JInv, IInv, Types, OpenDevice, CreateEvents, SetMediaStatus, PosixOpen,
           MayOpen, SetIff, ControlSocket, SetMtu, SetUp, CloseTap, Goes, OpenReturns
  <2> QED BY <1>2, <2>1, QuietSteps, QuietKeeps
<1>3. CASE AttachBridge \/ BridgeAdd
  BY <1>3, BridgeSteps, QuietKeeps DEF AttachBridge, BridgeAdd, Procs
<1>4. CASE CheckEnumerates \/ Change
  BY <1>4, CheckEnumeratesFinds, ChangeFinds
<1>5. ASSUME NEW p \in Procs, WinOpen(p) \/ SearchNext(p) \/ SearchEnd(p) PROVE JInv'
  BY <1>5, WinOpenFinds, SearchNextFinds, SearchEndFinds
<1> QED BY <1>1, <1>2, <1>3, <1>4, <1>5 DEF Next

LEMMA FindsStart == Init => JInv
<1> SUFFICES ASSUME Init PROVE JInv
  OBVIOUS
<1>1. IInv
  BY Start
<1>2. CheckOnce /\ stable \in [Procs -> BOOLEAN]
  BY DEF Init, CheckOnce, Procs
<1>3. ASSUME NEW p \in Procs PROVE Found(p) /\ Searching(p) /\ Chosen(p) /\ Backed(p)
  BY DEF Init, Found, Chooses, NoSearch, Searching, Chosen, Searched, Backed
<1> QED BY <1>1, <1>2, <1>3 DEF JInv

LEMMA FindsInductive == Spec => []JInv
<1>1. JInv /\ [Next]_vars => JInv'
  BY StepKeeps, FindsStep DEF JInv
<1> QED BY FindsStart, <1>1, PTL DEF Spec

(* RightAdapter, of tap_win_find_adapter: for every registry the search      *)
(* ends with the adapter the name stands for, and however the adapters      *)
(* change meanwhile no other than a TAP adapter is opened.                  *)
THEOREM OpensTheRightOne == Spec => []RightAdapter
<1>1. JInv => RightAdapter
  BY DEF JInv, Chosen, Backed, RightAdapter, Device
<1> QED BY <1>1, FindsInductive, PTL
=============================================================================
