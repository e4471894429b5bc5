----------------------------- MODULE TapDevice ------------------------------
(***************************************************************************)
(* The TAP device in two processes of a machine: "run", a client that      *)
(* opens it (tap_linux.c), may attach it to a bridge and closes it, and    *)
(* "check", the environment check (env_check.c), which looks at the        *)
(* adapters, opens the device and closes it again.  One step per call of   *)
(* the system that can fail; between two of them the other process runs,   *)
(* and adapters are installed or removed.                                  *)
(*                                                                         *)
(* On Windows the device is found in the registry; on posix its name is    *)
(* given and the kernel makes the interface.  Reads, writes and            *)
(* ntap_tap_interrupt are in WinTapPump and LinuxPump.                     *)
(***************************************************************************)
EXTENDS Integers, Sequences, FiniteSets, SequencesExt

CONSTANTS
    Adapters,    \* the adapters there may be: [kind, guid, conn, desc, readable]
    MaxAdapters, \* bound: adapters in the registry
    MaxChanges,  \* bound: installations and removals
    Names,       \* the names a configuration may give, the empty one included
    ValidNames   \* those an interface of posix may have

ASSUME NameAssumption ==
    /\ ValidNames \subseteq Names \ {"empty"}
    /\ \A a \in Adapters : a.kind \in {"tap", "tun", "other"}
    /\ MaxAdapters \in Nat

(* An adapter is no other thing to open, and an id stays that of one kind. *)
ASSUME GuidAssumption ==
    \A a \in Adapters :
        /\ a.guid \notin {"class_key", "read_event", "write_event", "fd", "ctl"}
        /\ \A b \in Adapters : a.guid = b.guid /\ a.guid # "empty" => a.kind = b.kind

Procs == {"run", "check"}

VARIABLES
    os,        \* the build: "windows" or "posix"
    registry,  \* the adapters, in the order of the registry
    changes,   \* how often they were changed
    name,      \* tap_name of the configuration, the same for both
    pc,        \* where each process is
    search,    \* locals of tap_win_find_adapter
    guid,      \* the adapter it chose, or "empty"
    tap,       \* the fields of ntap_tap_t that hold something open
    held,      \* what each process has open
    net,       \* posix: the interface of the process: "none", "new", "mtu", "up", "bridged"
    rc,        \* what open returned last: 0, -1, or 1 before it returned
    verdict,   \* of the check: "none", "missing", "failed" or "ok"
    twice,     \* history: something not open was closed
    stable     \* history: the last look went through the registry, which is the same now

devVars == <<tap, held, net, twice>>
vars == <<os, registry, changes, name, pc, search, guid, devVars, rc, verdict, stable>>

NoSearch == [idx |-> 1, found |-> 0, first |-> "empty"]

Init ==
    /\ os \in {"windows", "posix"}
    /\ registry \in IF os = "posix" THEN {<<>>}
                    ELSE {r \in UNION {[1 .. n -> Adapters] : n \in 0 .. MaxAdapters} :
                            \A i, j \in DOMAIN r :
                                i # j /\ r[i].guid # "empty" => r[i].guid # r[j].guid}
    /\ changes = 0 /\ name \in Names
    /\ pc = [p \in Procs |-> "IDLE"] /\ search = [p \in Procs |-> NoSearch]
    /\ guid = [p \in Procs |-> "empty"]
    /\ tap = [p \in Procs |-> {}] /\ held = [p \in Procs |-> {}]
    /\ net = [p \in Procs |-> "none"] /\ rc = [p \in Procs |-> 1]
    /\ verdict = "none" /\ twice = FALSE /\ stable = [p \in Procs |-> FALSE]

-----------------------------------------------------------------------------
(* The adapters.  The texts, of which one is the empty one, are compared     *)
(* without regard to case.                                                   *)
Supported(a) == a.kind = "tap"      \* tap_win_is_tap_windows
Usable(a)    == a.readable /\ Supported(a) /\ a.guid # "empty"

Matches(requested, a) == requested # "empty" /\ requested \in {a.guid, a.conn, a.desc}

(* Fault: the first adapter is taken when none has the name. *)
FirstFound(s) == s.first

(* No adapter has the name: the only one is taken, of several none. *)
OnlyFound(s) == IF s.found = 1 THEN s.first ELSE "empty"

-----------------------------------------------------------------------------
(* Opening and closing. *)
Device(g) == g      \* the device of an adapter is known by its id
Took(p, things) == held' = [held EXCEPT ![p] = @ \union things]
Closed(p, things) ==
    /\ held' = [held EXCEPT ![p] = @ \ things]
    /\ twice' = (twice \/ ~(things \subseteq held[p]))

(* open returns: the run is open or idle again, the check has its verdict.  *)
OpenReturns(p, code) ==
    /\ rc' = [rc EXCEPT ![p] = code]
    /\ pc' = [pc EXCEPT ![p] = IF code = 0 THEN "OPEN" ELSE "IDLE"]
    /\ verdict' = IF p = "check" THEN (IF code = 0 THEN "ok" ELSE "failed") ELSE verdict

Goes(p, where) ==
    pc' = [pc EXCEPT ![p] = where] /\ UNCHANGED <<rc, verdict>>

(* The run opens when it likes; the check once, and first counts the adapters *)
(* on Windows: none, or a registry it cannot open, and it does not try.       *)
CountsNone == \A i \in DOMAIN registry : ~(registry[i].readable /\ Supported(registry[i]))

CheckEnumerates ==
    /\ pc["check"] = "IDLE" /\ verdict = "none" /\ os = "windows"
    /\ \/ /\ ~CountsNone /\ Goes("check", "START")
          /\ stable' = [stable EXCEPT !["check"] = FALSE]
       \/ /\ verdict' = "missing" /\ UNCHANGED <<pc, rc>>    \* or RegOpenKeyEx failed
          /\ stable' = [stable EXCEPT !["check"] = CountsNone]
    /\ UNCHANGED <<os, registry, changes, name, search, guid, devVars>>

MayOpen(p) ==
    \/ p = "run" /\ pc[p] = "IDLE"
    \/ p = "check" /\ verdict = "none" /\ pc[p] = (IF os = "windows" THEN "START" ELSE "IDLE")

(* Windows: the struct is reset, the class key opened. *)
WinOpen(p) ==
    /\ os = "windows" /\ MayOpen(p)
    /\ tap' = [tap EXCEPT ![p] = {}]
    /\ search' = [search EXCEPT ![p] = NoSearch] /\ guid' = [guid EXCEPT ![p] = "empty"]
    /\ \/ Goes(p, "SEARCH") /\ Took(p, {"class_key"})
          /\ stable' = [stable EXCEPT ![p] = TRUE]
       \/ OpenReturns(p, -1) /\ UNCHANGED held /\ stable' = [stable EXCEPT ![p] = FALSE]
    /\ UNCHANGED <<os, registry, changes, name, net, twice>>

(* One round of the loop over the adapters: the first with the name ends it. *)
SearchNext(p) ==
    /\ pc[p] = "SEARCH" /\ search[p].idx <= Len(registry)
    /\ LET a == registry[search[p].idx]
           s == search[p]
       IN  IF Usable(a) /\ Matches(name, a)
           THEN /\ guid' = [guid EXCEPT ![p] = a.guid]
                /\ Goes(p, "DEVICE") /\ Closed(p, {"class_key"}) /\ UNCHANGED search
           ELSE /\ search' = [search EXCEPT ![p] =
                    [idx   |-> s.idx + 1,
                     found |-> IF Usable(a) THEN s.found + 1 ELSE s.found,
                     first |-> IF Usable(a) /\ s.first = "empty" THEN a.guid ELSE s.first]]
                /\ UNCHANGED <<guid, pc, rc, verdict, held, twice>>
    /\ UNCHANGED <<os, registry, changes, name, tap, net, stable>>

(* ERROR_NO_MORE_ITEMS. *)
SearchEnd(p) ==
    /\ pc[p] = "SEARCH" /\ search[p].idx > Len(registry)
    /\ Closed(p, {"class_key"})
    /\ guid' = [guid EXCEPT ![p] = OnlyFound(search[p])]
    /\ IF OnlyFound(search[p]) # "empty" THEN Goes(p, "DEVICE") ELSE OpenReturns(p, -1)
    /\ UNCHANGED <<os, registry, changes, name, search, tap, net, stable>>

Exists(g) == \E i \in DOMAIN registry : registry[i].guid = g

(* CreateFile without sharing: it fails while any process has the device. *)
OpenDevice(p) ==
    /\ pc[p] = "DEVICE"
    /\ \/ /\ Exists(guid[p]) /\ \A q \in Procs : Device(guid[p]) \notin held[q]
          /\ Took(p, {Device(guid[p])}) /\ Goes(p, "EVENTS")
       \/ OpenReturns(p, -1) /\ UNCHANGED held
    /\ UNCHANGED <<os, registry, changes, name, search, guid, tap, net, twice, stable>>

(* Fault: the struct holds the device before the events are made. *)
FieldsWithDevice(p) == {Device(guid[p])}

(* What the struct holds when the events are made. *)
FieldsBefore(p) == tap[p]

(* Both events are made before either is looked at.  If one is missing,      *)
(* ntap_tap_close closes what the struct holds, and then the handle, which   *)
(* is not in the struct yet, is closed.                                      *)
CreateEvents(p) ==
    /\ pc[p] = "EVENTS"
    /\ \E events \in SUBSET {"read_event", "write_event"} :
        IF events = {"read_event", "write_event"}
        THEN /\ Took(p, events) /\ Goes(p, "MEDIA")
             /\ tap' = [tap EXCEPT ![p] = events \union {Device(guid[p])}]
             /\ UNCHANGED twice
        ELSE LET fields == FieldsBefore(p) \union events
                 before == held[p] \union events
             IN  /\ held' = [held EXCEPT ![p] = (before \ fields) \ {Device(guid[p])}]
                 /\ twice' = (twice \/ Device(guid[p]) \notin before \ fields)
                 /\ tap' = [tap EXCEPT ![p] = {}] /\ OpenReturns(p, -1)
    /\ UNCHANGED <<os, registry, changes, name, search, guid, net, stable>>

(* ntap_tap_close: closes what the struct holds; the interface of posix      *)
(* goes with its descriptor.                                                 *)
TapClose(p) ==
    /\ Closed(p, tap[p]) /\ tap' = [tap EXCEPT ![p] = {}]
    /\ net' = [net EXCEPT ![p] = "none"]

SetMediaStatus(p) ==
    /\ pc[p] = "MEDIA"
    /\ \/ OpenReturns(p, 0) /\ UNCHANGED devVars
       \/ OpenReturns(p, -1) /\ TapClose(p)
    /\ UNCHANGED <<os, registry, changes, name, search, guid, stable>>

-----------------------------------------------------------------------------
(* posix.  The check asks the kernel for the next free name ntapcchk%d.      *)
NameOk(p) == p = "check" \/ name \in ValidNames       \* tap_fill_ifreq_name

PosixOpen(p) ==
    /\ os = "posix" /\ MayOpen(p)
    /\ \/ /\ NameOk(p)
          /\ Took(p, {"fd"}) /\ Goes(p, "SETIFF")
       \/ OpenReturns(p, -1) /\ UNCHANGED held
    /\ UNCHANGED <<os, registry, changes, name, search, guid, tap, net, twice, stable>>

(* close(fd), which the struct does not name yet. *)
FdClose(p, things) ==
    /\ Closed(p, {"fd"} \union things) /\ net' = [net EXCEPT ![p] = "none"]
    /\ OpenReturns(p, -1)

SetIff(p) ==
    /\ pc[p] = "SETIFF"
    /\ \/ net' = [net EXCEPT ![p] = "new"] /\ Goes(p, "MTU") /\ UNCHANGED <<held, twice>>
       \/ FdClose(p, {})
    /\ UNCHANGED <<os, registry, changes, name, search, guid, tap, stable>>

(* The socket of tap_set_mtu and tap_set_up. *)
ControlSocket(p) ==
    /\ pc[p] \in {"MTU", "UP"}
    /\ \/ /\ Took(p, {"ctl"}) /\ UNCHANGED <<twice, net>>
          /\ Goes(p, IF pc[p] = "MTU" THEN "SETMTU" ELSE "SETUP")
       \/ FdClose(p, {})
    /\ UNCHANGED <<os, registry, changes, name, search, guid, tap, stable>>

(* Fault: the control socket is closed only when the call succeeded. *)
LeakControl == {}

ControlSockets == {"ctl"}

SetMtu(p) ==
    /\ pc[p] = "SETMTU"
    /\ \/ Closed(p, {"ctl"}) /\ net' = [net EXCEPT ![p] = "mtu"] /\ Goes(p, "UP")
       \/ FdClose(p, ControlSockets)
    /\ UNCHANGED <<os, registry, changes, name, search, guid, tap, stable>>

SetUp(p) ==
    /\ pc[p] = "SETUP"
    /\ \/ /\ Closed(p, {"ctl"}) /\ net' = [net EXCEPT ![p] = "up"]
          /\ tap' = [tap EXCEPT ![p] = {"fd"}] /\ OpenReturns(p, 0)
       \/ FdClose(p, ControlSockets) /\ UNCHANGED tap
    /\ UNCHANGED <<os, registry, changes, name, search, guid, stable>>

(* ntap_tap_attach_bridge gets as far as its socket; with no bridge name, an *)
(* unknown one, without a socket, or on Windows, it changes nothing.         *)
AttachBridge ==
    /\ pc["run"] = "OPEN" /\ os = "posix"
    /\ Goes("run", "BRIDGE") /\ Took("run", {"ctl"})
    /\ UNCHANGED <<os, registry, changes, name, search, guid, tap, net, twice, stable>>

BridgeAdd ==
    /\ pc["run"] = "BRIDGE" /\ Closed("run", {"ctl"}) /\ Goes("run", "OPEN")
    /\ \/ net' = [net EXCEPT !["run"] = "bridged"]
       \/ UNCHANGED net
    /\ UNCHANGED <<os, registry, changes, name, search, guid, tap, stable>>

CloseTap(p) ==
    /\ pc[p] = "OPEN" /\ TapClose(p) /\ Goes(p, "IDLE")
    /\ UNCHANGED <<os, registry, changes, name, search, guid, stable>>

-----------------------------------------------------------------------------
(* An adapter that nobody uses is removed or a new one installed, at any    *)
(* place of the registry.                                                   *)
Change ==
    /\ os = "windows" /\ changes < MaxChanges /\ changes' = changes + 1
    /\ \/ \E i \in DOMAIN registry :
            /\ \A p \in Procs : Device(registry[i].guid) \notin held[p]
            /\ registry' = RemoveAt(registry, i)
       \/ \E a \in Adapters, i \in 1 .. Len(registry) + 1 :
            /\ Len(registry) < MaxAdapters /\ (a.guid = "empty" \/ ~Exists(a.guid))
            /\ registry' = InsertAt(registry, i, a)
    /\ stable' = [p \in Procs |-> FALSE]
    /\ UNCHANGED <<os, name, pc, search, guid, devVars, rc, verdict>>

Next ==
    \/ CheckEnumerates \/ AttachBridge \/ BridgeAdd \/ Change
    \/ \E p \in Procs :
        \/ WinOpen(p) \/ SearchNext(p) \/ SearchEnd(p)
        \/ OpenDevice(p) \/ CreateEvents(p) \/ SetMediaStatus(p)
        \/ PosixOpen(p) \/ SetIff(p) \/ ControlSocket(p) \/ SetMtu(p) \/ SetUp(p)
        \/ CloseTap(p)

Spec == Init /\ [][Next]_vars

-----------------------------------------------------------------------------
(* Whatever step of opening fails, the process keeps nothing open; between   *)
(* the calls it has open exactly what its ntap_tap_t says, no handle is      *)
(* closed twice, and an interface that was opened on posix is up.            *)
OwnedExactly ==
    /\ ~twice
    /\ \A p \in Procs :
        /\ pc[p] \in {"IDLE", "START", "OPEN"} => held[p] = tap[p]
        /\ pc[p] \in {"IDLE", "START"} => held[p] = {} /\ net[p] = "none"
        /\ pc[p] = "OPEN" /\ os = "posix" => net[p] \in {"up", "bridged"}

(* The adapter a name stands for: the first with that id, connection or      *)
(* driver name, else the only one there is.                                  *)
Wanted ==
    LET usable == {i \in DOMAIN registry : Usable(registry[i])}
        named  == {i \in usable : Matches(name, registry[i])}
    IN  IF named # {} THEN registry[CHOOSE i \in named : \A j \in named : i <= j].guid
        ELSE IF Cardinality(usable) = 1 THEN registry[CHOOSE i \in usable : TRUE].guid
        ELSE "empty"

Searched(p) == os = "windows" /\ stable[p] /\ pc[p] # "SEARCH"

(* A look through the registry, as long as no adapter comes or goes, ends    *)
(* with the adapter the name stands for, and with none when there is none;   *)
(* so it is for the client's search, the check's own, and a count of the     *)
(* check that finds none.  Of a look whose RegOpenKeyEx fails nothing is     *)
(* claimed: its "missing" is about a registry it did not see.  Even if       *)
(* adapters come and go, what a process has open is a TAP adapter.           *)
RightAdapter ==
    /\ \A p \in Procs : Searched(p) => guid[p] = Wanted
    /\ \A p \in Procs : Device(guid[p]) \in held[p] =>
         \E i \in DOMAIN registry : registry[i].guid = guid[p] /\ Supported(registry[i])
=============================================================================
