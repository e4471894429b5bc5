----------------------------- MODULE GuiClient -----------------------------
(***************************************************************************)
(* gui_win.c: the Windows front end.  The UI thread answers the Connect and*)
(* Disconnect buttons; each Connect starts a worker thread that writes the *)
(* configuration, checks the TAP adapter, starts ntap-c-cli.exe and waits  *)
(* for it.  They share g_gui.connected (interlocked) and                   *)
(* g_gui.child_process (under g_gui.lock), and the worker posts messages   *)
(* to the window.  Log and status messages are left out: they change no    *)
(* state but the text shown.                                               *)
(*                                                                         *)
(* Process handles are small numbers that Windows reuses once closed.      *)
(***************************************************************************)
EXTENDS Naturals, FiniteSets

CONSTANT MaxWorkers   \* bound: how often Connect starts a worker

ASSUME MaxWorkersAssumption == MaxWorkers \in Nat \ {0}

Workers == 1 .. MaxWorkers
Handles == 1 .. MaxWorkers   \* 0: NULL

VARIABLES
    ui,         \* where the UI thread is in the handler it runs
    target,     \* on_disconnect's local `child`
    running,    \* set_controls_running: TRUE disables Connect, enables Disconnect
    connected,  \* g_gui.connected
    slot,       \* g_gui.child_process
    done,       \* NTAP_DONE_MESSAGEs posted and not handled yet
    started,    \* workers started so far
    pc,         \* where each worker is
    child,      \* each worker's client process
    handle,     \* each worker's pi.hProcess
    opened,     \* which worker's process a handle value names, 0: none
    off         \* history: Disconnect was handled and Connect not used since

vars == <<ui, target, running, connected, slot, done, started, pc, child,
          handle, opened, off>>

UiPcs == {"idle", "CREATE", "TERMINATE", "CLOSING", "QUIT", "GONE"}
WorkerPcs == {"none", "PREPARE", "CHECK_ENV", "ELEVATE", "RECHECK", "SPAWN",
              "STORE", "SET_CONNECTED", "READ", "CLOSE_HANDLE", "CLEAR",
              "UNSET", "RESET", "POST", "EXITED", "KILLED"}
Ended == {"none", "EXITED", "KILLED"}
Alive == {w \in Workers : pc[w] \notin Ended}
Clients == {w \in Workers : child[w] = "running"}

Init ==
    /\ ui = "idle" /\ target = 0 /\ running = FALSE
    /\ connected = 0 /\ slot = 0 /\ done = 0 /\ started = 0
    /\ pc = [w \in Workers |-> "none"]
    /\ child = [w \in Workers |-> "none"]
    /\ handle = [w \in Workers |-> 0]
    /\ opened = [h \in Handles |-> 0]
    /\ off = FALSE

Goes(w, next) == pc' = [pc EXCEPT ![w] = next]

-----------------------------------------------------------------------------
(* The UI thread.  GetMessage hands over posted messages before input, so a *)
(* click is handled only when no DONE is waiting.                           *)

(* on_connect up to CreateThread.  Without effect while connected is 1. *)
ClickConnect ==
    /\ ui = "idle" /\ ~running /\ done = 0 /\ started < MaxWorkers
    /\ connected = 0
    /\ connected' = 1
    /\ running' = TRUE
    /\ ui' = "CREATE"
    /\ off' = FALSE
    /\ UNCHANGED <<target, slot, done, started, pc, child, handle, opened>>

StartWorker ==
    /\ ui = "CREATE"
    /\ started' = started + 1
    /\ Goes(started', "PREPARE")
    /\ ui' = "idle"
    /\ UNCHANGED <<target, running, connected, slot, done, child, handle, opened, off>>

StartWorkerFails ==
    /\ ui = "CREATE"
    /\ connected' = 0
    /\ running' = FALSE
    /\ ui' = "idle"
    /\ UNCHANGED <<target, slot, done, started, pc, child, handle, opened, off>>

(* on_disconnect reads child_process under the lock ...                     *)
ClickDisconnect ==
    /\ ui = "idle" /\ running /\ done = 0
    /\ target' = slot
    /\ ui' = "TERMINATE"
    /\ UNCHANGED <<running, connected, slot, done, started, pc, child, handle, opened, off>>

ClickClose ==
    /\ ui = "idle" /\ done = 0
    /\ target' = slot
    /\ ui' = "CLOSING"
    /\ UNCHANGED <<running, connected, slot, done, started, pc, child, handle, opened, off>>

(* TerminateProcess: a handle closed in between names nothing, or another   *)
(* process.                                                                 *)
Killed(h) ==
    IF h # 0 /\ opened[h] # 0
    THEN [child EXCEPT ![opened[h]] = IF @ = "running" THEN "exited" ELSE @]
    ELSE child

(* Fault: the process is not terminated. *)
TerminateNothing ==
    /\ ui \in {"TERMINATE", "CLOSING"}
    /\ running' = FALSE /\ off' = TRUE
    /\ ui' = IF ui = "TERMINATE" THEN "idle" ELSE "QUIT"
    /\ UNCHANGED <<target, connected, slot, done, started, pc, child, handle, opened>>

(* ... and uses it after the unlock.  WM_CLOSE goes on to DestroyWindow and *)
(* the end of the message loop.                                             *)
Terminate ==
    /\ ui \in {"TERMINATE", "CLOSING"}
    /\ child' = Killed(target)
    /\ running' = FALSE
    /\ off' = TRUE
    /\ ui' = IF ui = "TERMINATE" THEN "idle" ELSE "QUIT"
    /\ UNCHANGED <<target, connected, slot, done, started, pc, handle, opened>>

HandleDone ==
    /\ ui = "idle" /\ done > 0
    /\ done' = done - 1
    /\ running' = FALSE
    /\ UNCHANGED <<ui, target, connected, slot, started, pc, child, handle, opened, off>>

(* WinMain returns: the process ends, its workers with it, its clients not. *)
Quit ==
    /\ ui = "QUIT"
    /\ ui' = "GONE"
    /\ pc' = [w \in Workers |-> IF w \in Alive THEN "KILLED" ELSE pc[w]]
    /\ UNCHANGED <<target, running, connected, slot, done, started, child, handle, opened, off>>

-----------------------------------------------------------------------------
(* The worker threads *)
WorkerMoves(w, from, to) ==
    /\ pc[w] = from
    /\ Goes(w, to)
    /\ UNCHANGED <<ui, target, running, slot, done, started, off>>

(* connect_worker: input, configuration file, CLI present. *)
Prepare(w) ==
    /\ \E next \in {"CHECK_ENV", "RESET"} : WorkerMoves(w, "PREPARE", next)
    /\ UNCHANGED <<connected, child, handle, opened>>

(* ensure_tap_ready: check-env, else the elevated script and check-env again. *)
EnsureTapReady(w) ==
    /\ \/ \E next \in {"SPAWN", "ELEVATE", "RESET"} : WorkerMoves(w, "CHECK_ENV", next)
       \/ \E next \in {"RECHECK", "RESET"} : WorkerMoves(w, "ELEVATE", next)
       \/ \E next \in {"SPAWN", "RESET"} : WorkerMoves(w, "RECHECK", next)
    /\ UNCHANGED <<connected, child, handle, opened>>

(* run_client_process: CreateProcess returns a handle value not in use. *)
Spawn(w) ==
    /\ WorkerMoves(w, "SPAWN", "STORE")
    /\ \E h \in Handles :
         /\ opened[h] = 0
         /\ opened' = [opened EXCEPT ![h] = w]
         /\ handle' = [handle EXCEPT ![w] = h]
    /\ child' = [child EXCEPT ![w] = "running"]
    /\ UNCHANGED connected

SpawnFails(w) ==
    /\ WorkerMoves(w, "SPAWN", "RESET")
    /\ UNCHANGED <<connected, child, handle, opened>>

StoreChild(w) ==
    /\ pc[w] = "STORE"
    /\ slot' = handle[w]
    /\ Goes(w, "SET_CONNECTED")
    /\ UNCHANGED <<ui, target, running, connected, done, started, child, handle, opened, off>>

SetConnected(w) ==
    /\ WorkerMoves(w, "SET_CONNECTED", "READ")
    /\ connected' = 1
    /\ UNCHANGED <<child, handle, opened>>

(* The pipe ends and the wait returns once the client has exited. *)
ClientGone(w) ==
    /\ child[w] = "exited"
    /\ WorkerMoves(w, "READ", "CLOSE_HANDLE")
    /\ UNCHANGED <<connected, child, handle, opened>>

CloseHandle(w) ==
    /\ WorkerMoves(w, "CLOSE_HANDLE", "CLEAR")
    /\ opened' = [opened EXCEPT ![handle[w]] = 0]
    /\ handle' = [handle EXCEPT ![w] = 0]
    /\ UNCHANGED <<connected, child>>

(* Fault: the slot is left as it is. *)
ClearChildNot(w) ==
    /\ WorkerMoves(w, "CLEAR", "UNSET")
    /\ UNCHANGED <<connected, child, handle, opened>>

ClearChild(w) ==
    /\ pc[w] = "CLEAR"
    /\ slot' = 0
    /\ Goes(w, "UNSET")
    /\ UNCHANGED <<ui, target, running, connected, done, started, child, handle, opened, off>>

Unset(w) ==
    /\ WorkerMoves(w, "UNSET", "RESET")
    /\ connected' = 0
    /\ UNCHANGED <<child, handle, opened>>

(* connect_worker's `done:` clears connected again. *)
Reset(w) ==
    /\ WorkerMoves(w, "RESET", "POST")
    /\ connected' = 0
    /\ UNCHANGED <<child, handle, opened>>

(* Fault: NTAP_DONE_MESSAGE may be posted again and again. *)
PostDoneAgain(w) ==
    /\ pc[w] = "POST"
    /\ done' = done + 1
    /\ UNCHANGED <<ui, target, running, connected, slot, started, pc, child, handle, opened, off>>

PostDone(w) ==
    /\ pc[w] = "POST"
    /\ done' = done + 1
    /\ Goes(w, "EXITED")
    /\ UNCHANGED <<ui, target, running, connected, slot, started, child, handle, opened, off>>

(* The client process ends for a reason of its own. *)
ClientExits(w) ==
    /\ child[w] = "running"
    /\ child' = [child EXCEPT ![w] = "exited"]
    /\ UNCHANGED <<ui, target, running, connected, slot, done, started, pc, handle, opened, off>>

-----------------------------------------------------------------------------
UiStep ==
    \/ StartWorker \/ StartWorkerFails \/ Terminate \/ HandleDone \/ Quit

Click == ClickConnect \/ ClickDisconnect \/ ClickClose

WorkerStep(w) ==
    \/ Prepare(w) \/ EnsureTapReady(w) \/ Spawn(w) \/ SpawnFails(w)
    \/ StoreChild(w) \/ SetConnected(w) \/ ClientGone(w)
    \/ CloseHandle(w) \/ ClearChild(w) \/ Unset(w) \/ Reset(w) \/ PostDone(w)

Next ==
    \/ UiStep \/ Click
    \/ \E w \in Workers : WorkerStep(w) \/ ClientExits(w)

Spec == Init /\ [][Next]_vars

(* The threads are scheduled.  The user need not click, a client need not   *)
(* end; the programs that EnsureTapReady waits for are assumed to end.      *)
FairSpec == Spec /\ WF_vars(UiStep) /\ \A w \in Workers : WF_vars(WorkerStep(w))

-----------------------------------------------------------------------------
(* Every variable keeps its range: each worker posts one DONE message.      *)
TypeOK ==
    /\ ui \in UiPcs /\ target \in Handles \union {0} /\ running \in BOOLEAN
    /\ connected \in {0, 1} /\ slot \in Handles \union {0}
    /\ done \in 0 .. MaxWorkers /\ started \in 0 .. MaxWorkers
    /\ pc \in [Workers -> WorkerPcs]
    /\ child \in [Workers -> {"none", "running", "exited"}]
    /\ handle \in [Workers -> Handles \union {0}]
    /\ opened \in [Handles -> Workers \union {0}]
    /\ off \in BOOLEAN

(* At most one client process runs: connected is set by the Connect that    *)
(* was accepted, and no other is accepted until that one's client is gone.  *)
OneClient == Cardinality(Clients) <= 1

(* Whatever the clicks and failures, once no worker lives and no message    *)
(* waits the window is back where it started: Connect enabled and accepted, *)
(* no process handle kept.                                                  *)
BackToStart ==
    ui = "idle" /\ Alive = {} /\ done = 0 =>
        /\ ~running /\ connected = 0 /\ slot = 0
        /\ \A h \in Handles : opened[h] = 0
        /\ Clients = {}

(* A client whose handle on_disconnect has read is gone, and its worker     *)
(* ends, however its own end and the termination interleave.                *)
DisconnectEndsWorker ==
    \A w \in Workers :
        (ui = "TERMINATE" /\ target # 0 /\ opened[target] = w)
            ~> (child[w] = "exited" /\ pc[w] \in {"EXITED", "KILLED"})

(* After Disconnect the window says that the connection is off: no client   *)
(* is started before Connect is used again.                                 *)
DisconnectIsFinal ==
    [][\A w \in Workers : child[w] = "none" /\ child'[w] = "running" => ~off]_vars
=============================================================================
