-------------------------- MODULE GuiClientProofs --------------------------
(***************************************************************************)
(* Proofs about GuiClient, for every number of workers that Connect may    *)
(* have started.                                                           *)
(***************************************************************************)
EXTENDS GuiClient, FiniteSetTheorems, TLAPS

(* From the CreateProcess to CloseHandle; from storing the handle in the    *)
(* shared slot to clearing it; until `done:` has cleared connected.         *)
Holding == {"STORE", "SET_CONNECTED", "READ", "CLOSE_HANDLE"}
Stored  == {"SET_CONNECTED", "READ", "CLOSE_HANDLE", "CLEAR"}
Working == WorkerPcs \ (Ended \union {"POST"})

Exited == {w \in Workers : pc[w] = "EXITED"}

(* Who was started, and who may be alive. *)
Places ==
    /\ \A w \in Workers : pc[w] = "none" <=> w > started
    /\ ui = "CREATE" => started < MaxWorkers
    /\ ui = "GONE" => \A w \in Workers : pc[w] \in Ended
    /\ ui # "GONE" => \A w \in Workers : pc[w] # "KILLED"

(* Every DONE message was posted by a worker of its own. *)
Posted == done <= Cardinality(Exited)

(* A handle names the client of the worker that has it, for as long. *)
Handed == ui # "GONE" =>
    /\ \A w \in Workers : handle[w] # 0 <=> pc[w] \in Holding
    /\ \A w \in Workers : handle[w] # 0 => opened[handle[w]] = w
    /\ \A h \in Handles : opened[h] # 0 => handle[opened[h]] = h
    /\ \A w \in Workers : child[w] = "running" => pc[w] \in Holding \ {"CLOSE_HANDLE"}

(* What is shared is taken back by somebody: a message or a worker that    *)
(* has yet to come to that place.                                           *)
Owed == ui # "GONE" =>
    /\ running => ui = "CREATE" \/ done > 0 \/ Alive # {}
    /\ connected = 1 => ui = "CREATE" \/ \E w \in Workers : pc[w] \in Working
    /\ slot # 0 => \E w \in Workers : pc[w] \in Stored

IInv == TypeOK /\ Places /\ Posted /\ Handed /\ Owed

-----------------------------------------------------------------------------
(* A worker that moves from one place to another. *)
Moves(w, from, to) == pc[w] = from /\ pc' = [pc EXCEPT ![w] = to]

(* Every way in which a worker moves. *)
LEMMA WorkerMovesLemma ==
    ASSUME TypeOK, NEW w \in Workers, WorkerStep(w)
    PROVE  /\ \/ Moves(w, "PREPARE", "CHECK_ENV") \/ Moves(w, "PREPARE", "RESET")
              \/ Moves(w, "CHECK_ENV", "SPAWN") \/ Moves(w, "CHECK_ENV", "ELEVATE")
              \/ Moves(w, "CHECK_ENV", "RESET") \/ Moves(w, "ELEVATE", "RECHECK")
              \/ Moves(w, "ELEVATE", "RESET") \/ Moves(w, "RECHECK", "SPAWN")
              \/ Moves(w, "RECHECK", "RESET") \/ Moves(w, "SPAWN", "STORE")
              \/ Moves(w, "SPAWN", "RESET") \/ Moves(w, "STORE", "SET_CONNECTED")
              \/ Moves(w, "SET_CONNECTED", "READ") \/ Moves(w, "READ", "CLOSE_HANDLE")
              \/ Moves(w, "CLOSE_HANDLE", "CLEAR") \/ Moves(w, "CLEAR", "UNSET")
              \/ Moves(w, "UNSET", "RESET") \/ Moves(w, "RESET", "POST")
              \/ Moves(w, "POST", "EXITED")
           /\ UNCHANGED <<ui, target, running, started, off>>
           /\ done' = IF pc[w] = "POST" THEN done + 1 ELSE done
           /\ slot' = CASE pc[w] = "STORE" -> handle[w]
                        [] pc[w] = "CLEAR" -> 0
                        [] OTHER -> slot
           /\ connected' = CASE pc[w] = "SET_CONNECTED" -> 1
                             [] pc[w] \in {"UNSET", "RESET"} -> 0
                             [] OTHER -> connected
<1> USE DEF WorkerMoves, Goes, Moves
<1>1. CASE Prepare(w) \/ EnsureTapReady(w)
  BY <1>1 DEF Prepare, EnsureTapReady
<1>2. CASE Spawn(w) \/ SpawnFails(w) \/ StoreChild(w) \/ SetConnected(w)
  BY <1>2 DEF Spawn, SpawnFails, StoreChild, SetConnected
<1>3. CASE ClientGone(w) \/ CloseHandle(w) \/ ClearChild(w)
  BY <1>3 DEF ClientGone, CloseHandle, ClearChild
<1>4. CASE Unset(w) \/ Reset(w) \/ PostDone(w)
  BY <1>4 DEF Unset, Reset, PostDone
<1> QED BY <1>1, <1>2, <1>3, <1>4 DEF WorkerStep

(* Which client and which handle a worker's step is about. *)
LEMMA WorkerHandlesLemma ==
    ASSUME TypeOK, NEW w \in Workers, WorkerStep(w)
    PROVE  \/ /\ pc[w] = "SPAWN" /\ pc'[w] = "STORE"
              /\ child' = [child EXCEPT ![w] = "running"]
              /\ \E h \in Handles : /\ opened[h] = 0
                                    /\ opened' = [opened EXCEPT ![h] = w]
                                    /\ handle' = [handle EXCEPT ![w] = h]
           \/ /\ pc[w] = "CLOSE_HANDLE" /\ pc'[w] = "CLEAR" /\ child' = child
              /\ opened' = [opened EXCEPT ![handle[w]] = 0]
              /\ handle' = [handle EXCEPT ![w] = 0]
           \/ /\ pc[w] = "READ" /\ pc'[w] = "CLOSE_HANDLE" /\ child[w] = "exited"
              /\ UNCHANGED <<child, handle, opened>>
           \/ /\ pc[w] \notin {"CLOSE_HANDLE", "READ"}
              /\ pc'[w] \notin {"STORE", "CLOSE_HANDLE"}
              /\ pc[w] \in Holding <=> pc'[w] \in Holding
              /\ UNCHANGED <<child, handle, opened>>
<1> USE DEF WorkerMoves, Goes, Holding, TypeOK
<1>1. CASE Prepare(w) \/ EnsureTapReady(w)
  BY <1>1 DEF Prepare, EnsureTapReady
<1>2. CASE Spawn(w) \/ SpawnFails(w)
  BY <1>2 DEF Spawn, SpawnFails
<1>3. CASE StoreChild(w) \/ SetConnected(w)
  BY <1>3 DEF StoreChild, SetConnected
<1>4. CASE ClientGone(w) \/ CloseHandle(w) \/ ClearChild(w)
  BY <1>4 DEF ClientGone, CloseHandle, ClearChild
<1>5. CASE Unset(w) \/ Reset(w) \/ PostDone(w)
  BY <1>5 DEF Unset, Reset, PostDone
<1> QED BY <1>1, <1>2, <1>3, <1>4, <1>5 DEF WorkerStep

-----------------------------------------------------------------------------
(* A worker's step. *)
LEMMA WorkerKeeps ==
    ASSUME IInv, NEW w \in Workers, WorkerStep(w)
    PROVE  IInv'
<1> USE DEF Moves
<1>1. TypeOK /\ pc[w] \notin Ended
  BY WorkerMovesLemma DEF IInv, Ended
<1>2. ui # "GONE"
  BY <1>1 DEF IInv, Places
<1>3. /\ pc'[w] \in WorkerPcs \ {"none", "KILLED"} /\ pc' \in [Workers -> WorkerPcs]
      /\ \A v \in Workers \ {w} : pc'[v] = pc[v]
      /\ pc'[w] = "EXITED" <=> pc[w] = "POST"
  BY <1>1, WorkerMovesLemma DEF TypeOK, WorkerPcs
<1>4. Places'
  BY <1>1, <1>2, <1>3, WorkerMovesLemma DEF IInv, Places, Ended
<1>5. Posted' /\ Cardinality(Exited') <= MaxWorkers
  <2>1. IsFiniteSet(Workers) /\ Cardinality(Workers) = MaxWorkers /\ MaxWorkers \in Nat
    BY FS_Interval, MaxWorkersAssumption DEF Workers
  <2>2. Exited \subseteq Workers /\ Exited' \subseteq Workers
    BY DEF Exited
  <2>3. /\ IsFiniteSet(Exited) /\ IsFiniteSet(Exited')
        /\ Cardinality(Exited) \in Nat /\ Cardinality(Exited') \in Nat
        /\ Cardinality(Exited') <= MaxWorkers
    BY <2>1, <2>2, FS_Subset, FS_CardinalityType
  <2>4. CASE pc[w] = "POST"
    <3>1. Exited' = Exited \union {w} /\ w \notin Exited
      BY <1>3, <2>4 DEF Exited
    <3>2. Cardinality(Exited') = Cardinality(Exited) + 1
      BY <2>3, <3>1, FS_AddElement
    <3>3. done' = done + 1
      BY <1>1, <2>4, WorkerMovesLemma
    <3> QED BY <1>1, <2>3, <3>2, <3>3 DEF IInv, Posted, TypeOK
  <2>5. CASE pc[w] # "POST"
    <3>1. Exited' = Exited
      BY <1>1, <1>3, <2>5 DEF Exited, Ended
    <3>2. done' = done
      BY <1>1, <2>5, WorkerMovesLemma
    <3> QED BY <2>3, <3>1, <3>2 DEF IInv, Posted
  <2> QED BY <2>3, <2>4, <2>5
<1>6. TypeOK'
  <2>1. /\ child' \in [Workers -> {"none", "running", "exited"}]
        /\ handle' \in [Workers -> Handles \union {0}]
        /\ opened' \in [Handles -> Workers \union {0}]
    BY <1>1, WorkerHandlesLemma DEF TypeOK
  <2>2. slot' \in Handles \union {0} /\ connected' \in {0, 1}
    BY <1>1, WorkerMovesLemma DEF TypeOK
  <2>3. done' \in 0 .. MaxWorkers
    <3>1. done' \in Nat /\ Cardinality(Exited') \in Nat /\ MaxWorkers \in Nat
      <4>1. IsFiniteSet(Workers) /\ Exited' \subseteq Workers
        BY FS_Interval, MaxWorkersAssumption DEF Workers, Exited
      <4> QED BY <1>1, <4>1, WorkerMovesLemma, MaxWorkersAssumption, FS_Subset,
                 FS_CardinalityType DEF TypeOK
    <3> QED BY <1>5, <3>1 DEF Posted
  <2> QED BY <1>1, <1>3, <2>1, <2>2, <2>3, WorkerMovesLemma DEF TypeOK
<1>7. Handed'
  <2>1. /\ \A v \in Workers : handle[v] # 0 <=> pc[v] \in Holding
        /\ \A v \in Workers : handle[v] # 0 => opened[handle[v]] = v
        /\ \A h \in Handles : opened[h] # 0 => handle[opened[h]] = h
        /\ \A v \in Workers : child[v] = "running" => pc[v] \in Holding \ {"CLOSE_HANDLE"}
    BY <1>2 DEF IInv, Handed
  <2>2. CASE /\ pc[w] = "SPAWN" /\ pc'[w] = "STORE"
             /\ child' = [child EXCEPT ![w] = "running"]
             /\ \E h \in Handles : /\ opened[h] = 0
                                   /\ opened' = [opened EXCEPT ![h] = w]
                                   /\ handle' = [handle EXCEPT ![w] = h]
    <3>1. PICK h \in Handles : /\ opened[h] = 0
                               /\ opened' = [opened EXCEPT ![h] = w]
                               /\ handle' = [handle EXCEPT ![w] = h]
      BY <2>2
    <3>2. h # 0 /\ w # 0
      BY DEF Handles, Workers
    <3>3. \A v \in Workers : handle'[v] # 0 <=> pc'[v] \in Holding
      BY <1>1, <1>3, <2>1, <2>2, <3>1, <3>2 DEF TypeOK, Holding
    <3>4. \A v \in Workers : handle'[v] # 0 => opened'[handle'[v]] = v
      <4>1. handle'[w] = h /\ opened'[h] = w
        BY <1>1, <3>1 DEF TypeOK
      <4>2. ASSUME NEW v \in Workers \ {w}, handle'[v] # 0
            PROVE  opened'[handle'[v]] = v
        <5>1. handle'[v] = handle[v] /\ handle[v] \in Handles /\ opened[handle[v]] = v
          BY <1>1, <2>1, <3>1, <4>2 DEF TypeOK
        <5>2. handle[v] # h /\ v # 0
          BY <3>1, <5>1 DEF Workers
        <5> QED BY <1>1, <3>1, <5>1, <5>2 DEF TypeOK
      <4> QED BY <4>1, <4>2
    <3>5. \A g \in Handles : opened'[g] # 0 => handle'[opened'[g]] = g
      <4>1. handle'[w] = h /\ opened'[h] = w
        BY <1>1, <3>1 DEF TypeOK
      <4>2. ASSUME NEW g \in Handles \ {h}, opened'[g] # 0
            PROVE  handle'[opened'[g]] = g
        <5>1. opened'[g] = opened[g] /\ opened[g] \in Workers /\ handle[opened[g]] = g
          BY <1>1, <2>1, <3>1, <4>2 DEF TypeOK
        <5>2. opened[g] # w
          BY <2>1, <2>2, <5>1 DEF Holding, Handles
        <5> QED BY <1>1, <3>1, <5>1, <5>2 DEF TypeOK
      <4> QED BY <4>1, <4>2
    <3>6. \A v \in Workers : child'[v] = "running" => pc'[v] \in Holding \ {"CLOSE_HANDLE"}
      BY <1>1, <1>3, <2>1, <2>2 DEF TypeOK, Holding
    <3> QED BY <3>3, <3>4, <3>5, <3>6 DEF Handed
  <2>3. CASE /\ pc[w] = "CLOSE_HANDLE" /\ pc'[w] = "CLEAR" /\ child' = child
             /\ opened' = [opened EXCEPT ![handle[w]] = 0]
             /\ handle' = [handle EXCEPT ![w] = 0]
    <3>1. handle[w] \in Handles /\ opened[handle[w]] = w
      BY <1>1, <2>1, <2>3 DEF TypeOK, Holding
    <3>2. \A v \in Workers : handle'[v] # 0 <=> pc'[v] \in Holding
      BY <1>1, <1>3, <2>1, <2>3 DEF TypeOK, Holding
    <3>3. \A v \in Workers : handle'[v] # 0 => opened'[handle'[v]] = v
      BY <1>1, <2>1, <2>3, <3>1 DEF TypeOK
    <3>4. \A g \in Handles : opened'[g] # 0 => handle'[opened'[g]] = g
      BY <1>1, <2>1, <2>3, <3>1 DEF TypeOK
    <3>5. \A v \in Workers : child'[v] = "running" => pc'[v] \in Holding \ {"CLOSE_HANDLE"}
      BY <1>1, <1>3, <2>1, <2>3 DEF TypeOK, Holding
    <3> QED BY <3>2, <3>3, <3>4, <3>5 DEF Handed
  <2>4. CASE /\ pc[w] = "READ" /\ pc'[w] = "CLOSE_HANDLE" /\ child[w] = "exited"
             /\ UNCHANGED <<child, handle, opened>>
    BY <1>3, <2>1, <2>4 DEF Handed, Holding
  <2>5. CASE /\ pc[w] \notin {"CLOSE_HANDLE", "READ"}
             /\ pc'[w] \notin {"STORE", "CLOSE_HANDLE"}
             /\ pc[w] \in Holding <=> pc'[w] \in Holding
             /\ UNCHANGED <<child, handle, opened>>
    BY <1>3, <2>1, <2>5 DEF Handed, Holding
  <2> QED BY <1>1, <2>2, <2>3, <2>4, <2>5, WorkerHandlesLemma
<1>8. Owed'
  <2>1. /\ running => ui = "CREATE" \/ done > 0 \/ Alive # {}
        /\ connected = 1 => ui = "CREATE" \/ \E v \in Workers : pc[v] \in Working
        /\ slot # 0 => \E v \in Workers : pc[v] \in Stored
    BY <1>2 DEF IInv, Owed
  <2>2. done' > 0 \/ Alive' # {}
    <3>1. CASE pc[w] = "POST"
      BY <1>1, <3>1, WorkerMovesLemma DEF TypeOK
    <3>2. CASE pc[w] # "POST"
      <4>1. pc'[w] \notin Ended
        BY <1>3, <3>2 DEF Ended
      <4> QED BY <4>1 DEF Alive
    <3> QED BY <3>1, <3>2
  <2>3. connected' = 1 => ui' = "CREATE" \/ \E v \in Workers : pc'[v] \in Working
    <3>1. CASE pc[w] \in {"UNSET", "RESET"}
      BY <1>1, <3>1, WorkerMovesLemma
    <3>2. CASE pc[w] \in Working \ {"UNSET", "RESET"}
      <4>1. pc'[w] \in Working
        BY <1>1, <3>2, WorkerMovesLemma DEF TypeOK, Working, WorkerPcs, Ended
      <4> QED BY <4>1
    <3>3. CASE pc[w] = "POST"
      <4>1. connected' = connected /\ ui' = ui
        BY <1>1, <3>3, WorkerMovesLemma
      <4>2. \A v \in Workers : pc[v] \in Working => pc'[v] \in Working
        BY <1>3, <3>3 DEF Working
      <4> QED BY <2>1, <4>1, <4>2
    <3> QED BY <1>1, <3>1, <3>2, <3>3 DEF TypeOK, Working
  <2>4. slot' # 0 => \E v \in Workers : pc'[v] \in Stored
    <3>1. CASE pc[w] = "CLEAR"
      BY <1>1, <3>1, WorkerMovesLemma
    <3>2. CASE pc[w] \in {"STORE", "SET_CONNECTED", "READ", "CLOSE_HANDLE"}
      <4>1. pc'[w] \in Stored
        BY <1>1, <3>2, WorkerMovesLemma DEF TypeOK, Stored
      <4> QED BY <4>1
    <3>3. CASE pc[w] \notin Stored \union {"STORE"}
      <4>1. slot' = slot
        BY <1>1, <3>3, WorkerMovesLemma DEF Stored
      <4>2. \A v \in Workers : pc[v] \in Stored => pc'[v] \in Stored
        BY <1>3, <3>3 
      <4> QED BY <2>1, <4>1, <4>2
    <3> QED BY <3>1, <3>2, <3>3 DEF Stored
  <2> QED BY <2>2, <2>3, <2>4 DEF Owed
<1> QED BY <1>4, <1>5, <1>6, <1>7, <1>8 DEF IInv

-----------------------------------------------------------------------------
(* The window's steps, and a client that ends by itself. *)
LEMMA WindowKeeps ==
    ASSUME IInv, \/ UiStep \/ Click \/ UNCHANGED vars
                 \/ \E w \in Workers : ClientExits(w)
    PROVE  IInv'
<1>1. TypeOK
  BY DEF IInv
<1>2. CASE UNCHANGED vars
  BY <1>2 DEF IInv, TypeOK, Places, Posted, Exited, Handed, Owed, Alive, vars
<1>3. CASE ClickConnect \/ StartWorkerFails \/ ClickDisconnect \/ ClickClose
  <2>1. /\ UNCHANGED <<slot, done, started, pc, child, handle, opened>>
        /\ ui # "GONE" /\ ui' \in {"CREATE", "idle", "TERMINATE", "CLOSING"}
        /\ target' \in Handles \union {0}
        /\ ui' = "CREATE" => started < MaxWorkers
        /\ running' \in BOOLEAN /\ connected' \in {0, 1} /\ off' \in BOOLEAN
    BY <1>1, <1>3 DEF ClickConnect, StartWorkerFails, ClickDisconnect, ClickClose, TypeOK
  <2>2. TypeOK'
    BY <1>1, <2>1 DEF TypeOK, UiPcs
  <2>3. Places' /\ Posted' /\ Handed'
    BY <2>1 DEF IInv, Places, Posted, Exited, Handed
  <2>4. Owed'
    BY <1>3, <2>1 DEF IInv, Owed, Alive, ClickConnect, StartWorkerFails, ClickDisconnect,
           ClickClose
  <2> QED BY <2>2, <2>3, <2>4 DEF IInv
<1>4. CASE StartWorker
  <2> DEFINE w == started + 1
  <2>1. /\ w \in Workers /\ pc[w] = "none" /\ ui = "CREATE"
        /\ started' = w /\ pc' = [pc EXCEPT ![w] = "PREPARE"] /\ ui' = "idle"
        /\ UNCHANGED <<target, running, connected, slot, done, child, handle, opened, off>>
    BY <1>1, <1>4, MaxWorkersAssumption DEF StartWorker, Goes, IInv, Places, TypeOK, Workers
  <2>2. /\ pc' \in [Workers -> WorkerPcs] /\ pc'[w] = "PREPARE"
        /\ \A v \in Workers \ {w} : pc'[v] = pc[v]
    BY <1>1, <2>1 DEF TypeOK, WorkerPcs
  <2>3. started' \in 0 .. MaxWorkers
    BY <2>1, MaxWorkersAssumption DEF Workers
  <2> HIDE DEF w
  <2>4. TypeOK'
    BY <1>1, <2>1, <2>2, <2>3 DEF TypeOK, UiPcs
  <2>5. Places'
    <3>1. \A v \in Workers : pc'[v] = "none" <=> v > started'
      <4>1. \A v \in Workers \ {w} : v > started <=> v > w
        BY <1>1, MaxWorkersAssumption DEF TypeOK, Workers, w
      <4> QED BY <2>1, <2>2, <4>1 DEF IInv, Places, Workers
    <3> QED BY <2>1, <2>2, <3>1 DEF IInv, Places
  <2>6. Posted'
    <3>1. Exited' = Exited
      BY <2>1, <2>2 DEF Exited
    <3> QED BY <2>1, <3>1 DEF IInv, Posted
  <2>7. Handed'
    BY <2>1, <2>2 DEF IInv, Handed, Holding
  <2>8. Owed'
    <3>1. pc'[w] \in Working /\ w \in Alive'
      BY <2>1, <2>2 DEF Working, WorkerPcs, Ended, Alive
    <3>2. \A v \in Workers : pc[v] \in Stored => pc'[v] \in Stored
      BY <2>1, <2>2 DEF Stored
    <3> QED BY <2>1, <3>1, <3>2 DEF IInv, Owed
  <2> QED BY <2>4, <2>5, <2>6, <2>7, <2>8 DEF IInv
<1>5. ASSUME child' \in [Workers -> {"none", "running", "exited"}],
             \A w \in Workers : child'[w] = "running" => child[w] = "running",
             UNCHANGED <<connected, slot, done, started, pc, handle, opened>>,
             ui # "GONE" \/ UNCHANGED ui, ui' \notin {"GONE", "CREATE"} \/ UNCHANGED ui,
             ui' \in UiPcs, target' \in Handles \union {0},
             running' \in BOOLEAN, off' \in BOOLEAN, running' => running,
             ui = "CREATE" => UNCHANGED ui
      PROVE  IInv'
  <2>1. TypeOK'
    BY <1>1, <1>5 DEF TypeOK
  <2>2. Places' /\ Posted'
    BY <1>5 DEF IInv, Places, Posted, Exited
  <2>3. Handed'
    BY <1>5 DEF IInv, Handed
  <2>4. Owed'
    BY <1>5 DEF IInv, Owed, Alive
  <2> QED BY <2>1, <2>2, <2>3, <2>4 DEF IInv
<1>6. CASE Terminate
  <2>1. /\ child' \in [Workers -> {"none", "running", "exited"}]
        /\ \A w \in Workers : child'[w] = "running" => child[w] = "running"
    <3>1. child' = Killed(target) /\ target \in Handles \union {0}
      BY <1>1, <1>6 DEF Terminate, TypeOK
    <3> QED BY <1>1, <3>1 DEF Killed, TypeOK
  <2> QED BY <1>1, <1>5, <1>6, <2>1 DEF Terminate, TypeOK, UiPcs
<1>7. CASE \E w \in Workers : ClientExits(w)
  <2>1. PICK w \in Workers : ClientExits(w)
    BY <1>7
  <2>2. child' = [child EXCEPT ![w] = "exited"]
    BY <2>1 DEF ClientExits
  <2>3. /\ child' \in [Workers -> {"none", "running", "exited"}]
        /\ \A v \in Workers : child'[v] = "running" => child[v] = "running"
    BY <1>1, <2>2 DEF TypeOK
  <2> QED BY <1>1, <1>5, <2>1, <2>3 DEF ClientExits, TypeOK
<1>8. CASE HandleDone
  <2>1. /\ ui = "idle" /\ done > 0 /\ done' = done - 1 /\ running' = FALSE
        /\ UNCHANGED <<ui, target, connected, slot, started, pc, child, handle, opened, off>>
    BY <1>1, <1>8 DEF HandleDone
  <2>2. TypeOK'
    <3>1. done' \in 0 .. MaxWorkers
      BY <1>1, <2>1, MaxWorkersAssumption DEF TypeOK
    <3> QED BY <1>1, <2>1, <3>1 DEF TypeOK
  <2>3. Posted'
    <3>1. IsFiniteSet(Workers) /\ Exited \subseteq Workers /\ Exited' = Exited
      BY <2>1, FS_Interval, MaxWorkersAssumption DEF Workers, Exited
    <3>2. Cardinality(Exited) \in Nat
      BY <3>1, FS_Subset, FS_CardinalityType
    <3> QED BY <1>1, <2>1, <3>1, <3>2, MaxWorkersAssumption DEF IInv, Posted, TypeOK
  <2>4. Places' /\ Handed'
    BY <2>1 DEF IInv, Places, Handed
  <2>5. Owed'
    BY <2>1 DEF IInv, Owed
  <2> QED BY <2>2, <2>3, <2>4, <2>5 DEF IInv
<1>9. CASE Quit
  <2>1. /\ ui' = "GONE" /\ UNCHANGED <<target, running, connected, slot, done, started,
                                       child, handle, opened, off>>
        /\ pc' = [w \in Workers |-> IF w \in Alive THEN "KILLED" ELSE pc[w]]
    BY <1>9 DEF Quit
  <2>2. TypeOK'
    BY <1>1, <2>1 DEF TypeOK, UiPcs, WorkerPcs
  <2>3. Places'
    BY <2>1 DEF IInv, Places, Alive, Ended
  <2>4. Posted'
    <3>1. Exited' = Exited
      BY <2>1 DEF Exited, Alive, Ended
    <3> QED BY <2>1, <3>1 DEF IInv, Posted
  <2>5. Handed' /\ Owed'
    BY <2>1 DEF Handed, Owed
  <2> QED BY <2>2, <2>3, <2>4, <2>5 DEF IInv
<1> QED BY <1>2, <1>3, <1>4, <1>6, <1>7, <1>8, <1>9 DEF UiStep, Click

-----------------------------------------------------------------------------
LEMMA Start == Init => IInv
<1> SUFFICES ASSUME Init PROVE IInv
  OBVIOUS
<1>1. TypeOK
  <2>1. 0 \in 0 .. MaxWorkers
    BY MaxWorkersAssumption
  <2>2. /\ pc \in [Workers -> WorkerPcs]
        /\ child \in [Workers -> {"none", "running", "exited"}]
    BY DEF Init, WorkerPcs
  <2>3. /\ handle \in [Workers -> Handles \union {0}]
        /\ opened \in [Handles -> Workers \union {0}]
    BY DEF Init
  <2> QED BY <2>1, <2>2, <2>3 DEF Init, TypeOK, UiPcs
<1>2. Places
  BY DEF Init, Places, Workers
<1>3. Posted
  <2>1. Exited = {}
    BY DEF Init, Exited
  <2> QED BY <2>1, FS_EmptySet DEF Init, Posted
<1>4. Handed /\ Owed
  BY DEF Init, Handed, Owed, Holding
<1> QED BY <1>1, <1>2, <1>3, <1>4 DEF IInv

(* IInv holds in every reachable state. *)
THEOREM Inductive == Spec => []IInv
<1>1. IInv /\ [Next]_vars => IInv'
  BY WorkerKeeps, WindowKeeps DEF Next
<1> QED BY Start, <1>1, PTL DEF Spec

(* TypeOK, of connect_worker's `done:`: in particular no more DONE messages  *)
(* wait than workers were started.                                          *)
THEOREM TypeCorrect == Spec => []TypeOK
<1>1. IInv => TypeOK
  BY DEF IInv
<1> QED BY <1>1, Inductive, PTL

(* BackToStart, of g_gui.connected, g_gui.child_process and the buttons:    *)
(* however the clicks, failures, ends of clients and up to MaxWorkers       *)
(* workers interleave, once all is over Connect is enabled and accepted,    *)
(* and no handle is open and no client running.                             *)
THEOREM ReturnsToStart == Spec => []BackToStart
<1>1. IInv => BackToStart
  <2> SUFFICES ASSUME IInv, ui = "idle", Alive = {}, done = 0
               PROVE  /\ ~running /\ connected = 0 /\ slot = 0
                      /\ \A h \in Handles : opened[h] = 0
                      /\ Clients = {}
    BY DEF BackToStart
  <2>1. \A w \in Workers : pc[w] \in Ended
    BY DEF Alive
  <2>2. ~running /\ connected = 0 /\ slot = 0
    BY <2>1 DEF IInv, TypeOK, Owed, Working, Stored, Ended
  <2>3. \A w \in Workers : handle[w] = 0 /\ child[w] # "running"
    BY <2>1 DEF IInv, Handed, Holding, Ended
  <2>4. \A h \in Handles : opened[h] = 0
    <3>1. \A h \in Handles : opened[h] # 0 =>
            opened[h] \in Workers /\ handle[opened[h]] = h /\ h # 0
      BY DEF IInv, TypeOK, Handed, Handles
    <3> QED BY <2>3, <3>1
  <2> QED BY <2>2, <2>3, <2>4 DEF Clients
<1> QED BY <1>1, Inductive, PTL
=============================================================================
