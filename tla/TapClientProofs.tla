-------------------------- MODULE TapClientProofs --------------------------
(***************************************************************************)
(* Proofs about TapClient, for every set of network ids and any number of  *)
(* messages: its invariants, the order of its paths and messages, what its *)
(* exit code says, and that it implements ConnectStrategy.                 *)
(***************************************************************************)
EXTENDS TapClient, TLAPS

(***************************************************************************)
(* Invariants.  IInv says, for each place the thread can be at, which      *)
(* resources it holds, which paths it has tried and what it has heard on   *)
(* the connection in use; the properties follow from it.                   *)
(***************************************************************************)
Idle     == {"START", "R_INIT", "EXIT"}
LoopPcs  == {"D_LOOP", "R_PING", "R_LOOP"}

(* Resources are a function of the place in the code. *)
Holdings ==
    /\ sockets = {fd} \ {0}
    /\ fd = IF pc \in Idle \union {"D_CONNECT"} THEN 0 ELSE Len(tries)
    /\ wsa = IF pc \in Idle THEN 0 ELSE 1
    /\ tap = IF pc \in LoopPcs THEN "open" ELSE "closed"

(* How many paths may have been tried when the thread is at pc. *)
Budget ==
    /\ pc = "START" => allow /\ Len(tries) = 0
    /\ pc = "D_CONNECT" => Len(tries) <= IF site = "cli" THEN 0 ELSE 2
    /\ pc \in DirectPcs => allow /\ Len(tries) <= IF site = "cli" THEN 1 ELSE 3
    /\ pc = "R_INIT" => Len(tries) <= IF allow THEN 1 ELSE 3
    /\ pc \in RelayPcs => Len(tries) <= IF allow THEN 2 ELSE 4
    /\ pc \in DirectPcs \ {"D_CONNECT"} => Len(tries) > 0 /\ tries[Len(tries)] = "direct"
    /\ pc \in RelayPcs \ {"R_INIT"} => Len(tries) > 0 /\ tries[Len(tries)] = "relay"

(* What the connection in use was told so far. *)
HeardSoFar ==
    /\ \A c \in Conns : c > Len(tries) => heard[c] = <<>>
    /\ pc \in {"R_HELLO", "R_HELLO_WAIT"} => heard[fd] = <<>>
    /\ pc \in {"R_AUTH", "R_AUTH_WAIT"} =>
         Len(heard[fd]) = 1 /\ IsServerHello(heard[fd][1])
    /\ pc = "R_CONFIG_WAIT" =>
         /\ Len(heard[fd]) = 2 /\ IsServerHello(heard[fd][1])
         /\ heard[fd][2].type = "AUTH_OK" /\ heard[fd][2].net = netId
    /\ pc \in {"R_OPEN", "R_PING", "R_LOOP"} => Granted(fd, netId)

(* On whose word a direct path is used. *)
DirectBacked ==
    /\ pc \in DirectPcs /\ site = "cli" => netId = cfgNet /\ netId # 0
    /\ pc = "D_CONNECT" /\ site = "cfg" =>
         /\ Len(tries) > 0 /\ tries[Len(tries)] = "relay"
         /\ HandedOut(Len(tries), netId)
    /\ pc \in DirectPcs \ {"D_CONNECT"} /\ site = "cfg" =>
         /\ Len(tries) > 1 /\ tries[Len(tries) - 1] = "relay"
         /\ HandedOut(Len(tries) - 1, netId)

FramesBacked ==
    \A w \in written : w.conn \in 1 .. Len(tries) /\ MayCarry(w.conn, w.net)

IInv == TypeOK /\ Holdings /\ Budget /\ HeardSoFar /\ DirectBacked /\ FramesBacked
-----------------------------------------------------------------------------
(* What the helpers do to the histories. *)
LEMMA AppendLemma ==
    ASSUME NEW S, NEW s \in Seq(S), NEW e \in S
    PROVE  /\ Append(s, e) \in Seq(S)
           /\ Len(Append(s, e)) = Len(s) + 1
           /\ Append(s, e)[Len(s) + 1] = e
           /\ \A i \in 1 .. Len(s) : Append(s, e)[i] = s[i]
  OBVIOUS

(* Sending keeps the type of the histories. *)
LEMMA SendLemma ==
    ASSUME TypeOK, fd \in Conns, NEW what \in Sendable, Send(what)
    PROVE  sent' \in [Conns -> Seq(Sendable)]
  <1>1. Append(sent[fd], what) \in Seq(Sendable)
    BY DEF TypeOK
  <1> QED BY <1>1 DEF TypeOK, Send

(* Receiving adds the message at the end of its connection's history and    *)
(* touches no other.                                                        *)
LEMMA ReceiveLemma ==
    ASSUME TypeOK, fd \in Conns, NEW m \in Msgs, Receive(m)
    PROVE  /\ heard' \in [Conns -> Seq(Msgs)]
           /\ Len(heard'[fd]) = Len(heard[fd]) + 1
           /\ heard'[fd][Len(heard[fd]) + 1] = m
           /\ \A i \in 1 .. Len(heard[fd]) : heard'[fd][i] = heard[fd][i]
           /\ \A c \in Conns \ {fd} : heard'[c] = heard[c]
  <1>1. /\ Append(heard[fd], m) \in Seq(Msgs)
        /\ Len(Append(heard[fd], m)) = Len(heard[fd]) + 1
        /\ Append(heard[fd], m)[Len(heard[fd]) + 1] = m
        /\ \A i \in 1 .. Len(heard[fd]) : Append(heard[fd], m)[i] = heard[fd][i]
    BY DEF TypeOK
  <1>2. heard' = [heard EXCEPT ![fd] = Append(heard[fd], m)]
    BY DEF Receive
  <1> QED BY <1>1, <1>2 DEF TypeOK

(* A try is one more path; the earlier ones stay. *)
LEMMA TryLemma ==
    ASSUME TypeOK, NEW path \in Paths, tries' = Append(tries, path)
    PROVE  /\ tries' \in Seq(Paths)
           /\ Len(tries') = Len(tries) + 1 /\ Len(tries) \in Nat
           /\ tries'[Len(tries')] = path
           /\ \A i \in 1 .. Len(tries) : tries'[i] = tries[i]
  BY DEF TypeOK

(* The messages that carry a network carry one of NetIds. *)
LEMMA MsgLemma ==
    ASSUME NEW m \in Msgs
    PROVE  m.type \in {"AUTH_OK", "TAP_FRAME"} => m.net \in NetIds
  BY DEF Msgs, Hello, AuthOk, ConfigPush, TapFrame, Others

(* A finished handshake grants what it granted for ever: nothing more is    *)
(* received on its connection that counts.                                  *)
LEMMA GrantedKept ==
    ASSUME TypeOK, NEW c \in Conns, NEW n,
           \/ heard' = heard
           \/ fd \in Conns /\ Len(heard[fd]) # 3 /\ \E m \in Msgs : Receive(m)
    PROVE  /\ Granted(c, n) => Granted(c, n)'
           /\ HandedOut(c, n) => HandedOut(c, n)'
  <1>1. CASE heard' = heard
    BY <1>1 DEF Granted, HandedOut
  <1>2. CASE fd \in Conns /\ Len(heard[fd]) # 3 /\ \E m \in Msgs : Receive(m)
    <2>1. \A d \in Conns \ {fd} : heard'[d] = heard[d]
      BY ReceiveLemma
    <2>2. Granted(c, n) => heard'[c] = heard[c]
      BY <2>1 DEF Granted
    <2> QED BY <2>2 DEF Granted, HandedOut, IsServerHello
  <1> QED BY <1>1, <1>2

(* Hence a frame that was carried with a right to be keeps that right. *)
LEMMA FramesKept ==
    ASSUME TypeOK, FramesBacked, written' = written, cfgNet' = cfgNet,
           tries' = tries \/ \E p \in Paths : tries' = Append(tries, p),
           \/ heard' = heard
           \/ fd \in Conns /\ Len(heard[fd]) # 3 /\ \E m \in Msgs : Receive(m)
    PROVE  FramesBacked'
  <1> SUFFICES ASSUME NEW w \in written
               PROVE  w.conn \in 1 .. Len(tries') /\ MayCarry(w.conn, w.net)'
    BY DEF FramesBacked
  <1>1. w.conn \in 1 .. Len(tries) /\ w.conn \in Conns /\ MayCarry(w.conn, w.net)
    BY DEF FramesBacked, TypeOK
  <1>2. \A c \in Conns : /\ Granted(c, w.net) => Granted(c, w.net)'
                         /\ HandedOut(c, w.net) => HandedOut(c, w.net)'
    BY GrantedKept
  <1>3. w.conn \in 1 .. Len(tries')
    BY <1>1
  <1>4. MayCarry(w.conn, w.net)'
    <2>1. tries'[w.conn] = tries[w.conn]
      BY <1>1
    <2>2. CASE w.conn = 1
      BY <2>2, <1>1, <1>2 DEF MayCarry
    <2>3. CASE w.conn # 1
      <3>1. w.conn - 1 \in 1 .. Len(tries) /\ w.conn - 1 \in Conns
        BY <2>3, <1>1 DEF Conns, MaxTries
      <3>2. tries'[w.conn - 1] = tries[w.conn - 1]
        BY <3>1
      <3> QED BY <2>1, <2>3, <3>1, <3>2, <1>1, <1>2 DEF MayCarry
    <2> QED BY <2>2, <2>3
  <1> QED BY <1>3, <1>4

(* The two ways a path ends: what is given back, and what comes next. *)
LEMMA DirectDoneLemma ==
    ASSUME TypeOK, Holdings, pc \in DirectPcs, NEW code \in {1, -1}, DirectDone(code)
    PROVE  /\ sockets' = {} /\ fd' = 0 /\ wsa' = 0 /\ tap' = "closed"
           /\ \/ pc' = "EXIT" /\ rc' = code /\ allow' = allow
              \/ pc' = "R_INIT" /\ rc' = rc /\ site = "cli" /\ allow' = TRUE
              \/ pc' = "R_INIT" /\ rc' = rc /\ site = "cfg" /\ allow' = FALSE
  <1>1. sockets' = {} /\ fd' = 0 /\ wsa' = 0 /\ tap' = "closed"
    BY DEF DirectDone, SocketClose, NetCleanup, Holdings
  <1>2. AfterDirect(code) /\ code # 0
    BY DEF DirectDone
  <1> QED BY <1>1, <1>2 DEF AfterDirect, TapRunMode, Exit

(* The end of a relay try gives everything back and leaves the code. *)
LEMMA RelayDoneLemma ==
    ASSUME TypeOK, Holdings, pc \in RelayPcs \ {"R_INIT"}, NEW code, RelayDone(code)
    PROVE  /\ sockets' = {} /\ fd' = 0 /\ wsa' = 0 /\ tap' = "closed"
           /\ pc' = "EXIT" /\ rc' = code
  BY DEF RelayDone, SocketClose, NetCleanup, Exit, Holdings

(* Off the idle places, fd names the connection of the last try, and the    *)
(* handshake has heard as many answers as it has waited for.                *)
LEMMA FdLemma ==
    ASSUME TypeOK, Holdings, Budget, pc \in Pcs \ (Idle \union {"D_CONNECT"})
    PROVE  fd = Len(tries) /\ fd \in 1 .. Len(tries) /\ fd \in Conns
  <1>1. fd = Len(tries) /\ Len(tries) \in Nat /\ Len(tries) <= 4
    BY DEF Holdings, TypeOK, MaxTries
  <1>2. Len(tries) > 0
    BY DEF Budget, Pcs, Idle
  <1> QED BY <1>1, <1>2 DEF Conns, MaxTries

(* The handshake's history after one more answer, for each of its three     *)
(* lengths.                                                                 *)
LEMMA AnswersLemma ==
    ASSUME TypeOK, fd \in Conns, NEW m \in Msgs, Receive(m)
    PROVE  /\ Len(heard[fd]) = 0 => Len(heard'[fd]) = 1 /\ heard'[fd][1] = m
           /\ Len(heard[fd]) = 1 => /\ Len(heard'[fd]) = 2
                                    /\ heard'[fd][1] = heard[fd][1] /\ heard'[fd][2] = m
           /\ Len(heard[fd]) = 2 => /\ Len(heard'[fd]) = 3
                                    /\ heard'[fd][1] = heard[fd][1]
                                    /\ heard'[fd][2] = heard[fd][2] /\ heard'[fd][3] = m
  <1>1. heard[fd] \in Seq(Msgs) /\ heard'[fd] = Append(heard[fd], m)
    BY DEF TypeOK, Receive
  <1> QED BY <1>1

(* How much the handshake has heard where it waits for the next answer. *)
LEMMA HeardLemma ==
    ASSUME HeardSoFar
    PROVE  /\ pc = "R_HELLO_WAIT" => Len(heard[fd]) = 0
           /\ pc = "R_AUTH_WAIT" => Len(heard[fd]) = 1
           /\ pc = "R_CONFIG_WAIT" => Len(heard[fd]) = 2
  BY DEF HeardSoFar

(* IInv is inductive. *)
LEMMA Step == IInv /\ [Next]_vars => IInv'
<1> SUFFICES ASSUME IInv, [Next]_vars PROVE IInv'
  OBVIOUS
<1> USE NetworksAssumption, MaxLogAssumption
        DEF Pcs, RelayPcs, DirectPcs, Idle, LoopPcs, Conns, MaxTries
<1>a. TypeOK /\ Holdings /\ Budget /\ HeardSoFar /\ DirectBacked /\ FramesBacked
  BY DEF IInv
<1>1. CASE StartRelay
  <2>1. TypeOK'
    BY <1>a, <1>1 DEF StartRelay, TypeOK, TapRunMode, history
  <2>2. Holdings'
    BY <1>a, <1>1 DEF StartRelay, Holdings, TapRunMode, locals, history
  <2>3. Budget'
    BY <1>a, <1>1 DEF StartRelay, Budget, TapRunMode, locals, history
  <2>4. HeardSoFar'
    BY <1>a, <1>1 DEF StartRelay, HeardSoFar, TapRunMode, history
  <2>5. DirectBacked'
    BY <1>1 DEF StartRelay, DirectBacked, TapRunMode
  <2>6. FramesBacked'
    BY <1>a, <1>1, FramesKept DEF StartRelay, history
  <2> QED BY <2>1, <2>2, <2>3, <2>4, <2>5, <2>6 DEF IInv
<1>2. CASE StartDirect
  <2>1. TypeOK'
    BY <1>a, <1>2 DEF StartDirect, TypeOK, Holdings, history
  <2>2. Holdings'
    BY <1>a, <1>2 DEF StartDirect, Holdings, locals, history
  <2>3. Budget'
    BY <1>a, <1>2 DEF StartDirect, Budget, locals, history
  <2>4. HeardSoFar'
    BY <1>a, <1>2 DEF StartDirect, HeardSoFar, history
  <2>5. DirectBacked'
    BY <1>2 DEF StartDirect, DirectBacked
  <2>6. FramesBacked'
    BY <1>a, <1>2, FramesKept DEF StartDirect, locals, history
  <2> QED BY <2>1, <2>2, <2>3, <2>4, <2>5, <2>6 DEF IInv
<1>3. CASE StartDirectFails
  <2>1. wsa' = 0 /\ fd' = 0 /\ sockets' = {} /\ tap' = "closed"
    BY <1>a, <1>3 DEF StartDirectFails, NetCleanup, Holdings, history
  <2>2. UNCHANGED <<mode, cfgNet, site, netId, tap, sockets, tries, sent, heard, written>>
    BY <1>3 DEF StartDirectFails, history
  <2>3. \/ pc' = "EXIT" /\ rc' = 1 /\ allow' = allow
        \/ pc' = "R_INIT" /\ rc' = rc /\ allow' = TRUE
        \/ pc' = "R_INIT" /\ rc' = rc /\ allow' = FALSE
    BY <1>3 DEF StartDirectFails, AfterDirect, TapRunMode, Exit
  <2>4. tries' = tries /\ Len(tries') = 0 /\ allow' \in BOOLEAN
    BY <1>a, <1>3, <2>3 DEF StartDirectFails, Budget, history
  <2>5. TypeOK'
    BY <1>a, <2>1, <2>2, <2>3 DEF TypeOK
  <2>6. Holdings'
    BY <2>1, <2>3 DEF Holdings
  <2>7. Budget'
    BY <2>3, <2>4 DEF Budget
  <2>8. HeardSoFar'
    BY <1>a, <2>2, <2>3 DEF HeardSoFar
  <2>9. DirectBacked'
    BY <2>3 DEF DirectBacked
  <2>10. FramesBacked'
    BY <1>a, <1>3, FramesKept DEF StartDirectFails, history
  <2> QED BY <2>5, <2>6, <2>7, <2>8, <2>9, <2>10 DEF IInv
<1>4. CASE DirectConnect
  <2>1. tries' = Append(tries, "direct") /\ "direct" \in Paths
    BY <1>4 DEF DirectConnect, Connected, Paths
  <2>2. Len(tries) <= IF site = "cli" THEN 0 ELSE 2
    BY <1>a, <1>4 DEF DirectConnect, Budget
  <2>3. fd' = Len(tries') /\ fd' \in Conns /\ sockets' = {fd'} /\ pc' = "D_TOKEN"
    BY <1>a, <1>4, <2>1, <2>2 DEF DirectConnect, Connected, Holdings
  <2>4. TypeOK'
    BY <1>a, <1>4, <2>1, <2>3 DEF DirectConnect, locals, TypeOK
  <2>5. Holdings'
    BY <1>a, <1>4, <2>3 DEF DirectConnect, Holdings
  <2>6. Budget'
    BY <1>a, <1>4, <2>1, <2>3 DEF DirectConnect, Budget, locals
  <2>7. HeardSoFar'
    BY <1>a, <1>4, <2>1, <2>3 DEF DirectConnect, HeardSoFar
  <2>8. DirectBacked'
    BY <1>a, <1>4, <2>1, <2>3 DEF DirectConnect, locals, DirectBacked, Granted, HandedOut
  <2>9. FramesBacked'
    BY <1>a, <1>4, <2>1, FramesKept DEF DirectConnect, locals
  <2> QED BY <2>4, <2>5, <2>6, <2>7, <2>8, <2>9 DEF IInv
<1>5. CASE DirectConnectFails
  <2>1. tries' = Append(tries, "direct") /\ "direct" \in Paths
    BY <1>5 DEF DirectConnectFails, Paths
  <2>2. /\ tries' \in Seq(Paths)
        /\ Len(tries') = Len(tries) + 1 /\ Len(tries) \in Nat
        /\ tries'[Len(tries')] = "direct"
        /\ \A i \in 1 .. Len(tries) : tries'[i] = tries[i]
    BY <1>a, <2>1, TryLemma
  <2>3. pc \in DirectPcs
    BY <1>5 DEF DirectConnectFails
  <2>4. DirectDone(1)
    BY <1>5 DEF DirectConnectFails
  <2>5. /\ sockets' = {} /\ fd' = 0 /\ wsa' = 0 /\ tap' = "closed"
        /\ \/ pc' = "EXIT" /\ rc' = 1 /\ allow' = allow
           \/ pc' = "R_INIT" /\ rc' = rc /\ site = "cli" /\ allow' = TRUE
           \/ pc' = "R_INIT" /\ rc' = rc /\ site = "cfg" /\ allow' = FALSE
    BY <2>1, <2>3, <2>4, DirectDoneLemma DEF IInv
  <2>6. Len(tries') <= (IF site = "cli" THEN 1 ELSE 3) /\ Len(tries') <= 4
    BY <1>a, <1>5 DEF DirectConnectFails, Budget
  <2>7. /\ site' = site /\ netId' = netId /\ cfgNet' = cfgNet
        /\ mode' = mode /\ sent' = sent /\ heard' = heard /\ written' = written
    BY <1>5 DEF DirectConnectFails
  <2>8. TypeOK'
    BY <1>a, <2>2, <2>5, <2>6, <2>7 DEF TypeOK
  <2>9. Holdings'
    BY <2>5 DEF Holdings
  <2>10. Budget'
    BY <2>5, <2>6 DEF Budget
  <2>11. HeardSoFar'
    BY <1>a, <2>1, <2>5, <2>7 DEF HeardSoFar
  <2>12. DirectBacked'
    BY <2>5 DEF DirectBacked
  <2>13. FramesBacked'
    BY <1>a, <1>5, <2>1, <2>6, FramesKept DEF DirectConnectFails
  <2> QED BY <2>8, <2>9, <2>10, <2>11, <2>12, <2>13 DEF IInv
<1>6. CASE SendToken
  <2>1. fd = Len(tries) /\ fd \in 1 .. Len(tries) /\ fd \in Conns
    BY <1>a, <1>6, FdLemma DEF SendToken
  <2>2. Send("TOKEN")
    BY <1>6 DEF SendToken
  <2>3. sent' \in [Conns -> Seq(Sendable)]
    BY <1>a, <2>1, <2>2, SendLemma DEF Sendable
  <2>4. TypeOK'
    BY <1>a, <1>6, <2>1, <2>3 DEF SendToken, TypeOK, locals
  <2>5. Holdings'
    BY <1>a, <1>6 DEF SendToken, Holdings
  <2>6. Budget'
    BY <1>a, <1>6 DEF SendToken, Budget, locals
  <2>7. HeardSoFar'
    BY <1>a, <1>6 DEF SendToken, HeardSoFar
  <2>8. DirectBacked'
    BY <1>a, <1>6 DEF SendToken, DirectBacked, Granted, HandedOut, locals
  <2>9. FramesBacked'
    BY <1>a, <1>6, FramesKept DEF SendToken, locals
  <2> QED BY <2>4, <2>5, <2>6, <2>7, <2>8, <2>9 DEF IInv
<1>7. CASE SendTokenFails
  <2>1. pc \in DirectPcs
    BY <1>7 DEF SendTokenFails
  <2>2. DirectDone(1)
    BY <1>7 DEF SendTokenFails
  <2>3. /\ sockets' = {} /\ fd' = 0 /\ wsa' = 0 /\ tap' = "closed"
        /\ \/ pc' = "EXIT" /\ rc' = 1 /\ allow' = allow
           \/ pc' = "R_INIT" /\ rc' = rc /\ site = "cli" /\ allow' = TRUE
           \/ pc' = "R_INIT" /\ rc' = rc /\ site = "cfg" /\ allow' = FALSE
    BY <2>1, <2>2, DirectDoneLemma DEF IInv
  <2>4. /\ tries' = tries /\ site' = site /\ netId' = netId /\ cfgNet' = cfgNet
        /\ mode' = mode /\ sent' = sent /\ heard' = heard /\ written' = written
    BY <1>7 DEF SendTokenFails
  <2>5. TypeOK'
    BY <1>a, <2>3, <2>4 DEF TypeOK
  <2>6. Holdings'
    BY <2>3 DEF Holdings
  <2>7. Budget'
    BY <1>a, <2>1, <2>3, <2>4 DEF Budget
  <2>8. HeardSoFar'
    BY <1>a, <2>3, <2>4 DEF HeardSoFar
  <2>9. DirectBacked'
    BY <2>3 DEF DirectBacked
  <2>10. FramesBacked'
    BY <1>a, <1>7, FramesKept DEF SendTokenFails
  <2> QED BY <2>5, <2>6, <2>7, <2>8, <2>9, <2>10 DEF IInv
<1>8. CASE DirectTapOpen
  <2>1. TypeOK'
    BY <1>a, <1>8 DEF DirectTapOpen, TypeOK, locals, history
  <2>2. Holdings'
    BY <1>a, <1>8 DEF DirectTapOpen, Holdings, history
  <2>3. Budget'
    BY <1>a, <1>8 DEF DirectTapOpen, Budget, locals, history
  <2>4. HeardSoFar'
    BY <1>a, <1>8 DEF DirectTapOpen, HeardSoFar, history
  <2>5. DirectBacked'
    BY <1>a, <1>8 DEF DirectTapOpen, DirectBacked, Granted, HandedOut, locals, history
  <2>6. FramesBacked'
    BY <1>a, <1>8, FramesKept DEF DirectTapOpen, locals, history
  <2> QED BY <2>1, <2>2, <2>3, <2>4, <2>5, <2>6 DEF IInv
<1>9. CASE DirectLoopFails
  <2>1. pc \in DirectPcs
    BY <1>9 DEF DirectLoopFails
  <2>2. DirectDone(-1)
    BY <1>9 DEF DirectLoopFails
  <2>3. /\ sockets' = {} /\ fd' = 0 /\ wsa' = 0 /\ tap' = "closed"
        /\ \/ pc' = "EXIT" /\ rc' = -1 /\ allow' = allow
           \/ pc' = "R_INIT" /\ rc' = rc /\ site = "cli" /\ allow' = TRUE
           \/ pc' = "R_INIT" /\ rc' = rc /\ site = "cfg" /\ allow' = FALSE
    BY <2>1, <2>2, DirectDoneLemma DEF IInv
  <2>4. /\ tries' = tries /\ site' = site /\ netId' = netId /\ cfgNet' = cfgNet
        /\ mode' = mode /\ sent' = sent /\ heard' = heard /\ written' = written
    BY <1>9 DEF DirectLoopFails
  <2>5. TypeOK'
    BY <1>a, <2>3, <2>4 DEF TypeOK
  <2>6. Holdings'
    BY <2>3 DEF Holdings
  <2>7. Budget'
    BY <1>a, <2>1, <2>3, <2>4 DEF Budget
  <2>8. HeardSoFar'
    BY <1>a, <2>3, <2>4 DEF HeardSoFar
  <2>9. DirectBacked'
    BY <2>3 DEF DirectBacked
  <2>10. FramesBacked'
    BY <1>a, <1>9, FramesKept DEF DirectLoopFails
  <2> QED BY <2>5, <2>6, <2>7, <2>8, <2>9, <2>10 DEF IInv
<1>10. CASE DirectLoopSend
  <2>1. fd = Len(tries) /\ fd \in 1 .. Len(tries) /\ fd \in Conns
    BY <1>a, <1>10, FdLemma DEF DirectLoopSend
  <2>2. Send("TAP_FRAME")
    BY <1>10 DEF DirectLoopSend
  <2>3. sent' \in [Conns -> Seq(Sendable)]
    BY <1>a, <2>1, <2>2, SendLemma DEF Sendable
  <2>4. TypeOK'
    BY <1>a, <1>10, <2>1, <2>3 DEF DirectLoopSend, TypeOK, locals
  <2>5. Holdings'
    BY <1>a, <1>10 DEF DirectLoopSend, Holdings
  <2>6. Budget'
    BY <1>a, <1>10 DEF DirectLoopSend, Budget, locals
  <2>7. HeardSoFar'
    BY <1>a, <1>10 DEF DirectLoopSend, HeardSoFar
  <2>8. DirectBacked'
    BY <1>a, <1>10 DEF DirectLoopSend, DirectBacked, Granted, HandedOut, locals
  <2>9. FramesBacked'
    BY <1>a, <1>10, FramesKept DEF DirectLoopSend, locals
  <2> QED BY <2>4, <2>5, <2>6, <2>7, <2>8, <2>9 DEF IInv
<1>11. ASSUME NEW m \in Msgs, DirectLoopRecv(m) PROVE IInv'
  <2>1. fd = Len(tries) /\ fd \in 1 .. Len(tries) /\ fd \in Conns
    BY <1>a, <1>11, FdLemma DEF DirectLoopRecv
  <2>2. MayCarry(fd, netId) /\ netId \in NetIds
    BY <1>a, <1>11 DEF DirectLoopRecv, MayCarry, TypeOK, Holdings, Budget, DirectBacked
  <2>3. written' = written \union {[conn |-> fd, net |-> netId]}
    BY <1>11 DEF DirectLoopRecv
  <2>4. /\ heard' = heard /\ tries' = tries /\ cfgNet' = cfgNet
    BY <1>11 DEF DirectLoopRecv, locals
  <2>5. [conn |-> fd, net |-> netId] \in [conn : Conns, net : NetIds]
    BY <2>1, <2>2
  <2>6. \A c \in Conns, k \in NetIds : MayCarry(c, k)' <=> MayCarry(c, k)
    BY <2>4, <2>5 DEF MayCarry, Granted, HandedOut
  <2>7. TypeOK'
    BY <1>a, <1>11, <2>3, <2>5 DEF DirectLoopRecv, TypeOK, locals
  <2>8. Holdings'
    BY <1>a, <1>11 DEF DirectLoopRecv, Holdings
  <2>9. Budget'
    BY <1>a, <1>11 DEF DirectLoopRecv, Budget, locals
  <2>10. HeardSoFar'
    BY <1>a, <1>11 DEF DirectLoopRecv, HeardSoFar
  <2>11. DirectBacked'
    BY <1>a, <1>11 DEF DirectLoopRecv, DirectBacked, Granted, HandedOut, locals
  <2>12. FramesBacked'
    BY <1>a, <2>1, <2>2, <2>3, <2>4, <2>5, <2>6 DEF FramesBacked, TypeOK
  <2> QED BY <2>7, <2>8, <2>9, <2>10, <2>11, <2>12 DEF IInv
<1>12. ASSUME NEW m \in Msgs, DirectLoopReject(m) PROVE IInv'
  <2>1. pc \in DirectPcs
    BY <1>12 DEF DirectLoopReject
  <2>2. DirectDone(-1)
    BY <1>12 DEF DirectLoopReject
  <2>3. /\ sockets' = {} /\ fd' = 0 /\ wsa' = 0 /\ tap' = "closed"
        /\ \/ pc' = "EXIT" /\ rc' = -1 /\ allow' = allow
           \/ pc' = "R_INIT" /\ rc' = rc /\ site = "cli" /\ allow' = TRUE
           \/ pc' = "R_INIT" /\ rc' = rc /\ site = "cfg" /\ allow' = FALSE
    BY <2>1, <2>2, DirectDoneLemma DEF IInv
  <2>4. /\ tries' = tries /\ site' = site /\ netId' = netId /\ cfgNet' = cfgNet
        /\ mode' = mode /\ sent' = sent /\ heard' = heard /\ written' = written
    BY <1>12 DEF DirectLoopReject
  <2>5. TypeOK'
    BY <1>a, <2>3, <2>4 DEF TypeOK
  <2>6. Holdings'
    BY <2>3 DEF Holdings
  <2>7. Budget'
    BY <1>a, <2>1, <2>3, <2>4 DEF Budget
  <2>8. HeardSoFar'
    BY <1>a, <2>3, <2>4 DEF HeardSoFar
  <2>9. DirectBacked'
    BY <2>3 DEF DirectBacked
  <2>10. FramesBacked'
    BY <1>a, <1>12, FramesKept DEF DirectLoopReject
  <2> QED BY <2>5, <2>6, <2>7, <2>8, <2>9, <2>10 DEF IInv
<1>13. CASE RelayConnect
  <2>1. tries' = Append(tries, "relay") /\ "relay" \in Paths
    BY <1>13 DEF RelayConnect, Connected, Paths
  <2>2. /\ tries' \in Seq(Paths)
        /\ Len(tries') = Len(tries) + 1 /\ Len(tries) \in Nat
        /\ tries'[Len(tries')] = "relay"
        /\ \A i \in 1 .. Len(tries) : tries'[i] = tries[i]
    BY <1>a, <2>1, TryLemma
  <2>3. Len(tries) <= IF allow THEN 1 ELSE 3
    BY <1>a, <1>13 DEF RelayConnect, Budget
  <2>4. fd' = Len(tries') /\ fd' \in Conns /\ sockets' = {fd'} /\ pc' = "R_HELLO" /\ wsa' = 1
    BY <1>a, <1>13, <2>2, <2>3 DEF RelayConnect, Connected, Holdings
  <2>5. heard' = heard /\ heard[fd'] = <<>>
    BY <1>a, <1>13, <2>1, <2>4 DEF RelayConnect, HeardSoFar
  <2>6. TypeOK'
    BY <1>a, <1>13, <2>1, <2>4 DEF RelayConnect, locals, TypeOK
  <2>7. Holdings'
    BY <1>a, <1>13, <2>4 DEF RelayConnect, Holdings
  <2>8. Budget'
    BY <1>a, <1>13, <2>1, <2>4 DEF RelayConnect, Budget, locals
  <2>9. HeardSoFar'
    BY <1>a, <2>1, <2>4, <2>5 DEF HeardSoFar
  <2>10. DirectBacked'
    BY <2>4 DEF DirectBacked
  <2>11. FramesBacked'
    BY <1>a, <1>13, <2>1, FramesKept DEF RelayConnect, locals
  <2> QED BY <2>6, <2>7, <2>8, <2>9, <2>10, <2>11 DEF IInv
<1>14. CASE RelayConnectFails
  <2>1. tries' = Append(tries, "relay") /\ "relay" \in Paths
    BY <1>14 DEF RelayConnectFails, Paths
  <2>2. /\ tries' \in Seq(Paths)
        /\ Len(tries') = Len(tries) + 1 /\ Len(tries) \in Nat
        /\ tries'[Len(tries')] = "relay"
        /\ \A i \in 1 .. Len(tries) : tries'[i] = tries[i]
    BY <1>a, <2>1, TryLemma
  <2>3. Len(tries) <= IF allow THEN 1 ELSE 3
    BY <1>a, <1>14 DEF RelayConnectFails, Budget
  <2>4. wsa' = 0
    BY <1>a, <1>14 DEF RelayConnectFails, NetCleanup, Holdings
  <2>5. TypeOK'
    BY <1>a, <1>14, <2>1, <2>2, <2>3, <2>4 DEF RelayConnectFails, TypeOK, Exit, locals
  <2>6. Holdings'
    BY <1>a, <1>14, <2>4 DEF RelayConnectFails, Holdings, Exit
  <2>7. Budget'
    BY <1>14 DEF RelayConnectFails, Budget, Exit
  <2>8. HeardSoFar'
    BY <1>a, <1>14 DEF RelayConnectFails, HeardSoFar, Exit
  <2>9. DirectBacked'
    BY <1>14 DEF RelayConnectFails, DirectBacked, Exit
  <2>10. FramesBacked'
    BY <1>a, <1>14, <2>1, FramesKept DEF RelayConnectFails, locals
  <2> QED BY <2>5, <2>6, <2>7, <2>8, <2>9, <2>10 DEF IInv
<1>15. CASE RelayInitFails
  <2>1. TypeOK'
    BY <1>a, <1>15 DEF RelayInitFails, TypeOK, NetCleanup, Exit, locals, history
  <2>2. Holdings'
    BY <1>a, <1>15 DEF RelayInitFails, Holdings, NetCleanup, Exit, history
  <2>3. Budget'
    BY <1>15 DEF RelayInitFails, Budget, Exit
  <2>4. HeardSoFar'
    BY <1>a, <1>15 DEF RelayInitFails, HeardSoFar, Exit, history
  <2>5. DirectBacked'
    BY <1>15 DEF RelayInitFails, DirectBacked, Exit
  <2>6. FramesBacked'
    BY <1>a, <1>15, FramesKept DEF RelayInitFails, locals, history
  <2> QED BY <2>1, <2>2, <2>3, <2>4, <2>5, <2>6 DEF IInv
<1>16. CASE SendHello
  <2>1. fd = Len(tries) /\ fd \in 1 .. Len(tries) /\ fd \in Conns
    BY <1>a, <1>16, FdLemma DEF SendHello
  <2>2. Send("HELLO")
    BY <1>16 DEF SendHello
  <2>3. sent' \in [Conns -> Seq(Sendable)]
    BY <1>a, <2>1, <2>2, SendLemma DEF Sendable
  <2>4. TypeOK'
    BY <1>a, <1>16, <2>1, <2>3 DEF SendHello, TypeOK, locals
  <2>5. Holdings'
    BY <1>a, <1>16 DEF SendHello, Holdings
  <2>6. Budget'
    BY <1>a, <1>16 DEF SendHello, Budget, locals
  <2>7. HeardSoFar'
    BY <1>a, <1>16 DEF SendHello, HeardSoFar
  <2>8. DirectBacked'
    BY <1>16 DEF SendHello, DirectBacked
  <2>9. FramesBacked'
    BY <1>a, <1>16, FramesKept DEF SendHello, locals
  <2> QED BY <2>4, <2>5, <2>6, <2>7, <2>8, <2>9 DEF IInv
<1>17. CASE SendAuth
  <2>1. fd = Len(tries) /\ fd \in 1 .. Len(tries) /\ fd \in Conns
    BY <1>a, <1>17, FdLemma DEF SendAuth
  <2>2. Send("AUTH_TAP")
    BY <1>17 DEF SendAuth
  <2>3. sent' \in [Conns -> Seq(Sendable)]
    BY <1>a, <2>1, <2>2, SendLemma DEF Sendable
  <2>4. TypeOK'
    BY <1>a, <1>17, <2>1, <2>3 DEF SendAuth, TypeOK, locals
  <2>5. Holdings'
    BY <1>a, <1>17 DEF SendAuth, Holdings
  <2>6. Budget'
    BY <1>a, <1>17 DEF SendAuth, Budget, locals
  <2>7. HeardSoFar'
    BY <1>a, <1>17 DEF SendAuth, HeardSoFar
  <2>8. DirectBacked'
    BY <1>17 DEF SendAuth, DirectBacked
  <2>9. FramesBacked'
    BY <1>a, <1>17, FramesKept DEF SendAuth, locals
  <2> QED BY <2>4, <2>5, <2>6, <2>7, <2>8, <2>9 DEF IInv
<1>18. CASE HandshakeSendFails
  <2>1. pc \in RelayPcs \ {"R_INIT"}
    BY <1>18 DEF HandshakeSendFails
  <2>2. RelayDone(1)
    BY <1>18 DEF HandshakeSendFails
  <2>3. /\ sockets' = {} /\ fd' = 0 /\ wsa' = 0 /\ tap' = "closed"
        /\ pc' = "EXIT" /\ rc' = 1
    BY <2>1, <2>2, RelayDoneLemma DEF IInv
  <2>4. TypeOK'
    BY <1>a, <1>18, <2>3 DEF HandshakeSendFails, TypeOK, locals
  <2>5. Holdings'
    BY <2>3 DEF Holdings
  <2>6. Budget'
    BY <2>3 DEF Budget
  <2>7. HeardSoFar'
    BY <1>a, <1>18, <2>3 DEF HandshakeSendFails, HeardSoFar
  <2>8. DirectBacked'
    BY <2>3 DEF DirectBacked
  <2>9. FramesBacked'
    BY <1>a, <1>18, FramesKept DEF HandshakeSendFails, locals
  <2> QED BY <2>4, <2>5, <2>6, <2>7, <2>8, <2>9 DEF IInv
<1>19. ASSUME NEW m \in Msgs, RecvHello(m) PROVE IInv'
  <2>1. fd = Len(tries) /\ fd \in 1 .. Len(tries) /\ fd \in Conns
    BY <1>a, <1>19, FdLemma DEF RecvHello
  <2>2. Len(heard[fd]) = 0 /\ Receive(m)
    BY <1>a, <1>19, HeardLemma DEF RecvHello
  <2>3. /\ heard' \in [Conns -> Seq(Msgs)]
        /\ \A c \in Conns \ {fd} : heard'[c] = heard[c]
    BY <1>a, <2>1, <2>2, ReceiveLemma
  <2>4. /\ Len(heard'[fd]) = 1
        /\ heard'[fd][1] = m
    BY <1>a, <2>1, <2>2, AnswersLemma
  <2>5. tries' = tries /\ cfgNet' = cfgNet /\ written' = written
    BY <1>19 DEF RecvHello, locals
  <2>6. Len(heard[fd]) # 3 /\ \E k \in Msgs : Receive(k)
    BY <2>2
  <2>7. FramesBacked'
    BY <1>a, <2>1, <2>5, <2>6, FramesKept
  <2>8. \A c \in Conns : c > Len(tries') => heard'[c] = <<>>
    BY <1>a, <2>1, <2>3, <2>5 DEF HeardSoFar
  <2>9. fd' = fd /\ tries' = tries /\ pc' = "R_AUTH" /\ IsServerHello(m)
    BY <1>19 DEF RecvHello
  <2>10. TypeOK'
    BY <1>a, <1>19, <2>3 DEF RecvHello, TypeOK, locals
  <2>11. Holdings'
    BY <1>a, <1>19 DEF RecvHello, Holdings
  <2>12. Budget'
    BY <1>a, <1>19 DEF RecvHello, Budget, locals
  <2>13. HeardSoFar'
    BY <2>4, <2>8, <2>9 DEF HeardSoFar
  <2>14. DirectBacked'
    BY <1>19 DEF RecvHello, DirectBacked
  <2> QED BY <2>7, <2>10, <2>11, <2>12, <2>13, <2>14 DEF IInv
<1>20. ASSUME NEW m \in Msgs, RecvHelloInvalid(m) PROVE IInv'
  <2>1. fd = Len(tries) /\ fd \in 1 .. Len(tries) /\ fd \in Conns
    BY <1>a, <1>20, FdLemma DEF RecvHelloInvalid
  <2>2. Len(heard[fd]) = 0 /\ Receive(m)
    BY <1>a, <1>20, HeardLemma DEF RecvHelloInvalid
  <2>3. /\ heard' \in [Conns -> Seq(Msgs)]
        /\ \A c \in Conns \ {fd} : heard'[c] = heard[c]
    BY <1>a, <2>1, <2>2, ReceiveLemma
  <2>4. tries' = tries /\ cfgNet' = cfgNet /\ written' = written
    BY <1>20 DEF RecvHelloInvalid, locals
  <2>5. Len(heard[fd]) # 3 /\ \E k \in Msgs : Receive(k)
    BY <2>2
  <2>6. FramesBacked'
    BY <1>a, <2>1, <2>4, <2>5, FramesKept
  <2>7. pc \in RelayPcs \ {"R_INIT"}
    BY <1>20 DEF RecvHelloInvalid
  <2>8. RelayDone(1)
    BY <1>20 DEF RecvHelloInvalid
  <2>9. /\ sockets' = {} /\ fd' = 0 /\ wsa' = 0 /\ tap' = "closed"
        /\ pc' = "EXIT" /\ rc' = 1
    BY <2>7, <2>8, RelayDoneLemma DEF IInv
  <2>10. TypeOK'
    BY <1>a, <1>20, <2>3, <2>9 DEF RecvHelloInvalid, TypeOK, locals
  <2>11. Holdings'
    BY <2>9 DEF Holdings
  <2>12. Budget'
    BY <2>9 DEF Budget
  <2>13. HeardSoFar'
    BY <1>a, <1>20, <2>1, <2>3, <2>9 DEF RecvHelloInvalid, HeardSoFar
  <2>14. DirectBacked'
    BY <2>9 DEF DirectBacked
  <2> QED BY <2>6, <2>10, <2>11, <2>12, <2>13, <2>14 DEF IInv
<1>21. ASSUME NEW m \in Msgs, RecvAuthOk(m) PROVE IInv'
  <2>1. fd = Len(tries) /\ fd \in 1 .. Len(tries) /\ fd \in Conns
    BY <1>a, <1>21, FdLemma DEF RecvAuthOk
  <2>2. Len(heard[fd]) = 1 /\ Receive(m)
    BY <1>a, <1>21, HeardLemma DEF RecvAuthOk
  <2>3. /\ heard' \in [Conns -> Seq(Msgs)]
        /\ \A c \in Conns \ {fd} : heard'[c] = heard[c]
    BY <1>a, <2>1, <2>2, ReceiveLemma
  <2>4. /\ Len(heard'[fd]) = 2
        /\ heard'[fd][1] = heard[fd][1] /\ heard'[fd][2] = m
    BY <1>a, <2>1, <2>2, AnswersLemma
  <2>5. tries' = tries /\ cfgNet' = cfgNet /\ written' = written
    BY <1>21 DEF RecvAuthOk
  <2>6. Len(heard[fd]) # 3 /\ \E k \in Msgs : Receive(k)
    BY <2>2
  <2>7. FramesBacked'
    BY <1>a, <2>1, <2>5, <2>6, FramesKept
  <2>8. m.net \in NetIds
    BY <1>21, MsgLemma DEF RecvAuthOk
  <2>9. fd' = fd /\ tries' = tries /\ pc' = "R_CONFIG_WAIT" /\ m.type = "AUTH_OK" /\ netId' = m.net
    BY <1>21 DEF RecvAuthOk
  <2>10. IsServerHello(heard[fd][1])
    BY <1>a, <1>21 DEF RecvAuthOk, HeardSoFar
  <2>11. TypeOK'
    BY <1>a, <1>21, <2>1, <2>3, <2>8 DEF RecvAuthOk, TypeOK
  <2>12. Holdings'
    BY <1>a, <1>21 DEF RecvAuthOk, Holdings
  <2>13. Budget'
    BY <1>a, <1>21 DEF RecvAuthOk, Budget
  <2>14. HeardSoFar'
    BY <1>a, <2>1, <2>2, <2>3, <2>4, <2>9, <2>10 DEF HeardSoFar, IsServerHello
  <2>15. DirectBacked'
    BY <1>21 DEF RecvAuthOk, DirectBacked
  <2> QED BY <2>7, <2>11, <2>12, <2>13, <2>14, <2>15 DEF IInv
<1>22. ASSUME NEW m \in Msgs, RecvAuthOther(m) PROVE IInv'
  <2>1. fd = Len(tries) /\ fd \in 1 .. Len(tries) /\ fd \in Conns
    BY <1>a, <1>22, FdLemma DEF RecvAuthOther
  <2>2. Len(heard[fd]) = 1 /\ Receive(m)
    BY <1>a, <1>22, HeardLemma DEF RecvAuthOther
  <2>3. /\ heard' \in [Conns -> Seq(Msgs)]
        /\ \A c \in Conns \ {fd} : heard'[c] = heard[c]
    BY <1>a, <2>1, <2>2, ReceiveLemma
  <2>4. tries' = tries /\ cfgNet' = cfgNet /\ written' = written
    BY <1>22 DEF RecvAuthOther, locals
  <2>5. Len(heard[fd]) # 3 /\ \E k \in Msgs : Receive(k)
    BY <2>2
  <2>6. FramesBacked'
    BY <1>a, <2>1, <2>4, <2>5, FramesKept
  <2>7. pc \in RelayPcs \ {"R_INIT"}
    BY <1>22 DEF RecvAuthOther
  <2>8. RelayDone((IF m.type = "AUTH_FAIL" THEN 3 ELSE 1))
    BY <1>22 DEF RecvAuthOther
  <2>9. /\ sockets' = {} /\ fd' = 0 /\ wsa' = 0 /\ tap' = "closed"
        /\ pc' = "EXIT" /\ rc' = (IF m.type = "AUTH_FAIL" THEN 3 ELSE 1)
    BY <2>7, <2>8, RelayDoneLemma DEF IInv
  <2>10. TypeOK'
    BY <1>a, <1>22, <2>3, <2>9 DEF RecvAuthOther, TypeOK, locals
  <2>11. Holdings'
    BY <2>9 DEF Holdings
  <2>12. Budget'
    BY <2>9 DEF Budget
  <2>13. HeardSoFar'
    BY <1>a, <1>22, <2>3, <2>5, <2>9 DEF RecvAuthOther, HeardSoFar
  <2>14. DirectBacked'
    BY <2>9 DEF DirectBacked
  <2> QED BY <2>6, <2>10, <2>11, <2>12, <2>13, <2>14 DEF IInv
<1>23. ASSUME NEW m \in Msgs, RecvConfigInvalid(m) PROVE IInv'
  <2>1. fd = Len(tries) /\ fd \in 1 .. Len(tries) /\ fd \in Conns
    BY <1>a, <1>23, FdLemma DEF RecvConfigInvalid
  <2>2. Len(heard[fd]) = 2 /\ Receive(m)
    BY <1>a, <1>23, HeardLemma DEF RecvConfigInvalid
  <2>3. /\ heard' \in [Conns -> Seq(Msgs)]
        /\ \A c \in Conns \ {fd} : heard'[c] = heard[c]
    BY <1>a, <2>1, <2>2, ReceiveLemma
  <2>4. tries' = tries /\ cfgNet' = cfgNet /\ written' = written
    BY <1>23 DEF RecvConfigInvalid, locals
  <2>5. Len(heard[fd]) # 3 /\ \E k \in Msgs : Receive(k)
    BY <2>2
  <2>6. FramesBacked'
    BY <1>a, <2>1, <2>4, <2>5, FramesKept
  <2>7. \A c \in Conns : c > Len(tries') => heard'[c] = <<>>
    BY <1>a, <2>1, <2>3, <2>4 DEF HeardSoFar
  <2>8. pc \in RelayPcs \ {"R_INIT"}
    BY <1>23 DEF RecvConfigInvalid
  <2>9. RelayDone(1)
    BY <1>23 DEF RecvConfigInvalid
  <2>10. /\ sockets' = {} /\ fd' = 0 /\ wsa' = 0 /\ tap' = "closed"
        /\ pc' = "EXIT" /\ rc' = 1
    BY <2>8, <2>9, RelayDoneLemma DEF IInv
  <2>11. TypeOK'
    BY <1>a, <1>23, <2>3, <2>10 DEF RecvConfigInvalid, TypeOK, locals
  <2>12. Holdings'
    BY <2>10 DEF Holdings
  <2>13. Budget'
    BY <2>10 DEF Budget
  <2>14. HeardSoFar'
    BY <2>7, <2>10 DEF HeardSoFar
  <2>15. DirectBacked'
    BY <2>10 DEF DirectBacked
  <2> QED BY <2>6, <2>11, <2>12, <2>13, <2>14, <2>15 DEF IInv
<1>24. ASSUME NEW m \in Msgs, RecvConfigRelay(m) PROVE IInv'
  <2>1. fd = Len(tries) /\ fd \in 1 .. Len(tries) /\ fd \in Conns
    BY <1>a, <1>24, FdLemma DEF RecvConfigRelay
  <2>2. Len(heard[fd]) = 2 /\ Receive(m)
    BY <1>a, <1>24, HeardLemma DEF RecvConfigRelay
  <2>3. /\ heard' \in [Conns -> Seq(Msgs)]
        /\ \A c \in Conns \ {fd} : heard'[c] = heard[c]
    BY <1>a, <2>1, <2>2, ReceiveLemma
  <2>4. /\ Len(heard'[fd]) = 3
        /\ heard'[fd][1] = heard[fd][1] /\ heard'[fd][2] = heard[fd][2]
        /\ heard'[fd][3] = m
    BY <1>a, <2>1, <2>2, AnswersLemma
  <2>5. tries' = tries /\ cfgNet' = cfgNet /\ written' = written
    BY <1>24 DEF RecvConfigRelay, locals
  <2>6. Len(heard[fd]) # 3 /\ \E k \in Msgs : Receive(k)
    BY <2>2
  <2>7. FramesBacked'
    BY <1>a, <2>1, <2>5, <2>6, FramesKept
  <2>8. \A c \in Conns : c > Len(tries') => heard'[c] = <<>>
    BY <1>a, <2>1, <2>3, <2>5 DEF HeardSoFar
  <2>9. IsServerHello(heard[fd][1]) /\ heard[fd][2].type = "AUTH_OK" /\ heard[fd][2].net = netId
    BY <1>a, <1>24 DEF RecvConfigRelay, HeardSoFar
  <2>10. ValidConfig(m) /\ netId' = netId /\ tries' = tries
    BY <1>24 DEF RecvConfigRelay, locals
  <2>11. fd' = fd /\ pc' = "R_OPEN"
    BY <1>24 DEF RecvConfigRelay
  <2>12. Granted(fd, netId)'
    BY <2>4, <2>9, <2>10, <2>11 DEF ValidConfig, Granted
  <2>13. TypeOK'
    BY <1>a, <1>24, <2>3 DEF RecvConfigRelay, TypeOK, locals
  <2>14. Holdings'
    BY <1>a, <1>24 DEF RecvConfigRelay, Holdings
  <2>15. Budget'
    BY <1>a, <1>24 DEF RecvConfigRelay, Budget, locals
  <2>16. HeardSoFar'
    BY <2>8, <2>11, <2>12 DEF HeardSoFar
  <2>17. DirectBacked'
    BY <1>24 DEF RecvConfigRelay, DirectBacked
  <2> QED BY <2>7, <2>13, <2>14, <2>15, <2>16, <2>17 DEF IInv
<1>25. ASSUME NEW m \in Msgs, RecvConfigDirect(m) PROVE IInv'
  <2>1. fd = Len(tries) /\ fd \in 1 .. Len(tries) /\ fd \in Conns
    BY <1>a, <1>25, FdLemma DEF RecvConfigDirect
  <2>2. Len(heard[fd]) = 2 /\ Receive(m)
    BY <1>a, <1>25, HeardLemma DEF RecvConfigDirect
  <2>3. /\ heard' \in [Conns -> Seq(Msgs)]
        /\ \A c \in Conns \ {fd} : heard'[c] = heard[c]
    BY <1>a, <2>1, <2>2, ReceiveLemma
  <2>4. /\ Len(heard'[fd]) = 3
        /\ heard'[fd][1] = heard[fd][1] /\ heard'[fd][2] = heard[fd][2]
        /\ heard'[fd][3] = m
    BY <1>a, <2>1, <2>2, AnswersLemma
  <2>5. tries' = tries /\ cfgNet' = cfgNet /\ written' = written
    BY <1>25 DEF RecvConfigDirect
  <2>6. Len(heard[fd]) # 3 /\ \E k \in Msgs : Receive(k)
    BY <2>2
  <2>7. FramesBacked'
    BY <1>a, <2>1, <2>5, <2>6, FramesKept
  <2>8. \A c \in Conns : c > Len(tries') => heard'[c] = <<>>
    BY <1>a, <2>1, <2>3, <2>5 DEF HeardSoFar
  <2>9. IsServerHello(heard[fd][1]) /\ heard[fd][2].type = "AUTH_OK" /\ heard[fd][2].net = netId
    BY <1>a, <1>25 DEF RecvConfigDirect, HeardSoFar
  <2>10. /\ sockets' = {} /\ fd' = 0 /\ wsa' = 1
    BY <1>a, <1>25 DEF RecvConfigDirect, Holdings, SocketClose, NetCleanup
  <2>11. Len(tries) > 0 /\ tries[Len(tries)] = "relay" /\ allow /\ Len(tries) <= 2
    BY <1>a, <1>25 DEF RecvConfigDirect, UseDirect, Budget
  <2>12. HandedOut(Len(tries), netId)'
    BY <1>25, <2>1, <2>4, <2>9 DEF RecvConfigDirect, UseDirect, ValidConfig, Granted,
          HandedOut
  <2>13. TypeOK'
    BY <1>a, <1>25, <2>3, <2>10 DEF RecvConfigDirect, TypeOK
  <2>14. Holdings'
    BY <1>a, <1>25, <2>10 DEF RecvConfigDirect, Holdings
  <2>15. Budget'
    BY <1>25, <2>11 DEF RecvConfigDirect, Budget
  <2>16. HeardSoFar'
    BY <1>25, <2>8 DEF RecvConfigDirect, HeardSoFar
  <2>17. DirectBacked'
    BY <1>25, <2>11, <2>12 DEF RecvConfigDirect, DirectBacked
  <2> QED BY <2>7, <2>13, <2>14, <2>15, <2>16, <2>17 DEF IInv
<1>26. ASSUME NEW m \in Msgs, RecvConfigNoDirect(m) PROVE IInv'
  <2>1. fd = Len(tries) /\ fd \in 1 .. Len(tries) /\ fd \in Conns
    BY <1>a, <1>26, FdLemma DEF RecvConfigNoDirect
  <2>2. Len(heard[fd]) = 2 /\ Receive(m)
    BY <1>a, <1>26, HeardLemma DEF RecvConfigNoDirect
  <2>3. /\ heard' \in [Conns -> Seq(Msgs)]
        /\ \A c \in Conns \ {fd} : heard'[c] = heard[c]
    BY <1>a, <2>1, <2>2, ReceiveLemma
  <2>4. tries' = tries /\ cfgNet' = cfgNet /\ written' = written
    BY <1>26 DEF RecvConfigNoDirect
  <2>5. Len(heard[fd]) # 3 /\ \E k \in Msgs : Receive(k)
    BY <2>2
  <2>6. FramesBacked'
    BY <1>a, <2>1, <2>4, <2>5, FramesKept
  <2>7. \A c \in Conns : c > Len(tries') => heard'[c] = <<>>
    BY <1>a, <2>1, <2>3, <2>4 DEF HeardSoFar
  <2>8. ValidConfig(m) /\ netId' = netId /\ tries' = tries
    BY <1>26 DEF RecvConfigNoDirect
  <2>9. /\ sockets' = {} /\ fd' = 0 /\ wsa' = 0
    BY <1>a, <1>26 DEF RecvConfigNoDirect, Holdings, SocketClose, NetCleanup
  <2>10. Len(tries) > 0 /\ tries[Len(tries)] = "relay" /\ allow /\ Len(tries) <= 2
    BY <1>a, <1>26 DEF RecvConfigNoDirect, UseDirect, Budget
  <2>11. pc' = "R_INIT" /\ allow' = FALSE /\ rc' = rc
    BY <1>26 DEF RecvConfigNoDirect, TapRunMode
  <2>12. TypeOK'
    BY <1>a, <1>26, <2>3, <2>9, <2>11 DEF RecvConfigNoDirect, TypeOK
  <2>13. Holdings'
    BY <1>a, <1>26, <2>9, <2>11 DEF RecvConfigNoDirect, Holdings
  <2>14. Budget'
    BY <2>8, <2>10, <2>11 DEF Budget
  <2>15. HeardSoFar'
    BY <2>7, <2>11 DEF HeardSoFar
  <2>16. DirectBacked'
    BY <2>11 DEF DirectBacked
  <2> QED BY <2>6, <2>12, <2>13, <2>14, <2>15, <2>16 DEF IInv
<1>27. CASE RelayTapOpen
  <2>1. TypeOK'
    BY <1>a, <1>27 DEF RelayTapOpen, TypeOK, locals, history
  <2>2. Holdings'
    BY <1>a, <1>27 DEF RelayTapOpen, Holdings, history
  <2>3. Budget'
    BY <1>a, <1>27 DEF RelayTapOpen, Budget, locals, history
  <2>4. HeardSoFar'
    BY <1>a, <1>27 DEF RelayTapOpen, HeardSoFar, Granted, HandedOut, locals, history
  <2>5. DirectBacked'
    BY <1>27 DEF RelayTapOpen, DirectBacked
  <2>6. FramesBacked'
    BY <1>a, <1>27, FramesKept DEF RelayTapOpen, locals, history
  <2> QED BY <2>1, <2>2, <2>3, <2>4, <2>5, <2>6 DEF IInv
<1>28. CASE SendPing
  <2>1. fd = Len(tries) /\ fd \in 1 .. Len(tries) /\ fd \in Conns
    BY <1>a, <1>28, FdLemma DEF SendPing
  <2>2. Send("PING")
    BY <1>28 DEF SendPing
  <2>3. sent' \in [Conns -> Seq(Sendable)]
    BY <1>a, <2>1, <2>2, SendLemma DEF Sendable
  <2>4. TypeOK'
    BY <1>a, <1>28, <2>1, <2>3 DEF SendPing, TypeOK, locals
  <2>5. Holdings'
    BY <1>a, <1>28 DEF SendPing, Holdings
  <2>6. Budget'
    BY <1>a, <1>28 DEF SendPing, Budget, locals
  <2>7. HeardSoFar'
    BY <1>a, <1>28 DEF SendPing, HeardSoFar, Granted, locals
  <2>8. DirectBacked'
    BY <1>28 DEF SendPing, DirectBacked
  <2>9. FramesBacked'
    BY <1>a, <1>28, FramesKept DEF SendPing, locals
  <2> QED BY <2>4, <2>5, <2>6, <2>7, <2>8, <2>9 DEF IInv
<1>29. CASE RelayLoopSend
  <2>1. fd = Len(tries) /\ fd \in 1 .. Len(tries) /\ fd \in Conns
    BY <1>a, <1>29, FdLemma DEF RelayLoopSend
  <2>2. Send("TAP_FRAME")
    BY <1>29 DEF RelayLoopSend
  <2>3. sent' \in [Conns -> Seq(Sendable)]
    BY <1>a, <2>1, <2>2, SendLemma DEF Sendable
  <2>4. TypeOK'
    BY <1>a, <1>29, <2>1, <2>3 DEF RelayLoopSend, TypeOK, locals
  <2>5. Holdings'
    BY <1>a, <1>29 DEF RelayLoopSend, Holdings
  <2>6. Budget'
    BY <1>a, <1>29 DEF RelayLoopSend, Budget, locals
  <2>7. HeardSoFar'
    BY <1>a, <1>29 DEF RelayLoopSend, HeardSoFar, Granted, locals
  <2>8. DirectBacked'
    BY <1>29 DEF RelayLoopSend, DirectBacked
  <2>9. FramesBacked'
    BY <1>a, <1>29, FramesKept DEF RelayLoopSend, locals
  <2> QED BY <2>4, <2>5, <2>6, <2>7, <2>8, <2>9 DEF IInv
<1>30. CASE RelayLoopFails
  <2>1. pc \in RelayPcs \ {"R_INIT"}
    BY <1>30 DEF RelayLoopFails
  <2>2. RelayDone(-1)
    BY <1>30 DEF RelayLoopFails
  <2>3. /\ sockets' = {} /\ fd' = 0 /\ wsa' = 0 /\ tap' = "closed"
        /\ pc' = "EXIT" /\ rc' = -1
    BY <2>1, <2>2, RelayDoneLemma DEF IInv
  <2>4. TypeOK'
    BY <1>a, <1>30, <2>3 DEF RelayLoopFails, TypeOK, locals
  <2>5. Holdings'
    BY <2>3 DEF Holdings
  <2>6. Budget'
    BY <2>3 DEF Budget
  <2>7. HeardSoFar'
    BY <1>a, <1>30, <2>3 DEF RelayLoopFails, HeardSoFar
  <2>8. DirectBacked'
    BY <2>3 DEF DirectBacked
  <2>9. FramesBacked'
    BY <1>a, <1>30, FramesKept DEF RelayLoopFails, locals
  <2> QED BY <2>4, <2>5, <2>6, <2>7, <2>8, <2>9 DEF IInv
<1>31. ASSUME NEW m \in Msgs, RelayLoopRecv(m) PROVE IInv'
  <2>1. fd = Len(tries) /\ fd \in 1 .. Len(tries) /\ fd \in Conns
    BY <1>a, <1>31, FdLemma DEF RelayLoopRecv
  <2>2. MayCarry(fd, netId) /\ netId \in NetIds
    BY <1>a, <1>31 DEF RelayLoopRecv, MayCarry, TypeOK, Holdings, Budget, HeardSoFar
  <2>3. written' = written \union {[conn |-> fd, net |-> netId]}
    BY <1>31 DEF RelayLoopRecv
  <2>4. /\ heard' = heard /\ tries' = tries /\ cfgNet' = cfgNet
    BY <1>31 DEF RelayLoopRecv, locals
  <2>5. [conn |-> fd, net |-> netId] \in [conn : Conns, net : NetIds]
    BY <2>1, <2>2
  <2>6. \A c \in Conns, k \in NetIds : MayCarry(c, k)' <=> MayCarry(c, k)
    BY <2>4, <2>5 DEF MayCarry, Granted, HandedOut
  <2>7. TypeOK'
    BY <1>a, <1>31, <2>3, <2>5 DEF RelayLoopRecv, TypeOK, locals
  <2>8. Holdings'
    BY <1>a, <1>31 DEF RelayLoopRecv, Holdings
  <2>9. Budget'
    BY <1>a, <1>31 DEF RelayLoopRecv, Budget, locals
  <2>10. HeardSoFar'
    BY <1>a, <1>31 DEF RelayLoopRecv, HeardSoFar, Granted, locals
  <2>11. DirectBacked'
    BY <1>31 DEF RelayLoopRecv, DirectBacked
  <2>12. FramesBacked'
    BY <1>a, <2>1, <2>2, <2>3, <2>4, <2>5, <2>6 DEF FramesBacked, TypeOK
  <2> QED BY <2>7, <2>8, <2>9, <2>10, <2>11, <2>12 DEF IInv
<1>32. ASSUME NEW m \in Msgs, RelayLoopReject(m) PROVE IInv'
  <2>1. pc \in RelayPcs \ {"R_INIT"}
    BY <1>32 DEF RelayLoopReject
  <2>2. RelayDone(-1)
    BY <1>32 DEF RelayLoopReject
  <2>3. /\ sockets' = {} /\ fd' = 0 /\ wsa' = 0 /\ tap' = "closed"
        /\ pc' = "EXIT" /\ rc' = -1
    BY <2>1, <2>2, RelayDoneLemma DEF IInv
  <2>4. TypeOK'
    BY <1>a, <1>32, <2>3 DEF RelayLoopReject, TypeOK, locals
  <2>5. Holdings'
    BY <2>3 DEF Holdings
  <2>6. Budget'
    BY <2>3 DEF Budget
  <2>7. HeardSoFar'
    BY <1>a, <1>32, <2>3 DEF RelayLoopReject, HeardSoFar
  <2>8. DirectBacked'
    BY <2>3 DEF DirectBacked
  <2>9. FramesBacked'
    BY <1>a, <1>32, FramesKept DEF RelayLoopReject, locals
  <2> QED BY <2>4, <2>5, <2>6, <2>7, <2>8, <2>9 DEF IInv
<1>33. CASE UNCHANGED vars
  BY <1>a, <1>33 DEF IInv, vars, TypeOK, Holdings, Budget, HeardSoFar, DirectBacked,
        FramesBacked, Granted, HandedOut, MayCarry, IsServerHello
<1> QED BY <1>1, <1>2, <1>3, <1>4, <1>5, <1>6, <1>7, <1>8, <1>9, <1>10, <1>11, <1>12,
      <1>13, <1>14, <1>15, <1>16, <1>17, <1>18, <1>19, <1>20, <1>21, <1>22, <1>23,
      <1>24, <1>25, <1>26, <1>27, <1>28, <1>29, <1>30, <1>31, <1>32, <1>33 DEF Next,
      Direct, Handshake, Relay

(* IInv holds when main reaches the options of `run`. *)
LEMMA Start == Init => IInv
<1> SUFFICES ASSUME Init PROVE IInv
  OBVIOUS
<1> USE DEF Init
<1>1. TypeOK
  BY DEF TypeOK, Pcs, NetIds, MaxTries
<1>2. Holdings /\ Budget
  BY DEF Holdings, Budget, Idle, DirectPcs, RelayPcs, LoopPcs
<1>3. HeardSoFar /\ DirectBacked /\ FramesBacked
  BY DEF HeardSoFar, DirectBacked, DirectPcs, FramesBacked
<1> QED BY <1>1, <1>2, <1>3 DEF IInv

(* Wherever the thread is, it holds, has tried and has heard exactly what   *)
(* IInv says of that place.                                                 *)
THEOREM Inductive == Spec => []IInv
  <1>1. Init => IInv
    BY Start
  <1>2. IInv /\ [Next]_vars => IInv'
    BY Step
  <1> QED BY <1>1, <1>2, PTL DEF Spec

(* Every variable of the client keeps its type, and no run tries more than  *)
(* MaxTries paths: the recursion of tap_run_mode is bounded.                *)
THEOREM TypeCorrect == Spec => []TypeOK
  <1>1. IInv => TypeOK
    BY DEF IInv
  <1> QED BY <1>1, Inductive, PTL

(* No socket, TAP device or use of the network library outlives the path it *)
(* was opened for, and none outlives the run.                               *)
THEOREM ResourcesReleased == Spec => []ResourcesOwned
  <1>1. IInv => ResourcesOwned
    <2> SUFFICES ASSUME IInv PROVE ResourcesOwned
      OBVIOUS
    <2>1. TypeOK /\ Holdings
      BY DEF IInv
    <2>2. pc \in LoopPcs => fd \in Conns
      BY FdLemma DEF IInv, LoopPcs, Pcs, Idle, DirectPcs, RelayPcs
    <2>3. LoopPcs \cap Idle = {} /\ 0 \notin Conns
      BY DEF LoopPcs, Idle, Conns
    <2> QED BY <2>1, <2>2, <2>3 DEF Holdings, ResourcesOwned, Idle
  <1> QED BY <1>1, Inductive, PTL

(* A frame written to the TAP belongs to the network that its own           *)
(* connection's handshake, or the one that named the direct path, granted.  *)
THEOREM OnlyGrantedFrames == Spec => []FramesAuthorised
  <1>1. IInv => FramesAuthorised
    BY DEF IInv, FramesBacked, FramesAuthorised
  <1> QED BY <1>1, Inductive, PTL

-----------------------------------------------------------------------------
(***************************************************************************)
(* In which order TapClient tries its paths and sends its messages, and    *)
(* what its exit code says of them.                                        *)
(***************************************************************************)
IsDirect(i) == tries[i] = "direct"
IsRelay(i)  == tries[i] = "relay"

(* The only relay tried so far, if any, named a direct path. *)
RelayHandedOut ==
    \A i \in 1 .. Len(tries) : IsRelay(i) =>
        /\ \A j \in 1 .. Len(tries) : IsRelay(j) => i = j
        /\ \E n \in Networks : HandedOut(i, n)

(* Which paths were tried when the thread is at pc, and what the options    *)
(* must have said.                                                          *)
PathsSoFar ==
    /\ pc = "START" => site = "cli"
    /\ pc \in DirectPcs /\ site = "cli" => mode # "plain"
    /\ pc \in RelayPcs \/ (pc \in DirectPcs /\ site = "cfg") => mode # "direct_only"
    /\ (pc \in DirectPcs /\ site = "cli") \/ (pc = "R_INIT" /\ allow) =>
         \A i \in 1 .. Len(tries) : IsDirect(i)
    /\ (pc \in DirectPcs /\ site = "cfg") \/ (pc = "R_INIT" /\ ~allow) => RelayHandedOut
    /\ pc \in RelayPcs \ {"R_INIT"} /\ allow =>
         \A i \in 1 .. Len(tries) : IsRelay(i) => i = Len(tries)

(* How many messages the connection in use has sent when the thread is at pc. *)
SentSoFar ==
    /\ \A c \in Conns : c > Len(tries) => sent[c] = <<>>
    /\ pc \in {"D_TOKEN", "R_HELLO"} => Len(sent[fd]) = 0
    /\ pc \in {"R_HELLO_WAIT", "R_AUTH"} => Len(sent[fd]) = 1
    /\ pc \in {"R_AUTH_WAIT", "R_CONFIG_WAIT", "R_OPEN", "R_PING"} => Len(sent[fd]) = 2
    /\ pc \in {"D_OPEN", "D_LOOP"} => Len(sent[fd]) > 0
    /\ pc = "R_LOOP" => Len(sent[fd]) > 2

-----------------------------------------------------------------------------
(* What every step leaves alone. *)

(* A step receives at most one more answer of an unfinished handshake. *)
LEMMA Hearing ==
    ASSUME IInv, [Next]_vars
    PROVE  \/ heard' = heard
           \/ fd \in Conns /\ Len(heard[fd]) # 3 /\ \E m \in Msgs : Receive(m)
<1>1. ASSUME NEW m \in Msgs, Receive(m), pc \in {"R_HELLO_WAIT", "R_AUTH_WAIT", "R_CONFIG_WAIT"}
      PROVE  fd \in Conns /\ Len(heard[fd]) # 3
  <2>1. pc \in Pcs \ (Idle \union {"D_CONNECT"})
    BY <1>1 DEF Pcs, RelayPcs, Idle
  <2>2. fd \in Conns
    BY <2>1, FdLemma DEF IInv
  <2>3. Len(heard[fd]) \in {0, 1, 2}
    BY <1>1, HeardLemma DEF IInv
  <2> QED BY <2>2, <2>3
<1>2. CASE \E m \in Msgs :
             \/ RecvHello(m) \/ RecvHelloInvalid(m) \/ RecvAuthOk(m) \/ RecvAuthOther(m)
             \/ RecvConfigInvalid(m) \/ RecvConfigRelay(m)
             \/ RecvConfigDirect(m) \/ RecvConfigNoDirect(m)
  <2>1. PICK m \in Msgs :
             \/ RecvHello(m) \/ RecvHelloInvalid(m) \/ RecvAuthOk(m) \/ RecvAuthOther(m)
             \/ RecvConfigInvalid(m) \/ RecvConfigRelay(m)
             \/ RecvConfigDirect(m) \/ RecvConfigNoDirect(m)
    BY <1>2
  <2>2. Receive(m) /\ pc \in {"R_HELLO_WAIT", "R_AUTH_WAIT", "R_CONFIG_WAIT"}
    BY <2>1 DEF RecvHello, RecvHelloInvalid, RecvAuthOk, RecvAuthOther,
         RecvConfigInvalid, RecvConfigRelay, RecvConfigDirect, RecvConfigNoDirect
  <2> QED BY <1>1, <2>2
<1>3. CASE ~\E m \in Msgs :
             \/ RecvHello(m) \/ RecvHelloInvalid(m) \/ RecvAuthOk(m) \/ RecvAuthOther(m)
             \/ RecvConfigInvalid(m) \/ RecvConfigRelay(m)
             \/ RecvConfigDirect(m) \/ RecvConfigNoDirect(m)
  BY <1>3 DEF Next, Direct, Handshake, Relay, vars, history,
       StartDirect, StartDirectFails, DirectConnect, DirectConnectFails, SendToken,
       SendTokenFails, DirectTapOpen, DirectLoopFails, DirectLoopSend, DirectLoopRecv,
       DirectLoopReject, StartRelay, RelayConnect, RelayConnectFails, RelayInitFails,
       SendHello, SendAuth, HandshakeSendFails, RelayTapOpen, SendPing, RelayLoopSend,
       RelayLoopFails, RelayLoopRecv, RelayLoopReject
<1> QED BY <1>2, <1>3

(* What a connection was granted, and who answered on it, stays. *)
LEMMA Kept ==
    ASSUME IInv, [Next]_vars, NEW c \in Conns
    PROVE  /\ \A n : Granted(c, n) => Granted(c, n)'
           /\ \A n : HandedOut(c, n) => HandedOut(c, n)'
           /\ Len(heard[c]) > 0 /\ IsServerHello(heard[c][1])
                => Len(heard'[c]) > 0 /\ IsServerHello(heard'[c][1])
<1>1. TypeOK
  BY DEF IInv
<1>2. \A n : (Granted(c, n) => Granted(c, n)') /\ (HandedOut(c, n) => HandedOut(c, n)')
  BY <1>1, Hearing, GrantedKept
<1>3. Len(heard[c]) > 0 => Len(heard'[c]) > 0 /\ heard'[c][1] = heard[c][1]
  <2>1. CASE heard' = heard
    BY <2>1
  <2>2. ASSUME fd \in Conns, NEW m \in Msgs, Receive(m)
        PROVE  Len(heard[c]) > 0 => Len(heard'[c]) > 0 /\ heard'[c][1] = heard[c][1]
    <3>1. Len(heard[c]) \in Nat
      BY <1>1 DEF TypeOK
    <3>2. CASE c = fd
      BY <1>1, <2>2, <3>1, <3>2, ReceiveLemma
    <3>3. CASE c # fd
      BY <1>1, <2>2, <3>3, ReceiveLemma
    <3> QED BY <3>2, <3>3
  <2> QED BY <2>1, <2>2, Hearing
<1> QED BY <1>2, <1>3

(* The options never change; a try is one of the connect calls. *)
LEMMA Trying ==
    ASSUME IInv, [Next]_vars
    PROVE  /\ mode' = mode /\ cfgNet' = cfgNet
           /\ \/ tries' = tries
              \/ pc = "D_CONNECT" /\ tries' = Append(tries, "direct")
              \/ pc = "R_INIT" /\ tries' = Append(tries, "relay")
  BY DEF Next, Direct, Handshake, Relay, vars, locals, history, Connected,
       StartDirect, StartDirectFails, DirectConnect, DirectConnectFails, SendToken,
       SendTokenFails, DirectTapOpen, DirectLoopFails, DirectLoopSend, DirectLoopRecv,
       DirectLoopReject, StartRelay, RelayConnect, RelayConnectFails, RelayInitFails,
       SendHello, SendAuth, HandshakeSendFails, RelayTapOpen, SendPing, RelayLoopSend,
       RelayLoopFails, RelayLoopRecv, RelayLoopReject, RecvHello, RecvHelloInvalid,
       RecvAuthOk, RecvAuthOther, RecvConfigInvalid, RecvConfigRelay,
       RecvConfigDirect, RecvConfigNoDirect

-----------------------------------------------------------------------------
(* The order of the paths. *)

(* Where a step may take the thread, as far as paths and options matter. *)
Stays ==
    /\ tries' = tries /\ allow' = allow /\ site' = site
    /\ \/ {pc, pc'} \subseteq RelayPcs \ {"R_INIT"}
       \/ {pc, pc'} \subseteq DirectPcs \ {"D_CONNECT"}
Begins ==
    /\ pc = "START" /\ tries' = tries
    /\ \/ pc' = "R_INIT" /\ allow' /\ mode # "direct_only"
       \/ pc' = "D_CONNECT" /\ site' = "cli" /\ mode # "plain"
Connects ==
    \/ pc = "D_CONNECT" /\ pc' = "D_TOKEN" /\ site' = site /\ tries' = Append(tries, "direct")
    \/ pc = "R_INIT" /\ pc' = "R_HELLO" /\ allow' = allow /\ tries' = Append(tries, "relay")
FallsBack ==
    /\ pc \in DirectPcs /\ pc' = "R_INIT"
    /\ allow' = (site = "cli") /\ (site = "cli" => mode # "direct_only")
    /\ tries' = IF pc = "D_CONNECT" THEN Append(tries, "direct") ELSE tries
GoesDirect ==
    /\ pc = "R_CONFIG_WAIT" /\ allow /\ tries' = tries
    /\ HandedOut(Len(tries), netId)' /\ netId' \in Networks
    /\ \/ pc' = "D_CONNECT" /\ site' = "cfg"
       \/ pc' = "R_INIT" /\ allow' = FALSE

(* The way back from a direct try, whichever call of it failed. *)
LEMMA BackFromDirect ==
    ASSUME IInv, pc \in DirectPcs, NEW code \in {1, -1}, DirectDone(code),
           tries' = IF pc = "D_CONNECT" THEN Append(tries, "direct") ELSE tries
    PROVE  FallsBack \/ pc' = "EXIT"
  BY DEF DirectDone, AfterDirect, EndsRun, TapRunMode, Exit, FallsBack, IInv, TypeOK

LEMMA Moves ==
    ASSUME IInv, PathsSoFar, Next
    PROVE  Stays \/ Begins \/ Connects \/ FallsBack \/ GoesDirect \/ pc' = "EXIT"
<1> USE DEF RelayPcs, DirectPcs
<1>1. CASE StartRelay \/ StartDirect \/ StartDirectFails
  BY <1>1 DEF StartRelay, StartDirect, StartDirectFails, AfterDirect, EndsRun,
       TapRunMode, Exit, Begins, PathsSoFar, history
<1>2. CASE DirectConnect \/ RelayConnect
  BY <1>2 DEF DirectConnect, RelayConnect, Connected, Connects, locals
<1>3. CASE DirectConnectFails
  BY <1>3, BackFromDirect DEF DirectConnectFails
<1>4. CASE SendTokenFails \/ DirectLoopFails \/ \E m \in Msgs : DirectLoopReject(m)
  <2>1. pc \in DirectPcs \ {"D_CONNECT"} /\ tries' = tries
    BY <1>4 DEF SendTokenFails, DirectLoopFails, DirectLoopReject
  <2>2. \E code \in {1, -1} : DirectDone(code)
    BY <1>4 DEF SendTokenFails, DirectLoopFails, DirectLoopReject
  <2> QED BY <2>1, <2>2, BackFromDirect
<1>5. CASE SendToken \/ DirectTapOpen \/ DirectLoopSend \/ \E m \in Msgs : DirectLoopRecv(m)
  BY <1>5 DEF SendToken, DirectTapOpen, DirectLoopSend, DirectLoopRecv, Stays,
       locals, history
<1>6. CASE \/ RelayConnectFails \/ RelayInitFails \/ HandshakeSendFails \/ RelayLoopFails
           \/ \E m \in Msgs : \/ RecvHelloInvalid(m) \/ RecvAuthOther(m)
                              \/ RecvConfigInvalid(m) \/ RelayLoopReject(m)
  BY <1>6 DEF RelayConnectFails, RelayInitFails, HandshakeSendFails, RelayLoopFails,
       RecvHelloInvalid, RecvAuthOther, RecvConfigInvalid, RelayLoopReject, RelayDone,
       Exit
<1>7. CASE \/ SendHello \/ SendAuth \/ RelayTapOpen \/ SendPing \/ RelayLoopSend
           \/ \E m \in Msgs : \/ RecvHello(m) \/ RecvAuthOk(m) \/ RecvConfigRelay(m)
                              \/ RelayLoopRecv(m)
  BY <1>7 DEF SendHello, SendAuth, RelayTapOpen, SendPing, RelayLoopSend, RecvHello,
       RecvAuthOk, RecvConfigRelay, RelayLoopRecv, Stays, locals, history
<1>8. CASE \E m \in Msgs : RecvConfigDirect(m) \/ RecvConfigNoDirect(m)
  <2>1. PICK m \in Msgs : RecvConfigDirect(m) \/ RecvConfigNoDirect(m)
    BY <1>8
  <2>2. /\ pc = "R_CONFIG_WAIT" /\ ValidConfig(m) /\ UseDirect(m) /\ Receive(m)
        /\ tries' = tries /\ netId' = netId
        /\ \/ pc' = "D_CONNECT" /\ site' = "cfg"
           \/ pc' = "R_INIT" /\ allow' = FALSE
    BY <2>1 DEF RecvConfigDirect, RecvConfigNoDirect, TapRunMode
  <2>3. fd = Len(tries) /\ fd \in Conns
    BY <2>2, FdLemma DEF IInv, Pcs, Idle
  <2>4. /\ Len(heard[fd]) = 2 /\ IsServerHello(heard[fd][1])
        /\ heard[fd][2].type = "AUTH_OK" /\ heard[fd][2].net = netId
    BY <2>2 DEF IInv, HeardSoFar
  <2>5. /\ Len(heard'[fd]) = 3 /\ heard'[fd][1] = heard[fd][1]
        /\ heard'[fd][2] = heard[fd][2] /\ heard'[fd][3] = m
    BY <2>2, <2>3, <2>4, AnswersLemma DEF IInv
  <2>6. netId \in Networks
    BY <2>2 DEF IInv, TypeOK, NetIds, ValidConfig
  <2>7. HandedOut(Len(tries), netId)'
    BY <2>2, <2>3, <2>4, <2>5 DEF HandedOut, Granted, IsServerHello, ValidConfig, UseDirect
  <2> QED BY <2>2, <2>6, <2>7 DEF GoesDirect, UseDirect
<1> QED BY <1>1, <1>2, <1>3, <1>4, <1>5, <1>6, <1>7, <1>8 DEF Next, Direct, Handshake, Relay

(* A relay try that named a direct path stays the only one. *)
LEMMA HandedOutKept ==
    ASSUME IInv, [Next]_vars, RelayHandedOut,
           tries' = tries \/ tries' = Append(tries, "direct")
    PROVE  RelayHandedOut'
<1>a. tries \in Seq(Paths) /\ Len(tries) <= 4
  BY DEF IInv, TypeOK, MaxTries
<1>1. \A i \in 1 .. Len(tries') : IsRelay(i)' => i \in 1 .. Len(tries) /\ IsRelay(i)
  <2>1. CASE tries' = tries
    BY <2>1 DEF IsRelay
  <2>2. CASE tries' = Append(tries, "direct")
    BY <1>a, <2>2 DEF IsRelay
  <2> QED BY <2>1, <2>2
<1>2. \A i \in 1 .. Len(tries) : i \in Conns
  BY <1>a DEF Conns, MaxTries
<1>3. \A i \in 1 .. Len(tries) : \A n : HandedOut(i, n) => HandedOut(i, n)'
  BY <1>2, Kept
<1> QED BY <1>1, <1>3 DEF RelayHandedOut

LEMMA PathsStep ==
    ASSUME IInv, PathsSoFar, [Next]_vars
    PROVE  PathsSoFar'
<1>1. CASE UNCHANGED vars
  BY <1>1 DEF PathsSoFar, RelayHandedOut, IsRelay, IsDirect, HandedOut, Granted, vars
<1>2. CASE pc' = "EXIT"
  BY <1>2 DEF PathsSoFar, DirectPcs, RelayPcs
<1>3. mode' = mode /\ tries \in Seq(Paths)
  BY Trying DEF IInv, TypeOK
<1>4. CASE Stays
  <2>1. UNCHANGED <<mode, tries, allow, site>>
    BY <1>3, <1>4 DEF Stays
  <2>2. CASE {pc, pc'} \subseteq RelayPcs \ {"R_INIT"}
    BY <2>1, <2>2 DEF PathsSoFar, RelayPcs, DirectPcs, IsRelay
  <2>3. CASE {pc, pc'} \subseteq DirectPcs \ {"D_CONNECT"}
    <3>1. site = "cfg" => RelayHandedOut'
      BY <2>1, <2>3, HandedOutKept DEF PathsSoFar
    <3> QED BY <2>1, <2>3, <3>1 DEF PathsSoFar, RelayPcs, DirectPcs, IsDirect
  <2> QED BY <1>4, <2>2, <2>3 DEF Stays
<1>5. CASE Begins
  <2>1. Len(tries') = 0
    BY <1>5 DEF Begins, IInv, Budget
  <2> QED BY <1>3, <1>5, <2>1 DEF Begins, PathsSoFar, RelayPcs, DirectPcs
<1>6. CASE Connects
  <2>1. CASE pc = "D_CONNECT"
    <3>1. pc' = "D_TOKEN" /\ site' = site /\ tries' = Append(tries, "direct")
      BY <1>6, <2>1 DEF Connects
    <3>2. site = "cfg" => RelayHandedOut'
      BY <2>1, <3>1, HandedOutKept DEF PathsSoFar, DirectPcs
    <3>3. site = "cli" => \A i \in 1 .. Len(tries') : IsDirect(i)'
      BY <1>3, <2>1, <3>1 DEF PathsSoFar, DirectPcs, IsDirect
    <3> QED BY <1>3, <2>1, <3>1, <3>2, <3>3 DEF PathsSoFar, RelayPcs, DirectPcs
  <2>2. CASE pc = "R_INIT"
    <3>1. pc' = "R_HELLO" /\ allow' = allow /\ tries' = Append(tries, "relay")
      BY <1>6, <2>2 DEF Connects
    <3>2. allow => \A i \in 1 .. Len(tries') : IsRelay(i)' => i = Len(tries')
      BY <1>3, <2>2, <3>1 DEF PathsSoFar, IsDirect, IsRelay
    <3> QED BY <1>3, <2>2, <3>1, <3>2 DEF PathsSoFar, RelayPcs, DirectPcs
  <2> QED BY <1>6, <2>1, <2>2 DEF Connects
<1>7. CASE FallsBack
  <2>1. tries' = tries \/ tries' = Append(tries, "direct")
    BY <1>7 DEF FallsBack
  <2>2. site = "cfg" => RelayHandedOut' /\ mode # "direct_only"
    BY <1>7, <2>1, HandedOutKept DEF FallsBack, PathsSoFar
  <2>3. site = "cli" => \A i \in 1 .. Len(tries') : IsDirect(i)'
    BY <1>3, <1>7, <2>1 DEF FallsBack, PathsSoFar, IsDirect
  <2>4. site \in {"cli", "cfg"}
    BY DEF IInv, TypeOK
  <2> QED BY <1>3, <1>7, <2>2, <2>3, <2>4 DEF FallsBack, PathsSoFar, RelayPcs, DirectPcs
<1>8. CASE GoesDirect
  <2>1. /\ tries' = tries /\ HandedOut(Len(tries), netId)' /\ netId' \in Networks
        /\ pc = "R_CONFIG_WAIT" /\ allow
    BY <1>8 DEF GoesDirect
  <2>2. \A i \in 1 .. Len(tries) : IsRelay(i) => i = Len(tries)
    BY <2>1 DEF PathsSoFar, RelayPcs
  <2>3. RelayHandedOut'
    BY <2>1, <2>2 DEF RelayHandedOut, IsRelay
  <2>4. mode # "direct_only"
    BY <2>1 DEF PathsSoFar, RelayPcs
  <2> QED BY <1>3, <1>8, <2>3, <2>4 DEF GoesDirect, PathsSoFar, RelayPcs, DirectPcs
<1> QED BY <1>1, <1>2, <1>4, <1>5, <1>6, <1>7, <1>8, Moves

LEMMA PathsStart == Init => PathsSoFar
  BY DEF Init, PathsSoFar, DirectPcs, RelayPcs

(* PathOrder, try by try: a direct one needs a reason, and so does a relay   *)
(* that is not the first.                                                    *)
LEMMA PathOrderStep ==
    ASSUME IInv, PathsSoFar, PathOrder, [Next]_vars
    PROVE  PathOrder'
<1>1. tries \in Seq(Paths) /\ Len(tries) <= 4 /\ mode' = mode
  BY Trying DEF IInv, TypeOK, MaxTries
<1>2. \A i \in 1 .. Len(tries) : \A n : HandedOut(i, n) => HandedOut(i, n)'
  <2>1. \A i \in 1 .. Len(tries) : i \in Conns
    BY <1>1 DEF Conns, MaxTries
  <2> QED BY <2>1, Kept
<1>3. \A i \in 1 .. Len(tries) : tries[i] = "direct" =>
        \/ i = 1 /\ mode # "plain"
        \/ i > 1 /\ tries[i - 1] = "relay" /\ \E n \in Networks : HandedOut(i - 1, n)'
  BY <1>1, <1>2 DEF PathOrder
<1>4. \A i \in 1 .. Len(tries) : tries[i] = "relay" =>
        /\ mode # "direct_only"
        /\ \A j \in 1 .. (i - 1) : tries[j] = "relay" =>
             i = Len(tries) /\ \E n \in Networks : HandedOut(j, n)'
  BY <1>1, <1>2 DEF PathOrder
<1>5. CASE tries' = tries
  BY <1>1, <1>3, <1>4, <1>5 DEF PathOrder
<1>6. CASE pc = "D_CONNECT" /\ tries' = Append(tries, "direct")
  <2>1. /\ Len(tries') = Len(tries) + 1 /\ tries'[Len(tries) + 1] = "direct"
        /\ \A i \in 1 .. Len(tries) : tries'[i] = tries[i]
    BY <1>1, <1>6
  <2>2. \A i \in 1 .. Len(tries) : tries[i] = "relay" =>
          \A j \in 1 .. (i - 1) : tries[j] # "relay"
    BY <1>1, <1>6 DEF PathsSoFar, RelayHandedOut, IsRelay, IsDirect, DirectPcs, IInv, TypeOK
  <2>a. PICK last \in Nat : last = Len(tries)
    BY <1>1
  <2>3. \/ last = 0 /\ mode # "plain"
        \/ /\ last > 0 /\ tries[last] = "relay"
           /\ \E n \in Networks : HandedOut(last, n)'
    <3>1. CASE site = "cli"
      BY <2>a, <1>6, <3>1 DEF PathsSoFar, DirectPcs, IInv, Budget
    <3>2. CASE site = "cfg"
      <4>1. last > 0 /\ tries[last] = "relay" /\ HandedOut(last, netId)
        BY <2>a, <1>6, <3>2 DEF IInv, DirectBacked
      <4>2. netId \in Networks
        BY <4>1 DEF HandedOut, Granted, IInv, TypeOK, NetIds
      <4>3. last \in 1 .. Len(tries)
        BY <2>a, <4>1
      <4> QED BY <1>2, <4>1, <4>2, <4>3
    <3> QED BY <3>1, <3>2 DEF IInv, TypeOK
  <2>4. \A i \in 1 .. Len(tries') : tries'[i] = "direct" =>
          \/ i = 1 /\ mode # "plain"
          \/ i > 1 /\ tries'[i - 1] = "relay" /\ \E n \in Networks : HandedOut(i - 1, n)'
    <3> SUFFICES ASSUME NEW i \in 1 .. Len(tries'), tries'[i] = "direct"
                 PROVE  \/ i = 1 /\ mode # "plain"
                        \/ /\ i > 1 /\ tries'[i - 1] = "relay"
                           /\ \E n \in Networks : HandedOut(i - 1, n)'
      OBVIOUS
    <3>1. CASE i \in 1 .. Len(tries)
      BY <1>1, <1>3, <2>1, <3>1
    <3>2. CASE i = last + 1
      <4>1. i - 1 = last /\ (last > 0 => last \in 1 .. Len(tries))
        BY <2>a, <3>2
      <4> QED BY <2>1, <2>3, <3>2, <4>1
    <3> QED BY <1>1, <2>1, <2>a, <3>1, <3>2
  <2>5. \A i \in 1 .. Len(tries') : tries'[i] = "relay" =>
          mode # "direct_only" /\ \A j \in 1 .. (i - 1) : tries'[j] # "relay"
    BY <1>1, <1>4, <2>1, <2>2
  <2> QED BY <1>1, <2>4, <2>5 DEF PathOrder
<1>7. CASE pc = "R_INIT" /\ tries' = Append(tries, "relay")
  <2>1. /\ Len(tries') = Len(tries) + 1 /\ tries'[Len(tries) + 1] = "relay"
        /\ \A i \in 1 .. Len(tries) : tries'[i] = tries[i]
    BY <1>1, <1>7
  <2>2. mode # "direct_only" /\ (allow \/ RelayHandedOut)
    BY <1>7 DEF PathsSoFar, RelayPcs
  <2>3. \A j \in 1 .. Len(tries) : tries[j] = "relay" =>
          /\ \A i \in 1 .. Len(tries) : tries[i] = "relay" => i = j
          /\ \E n \in Networks : HandedOut(j, n)'
    BY <1>2, <1>7 DEF PathsSoFar, RelayHandedOut, IsRelay, IsDirect
  <2>4. \A i \in 1 .. Len(tries') : tries'[i] = "direct" =>
          \/ i = 1 /\ mode # "plain"
          \/ i > 1 /\ tries'[i - 1] = "relay" /\ \E n \in Networks : HandedOut(i - 1, n)'
    BY <1>1, <1>3, <2>1
  <2>5. \A i \in 1 .. Len(tries') : tries'[i] = "relay" =>
          \A j \in 1 .. (i - 1) : tries'[j] = "relay" =>
             i = Len(tries') /\ \E n \in Networks : HandedOut(j, n)'
    BY <1>1, <2>1, <2>3
  <2> QED BY <1>1, <2>2, <2>4, <2>5 DEF PathOrder
<1> QED BY <1>5, <1>6, <1>7, Trying

-----------------------------------------------------------------------------
(* The exit code. *)

(* What ExitCode asks of the last connection: that it was refused, or that   *)
(* it got as far as its TAP.                                                 *)
Refusing == tries # <<>> /\ Refused(Len(tries))
Carrying == tries # <<>> /\ \E n \in Networks : MayCarry(Len(tries), n)

LEMMA NotRefusing ==
    ASSUME TypeOK, \/ tries = <<>>
                   \/ tries[Len(tries)] = "direct"
                   \/ Len(heard[Len(tries)]) # 2
    PROVE  ~Refusing
  BY DEF Refusing, Refused

(* A direct path that is up carries its network. *)
LEMMA DirectCarries ==
    ASSUME IInv, pc \in {"D_OPEN", "D_LOOP"}
    PROVE  Carrying
<1>1. tries[Len(tries)] = "direct" /\ tries # <<>>
  BY DEF IInv, TypeOK, Budget, DirectPcs
<1>a. PICK last \in Nat : last = Len(tries) /\ last > 0
  BY DEF IInv, TypeOK, Budget, DirectPcs
<1>2. CASE site = "cli"
  <2>1. last <= 1
    BY <1>a, <1>2 DEF IInv, Budget, DirectPcs
  <2>2. netId = cfgNet /\ netId \in Networks /\ netId # 0
    BY <1>2 DEF IInv, TypeOK, DirectBacked, DirectPcs, NetIds
  <2>3. Len(tries) = 1
    BY <1>a, <2>1
  <2> QED BY <1>1, <2>2, <2>3 DEF Carrying, MayCarry
<1>3. CASE site = "cfg"
  <2>1. Len(tries) > 1 /\ tries[Len(tries) - 1] = "relay" /\ HandedOut(Len(tries) - 1, netId)
    BY <1>3 DEF IInv, DirectBacked, DirectPcs
  <2>2. netId \in Networks
    BY <2>1 DEF HandedOut, Granted, IInv, TypeOK, NetIds
  <2> QED BY <1>1, <1>a, <2>1, <2>2 DEF Carrying, MayCarry
<1> QED BY <1>2, <1>3 DEF IInv, TypeOK

(* So does a relay whose handshake is over. *)
LEMMA RelayCarries ==
    ASSUME IInv, pc \in {"R_OPEN", "R_PING", "R_LOOP"}
    PROVE  Carrying /\ ~Refusing
<1>1. /\ tries[Len(tries)] = "relay" /\ Len(tries) > 0 /\ tries # <<>>
      /\ fd = Len(tries) /\ Granted(fd, netId)
  BY FdLemma DEF IInv, TypeOK, Budget, HeardSoFar, Pcs, RelayPcs, Idle
<1>2. netId \in Networks
  BY <1>1 DEF Granted, IInv, TypeOK, NetIds
<1> QED BY <1>1, <1>2, NotRefusing DEF Carrying, MayCarry, Granted, IInv

(* When a relay is about to be tried, the path before it was not a refusal. *)
LEMMA NoRefusalBefore ==
    ASSUME IInv, PathsSoFar, pc = "R_INIT"
    PROVE  ~Refusing
<1> SUFFICES ASSUME tries # <<>> PROVE tries[Len(tries)] = "direct" \/ Len(heard[Len(tries)]) # 2
  BY NotRefusing DEF IInv
<1>1. Len(tries) \in 1 .. Len(tries) /\ tries[Len(tries)] \in Paths
  BY DEF IInv, TypeOK
<1>2. CASE allow
  BY <1>1, <1>2 DEF PathsSoFar, IsDirect
<1>3. CASE ~allow
  BY <1>1, <1>3 DEF PathsSoFar, RelayHandedOut, IsRelay, HandedOut, Granted, Paths
<1> QED BY <1>2, <1>3

(* Every way to end leaves the code that the last connection asks for. *)
LEMMA Ending ==
    ASSUME IInv, IInv', PathsSoFar, Next, pc' = "EXIT"
    PROVE  \/ rc' = 1 /\ ~Refusing'
           \/ rc' = 3 /\ Refusing'
           \/ rc' = -1 /\ Carrying' /\ ~Refusing'
<1> USE DEF DirectPcs, RelayPcs, Idle, Pcs
<1>1. CASE StartDirectFails
  <2>1. rc' = 1 /\ tries' = tries
    BY <1>1 DEF StartDirectFails, AfterDirect, TapRunMode, Exit, history
  <2>2. tries' = <<>>
    BY <1>1, <2>1 DEF StartDirectFails, IInv, TypeOK, Budget
  <2> QED BY <2>1, <2>2 DEF Refusing
<1>2. CASE DirectConnectFails
  <2>1. rc' = 1 /\ tries' = Append(tries, "direct")
    BY <1>2 DEF DirectConnectFails, DirectDone, AfterDirect, TapRunMode, Exit
  <2>2. tries'[Len(tries')] = "direct"
    BY <2>1 DEF IInv, TypeOK
  <2> QED BY <2>1, <2>2, NotRefusing DEF Refusing, Refused
<1>3. CASE SendTokenFails
  <2>1. rc' = 1 /\ tries' = tries /\ tries[Len(tries)] = "direct"
    BY <1>3 DEF SendTokenFails, DirectDone, AfterDirect, TapRunMode, Exit, IInv, Budget
  <2> QED BY <2>1 DEF Refusing, Refused
<1>4. CASE DirectLoopFails \/ \E m \in Msgs : DirectLoopReject(m)
  <2>1. /\ rc' = -1 /\ tries' = tries /\ heard' = heard /\ cfgNet' = cfgNet
        /\ pc \in {"D_OPEN", "D_LOOP"}
    BY <1>4 DEF DirectLoopFails, DirectLoopReject, DirectDone, AfterDirect, TapRunMode, Exit
  <2>2. Carrying /\ tries[Len(tries)] = "direct"
    BY <2>1, DirectCarries DEF IInv, Budget
  <2> QED BY <2>1, <2>2 DEF Carrying, Refusing, Refused, MayCarry, Granted, HandedOut
<1>5. CASE RelayConnectFails
  <2>1. rc' = 1 /\ tries' = Append(tries, "relay") /\ heard' = heard
    BY <1>5 DEF RelayConnectFails, Exit
  <2>2. Len(tries') = Len(tries) + 1 /\ Len(tries) \in Nat
    BY <2>1, TryLemma DEF IInv, Paths
  <2>a. Len(tries') <= 4
    BY DEF IInv, TypeOK, MaxTries
  <2>b. Len(tries') \in Conns /\ Len(tries') > Len(tries)
    BY <2>2, <2>a DEF Conns, MaxTries
  <2>3. heard'[Len(tries')] = <<>>
    BY <2>1, <2>b DEF IInv, HeardSoFar
  <2> QED BY <2>1, <2>3 DEF Refusing, Refused
<1>6. CASE RelayInitFails
  <2>1. rc' = 1 /\ tries' = tries /\ heard' = heard /\ pc = "R_INIT"
    BY <1>6 DEF RelayInitFails, Exit, history
  <2> QED BY <2>1, NoRefusalBefore DEF Refusing, Refused
<1>7. CASE HandshakeSendFails
  <2>1. /\ rc' = 1 /\ tries' = tries /\ heard' = heard /\ pc \in {"R_HELLO", "R_AUTH"}
    BY <1>7 DEF HandshakeSendFails, RelayDone, Exit
  <2>2. fd = Len(tries) /\ Len(heard[fd]) # 2
    BY <2>1, FdLemma DEF IInv, HeardSoFar
  <2> QED BY <2>1, <2>2 DEF Refusing, Refused
<1>8. CASE \E m \in Msgs : RecvHelloInvalid(m) \/ RecvAuthOther(m) \/ RecvConfigInvalid(m)
  <2>1. PICK m \in Msgs : RecvHelloInvalid(m) \/ RecvAuthOther(m) \/ RecvConfigInvalid(m)
    BY <1>8
  <2>2. /\ Receive(m) /\ tries' = tries
        /\ pc \in {"R_HELLO_WAIT", "R_AUTH_WAIT", "R_CONFIG_WAIT"}
        /\ rc' = IF pc = "R_AUTH_WAIT" /\ m.type = "AUTH_FAIL" THEN 3 ELSE 1
    BY <2>1 DEF RecvHelloInvalid, RecvAuthOther, RecvConfigInvalid, RelayDone, Exit
  <2>3. fd = Len(tries) /\ fd \in Conns /\ tries[fd] = "relay" /\ tries # <<>>
    BY <2>2, FdLemma DEF IInv, Budget
  <2>4. /\ pc = "R_HELLO_WAIT" => Len(heard'[fd]) = 1
        /\ pc = "R_AUTH_WAIT" => Len(heard'[fd]) = 2 /\ heard'[fd][2] = m
        /\ pc = "R_CONFIG_WAIT" => Len(heard'[fd]) = 3
    BY <2>2, <2>3, AnswersLemma, HeardLemma DEF IInv
  <2> QED BY <2>2, <2>3, <2>4 DEF Refusing, Refused
<1>9. CASE RelayLoopFails \/ \E m \in Msgs : RelayLoopReject(m)
  <2>1. /\ rc' = -1 /\ tries' = tries /\ heard' = heard /\ cfgNet' = cfgNet
        /\ pc \in {"R_OPEN", "R_PING", "R_LOOP"}
    BY <1>9 DEF RelayLoopFails, RelayLoopReject, RelayDone, Exit, locals
  <2>2. Carrying /\ ~Refusing
    BY <2>1, RelayCarries
  <2> QED BY <2>1, <2>2 DEF Carrying, Refusing, Refused, MayCarry, Granted, HandedOut
<1>10. CASE ~(\/ StartDirectFails \/ DirectConnectFails \/ SendTokenFails \/ DirectLoopFails
              \/ RelayConnectFails \/ RelayInitFails \/ HandshakeSendFails \/ RelayLoopFails
              \/ \E m \in Msgs : \/ DirectLoopReject(m) \/ RecvHelloInvalid(m) \/ RecvAuthOther(m)
                                 \/ RecvConfigInvalid(m) \/ RelayLoopReject(m))
  BY <1>10 DEF Next, Direct, Handshake, Relay, history, Connected, TapRunMode,
       StartDirect, DirectConnect, SendToken, DirectTapOpen, DirectLoopSend, DirectLoopRecv,
       StartRelay, RelayConnect, SendHello, SendAuth, RelayTapOpen, SendPing,
       RelayLoopSend, RelayLoopRecv, RecvHello, RecvAuthOk, RecvConfigRelay,
       RecvConfigDirect, RecvConfigNoDirect
<1> QED BY <1>1, <1>2, <1>3, <1>4, <1>5, <1>6, <1>7, <1>8, <1>9, <1>10

LEMMA ExitStep ==
    ASSUME IInv, IInv', PathsSoFar, ExitCode, [Next]_vars
    PROVE  ExitCode'
<1>1. CASE UNCHANGED vars
  BY <1>1 DEF ExitCode, vars, Refused, MayCarry, Granted, HandedOut
<1>2. CASE Next
  <2>1. pc' = "EXIT" => \/ rc' = 1 /\ ~Refusing'
                        \/ rc' = 3 /\ Refusing'
                        \/ rc' = -1 /\ Carrying' /\ ~Refusing'
    BY <1>2, Ending
  <2> QED BY <2>1 DEF ExitCode, Refusing, Carrying
<1> QED BY <1>1, <1>2

-----------------------------------------------------------------------------
(* What is sent on a connection, and in which order. *)

(* What is proper stays so. *)
LEMMA ProperKept ==
    ASSUME IInv, [Next]_vars, NEW c \in Conns, NEW i \in Nat, NEW what,
           tries'[c] = tries[c], MayBeSent(c, i, what)
    PROVE  MayBeSent(c, i, what)'
<1>1. (\E n \in Networks : Granted(c, n)) => \E n \in Networks : Granted(c, n)'
  BY Kept
<1>2. Len(heard[c]) > 0 /\ IsServerHello(heard[c][1])
        => Len(heard'[c]) > 0 /\ IsServerHello(heard'[c][1])
  BY Kept
<1> QED BY <1>1, <1>2 DEF MayBeSent

(* The steps that send, with what they send. *)
Says(what) ==
    /\ Send(what) /\ tries' = tries /\ fd' = fd
    /\ \/ pc = "D_TOKEN" /\ pc' = "D_OPEN" /\ what = "TOKEN"
       \/ pc = "D_LOOP" /\ pc' = "D_LOOP" /\ what = "TAP_FRAME"
       \/ pc = "R_HELLO" /\ pc' = "R_HELLO_WAIT" /\ what = "HELLO"
       \/ pc = "R_AUTH" /\ pc' = "R_AUTH_WAIT" /\ what = "AUTH_TAP"
       \/ pc = "R_PING" /\ pc' = "R_LOOP" /\ what = "PING"
       \/ pc = "R_LOOP" /\ pc' = "R_LOOP" /\ what \in {"PING", "TAP_FRAME"}

(* The others: they leave the connection, take a new one, or go on with it. *)
Silent ==
    /\ sent' = sent
    /\ \/ pc' \in {"START", "EXIT", "R_INIT", "D_CONNECT"}
       \/ pc' \in {"D_TOKEN", "R_HELLO"} /\ fd' = Len(tries') /\ Len(tries') = Len(tries) + 1
       \/ /\ fd' = fd
          /\ \/ pc' = pc
             \/ pc = "D_OPEN" /\ pc' = "D_LOOP"
             \/ pc = "R_HELLO_WAIT" /\ pc' = "R_AUTH"
             \/ {pc, pc'} \subseteq {"R_AUTH_WAIT", "R_CONFIG_WAIT", "R_OPEN", "R_PING"}

LEMMA Sending ==
    ASSUME IInv, [Next]_vars
    PROVE  Silent \/ \E what \in Sendable : Says(what)
<1>1. CASE UNCHANGED vars
  BY <1>1 DEF vars, Silent
<1>2. CASE SendToken \/ DirectLoopSend \/ SendHello \/ SendAuth \/ SendPing \/ RelayLoopSend
  BY <1>2 DEF SendToken, DirectLoopSend, SendHello, SendAuth, SendPing, RelayLoopSend,
       Says, Sendable
<1>3. CASE DirectConnect \/ RelayConnect
  <2>1. /\ sent' = sent /\ pc' \in {"D_TOKEN", "R_HELLO"} /\ fd' = Len(tries')
        /\ \E path \in Paths : tries' = Append(tries, path)
    BY <1>3 DEF DirectConnect, RelayConnect, Connected, Paths
  <2>2. Len(tries') = Len(tries) + 1
    BY <2>1, TryLemma DEF IInv
  <2> QED BY <2>1, <2>2 DEF Silent
<1>4. CASE StartRelay \/ StartDirect \/ StartDirectFails
  BY <1>4 DEF StartRelay, StartDirect, StartDirectFails, AfterDirect, TapRunMode, Exit,
       history, Silent
<1>5. CASE \/ DirectConnectFails \/ SendTokenFails \/ DirectLoopFails
           \/ \E m \in Msgs : DirectLoopReject(m)
  BY <1>5 DEF DirectConnectFails, SendTokenFails, DirectLoopFails, DirectLoopReject,
       DirectDone, AfterDirect, TapRunMode, Exit, Silent
<1>6. CASE \/ RelayConnectFails \/ RelayInitFails \/ HandshakeSendFails \/ RelayLoopFails
           \/ \E m \in Msgs : \/ RecvHelloInvalid(m) \/ RecvAuthOther(m)
                              \/ RecvConfigInvalid(m) \/ RelayLoopReject(m)
  BY <1>6 DEF RelayConnectFails, RelayInitFails, HandshakeSendFails, RelayLoopFails,
       RecvHelloInvalid, RecvAuthOther, RecvConfigInvalid, RelayLoopReject, RelayDone,
       Exit, history, Silent
<1>7. CASE \/ DirectTapOpen \/ RelayTapOpen
           \/ \E m \in Msgs : \/ DirectLoopRecv(m) \/ RelayLoopRecv(m) \/ RecvHello(m)
                              \/ RecvAuthOk(m) \/ RecvConfigRelay(m)
  BY <1>7 DEF DirectTapOpen, RelayTapOpen, DirectLoopRecv, RelayLoopRecv, RecvHello,
       RecvAuthOk, RecvConfigRelay, history, Silent
<1>8. CASE \E m \in Msgs : RecvConfigDirect(m) \/ RecvConfigNoDirect(m)
  BY <1>8 DEF RecvConfigDirect, RecvConfigNoDirect, TapRunMode, Silent
<1> QED BY <1>1, <1>2, <1>3, <1>4, <1>5, <1>6, <1>7, <1>8 DEF Next, Direct, Handshake, Relay

(* A message goes to the end of its connection's history. *)
LEMMA SaidLast ==
    ASSUME IInv, NEW what \in Sendable, Says(what)
    PROVE  /\ fd = Len(tries) /\ fd \in 1 .. Len(tries) /\ fd \in Conns
           /\ Len(sent[fd]) \in Nat /\ Len(sent'[fd]) = Len(sent[fd]) + 1
           /\ sent'[fd][Len(sent[fd]) + 1] = what
           /\ \A i \in 1 .. Len(sent[fd]) : sent'[fd][i] = sent[fd][i]
           /\ \A c \in Conns \ {fd} : sent'[c] = sent[c]
<1>1. fd = Len(tries) /\ fd \in 1 .. Len(tries) /\ fd \in Conns
  BY FdLemma DEF IInv, Says, Pcs, DirectPcs, RelayPcs, Idle
<1>2. /\ Len(Append(sent[fd], what)) = Len(sent[fd]) + 1 /\ Len(sent[fd]) \in Nat
      /\ Append(sent[fd], what)[Len(sent[fd]) + 1] = what
      /\ \A i \in 1 .. Len(sent[fd]) : Append(sent[fd], what)[i] = sent[fd][i]
  BY <1>1 DEF IInv, TypeOK
<1>3. sent' = [sent EXCEPT ![fd] = Append(sent[fd], what)]
  BY DEF Says, Send
<1>4. sent'[fd] = Append(sent[fd], what) /\ \A c \in Conns \ {fd} : sent'[c] = sent[c]
  BY <1>1, <1>3 DEF IInv, TypeOK
<1> QED BY <1>1, <1>2, <1>4

LEMMA SentStep ==
    ASSUME IInv, IInv', SentSoFar, [Next]_vars
    PROVE  SentSoFar'
<1>1. Len(tries) \in Nat /\ Len(tries') \in Nat /\ Len(tries') >= Len(tries)
  <2>1. tries \in Seq(Paths)
    BY DEF IInv, TypeOK
  <2> QED BY <2>1, Trying
<1>2. CASE Silent
  <2>1. \A c \in Conns : c > Len(tries') => sent'[c] = <<>>
    BY <1>1, <1>2 DEF Silent, SentSoFar, Conns
  <2>2. CASE pc' \in {"START", "EXIT", "R_INIT", "D_CONNECT"}
    BY <2>1, <2>2 DEF SentSoFar
  <2>3. CASE pc' \in {"D_TOKEN", "R_HELLO"} /\ fd' = Len(tries') /\ Len(tries') = Len(tries) + 1
    <3>1. fd' \in Conns /\ fd' > Len(tries)
      BY <1>1, <2>3, FdLemma DEF IInv, TypeOK, Conns
    <3>2. Len(sent'[fd']) = 0
      BY <1>2, <3>1 DEF Silent, SentSoFar
    <3> QED BY <2>1, <2>3, <3>2 DEF SentSoFar
  <2>4. CASE /\ fd' = fd
             /\ \/ pc' = pc
                \/ pc = "D_OPEN" /\ pc' = "D_LOOP"
                \/ pc = "R_HELLO_WAIT" /\ pc' = "R_AUTH"
                \/ {pc, pc'} \subseteq {"R_AUTH_WAIT", "R_CONFIG_WAIT", "R_OPEN", "R_PING"}
    <3>1. sent'[fd'] = sent[fd]
      BY <1>2, <2>4 DEF Silent
    <3> QED BY <2>1, <2>4, <3>1 DEF SentSoFar
  <2> QED BY <1>2, <2>2, <2>3, <2>4 DEF Silent
<1>3. ASSUME NEW what \in Sendable, Says(what) PROVE SentSoFar'
  <2>1. /\ fd \in 1 .. Len(tries) /\ Len(sent[fd]) \in Nat
        /\ Len(sent'[fd]) = Len(sent[fd]) + 1
        /\ \A c \in Conns \ {fd} : sent'[c] = sent[c]
    BY <1>3, SaidLast
  <2>2. tries' = tries /\ fd' = fd
    BY <1>3 DEF Says
  <2>3. \A c \in Conns : c > Len(tries') => sent'[c] = <<>>
    BY <1>1, <2>1, <2>2 DEF SentSoFar
  <2>4. PICK k \in Nat : k = Len(sent[fd])
    BY <2>1
  <2>5. Len(sent'[fd']) = k + 1
    BY <2>1, <2>2, <2>4
  <2>6. pc \in {"D_TOKEN", "R_HELLO"} => k = 0
    BY <2>4 DEF SentSoFar
  <2>7. pc = "R_AUTH" => k = 1
    BY <2>4 DEF SentSoFar
  <2>8. pc = "R_PING" => k = 2
    BY <2>4 DEF SentSoFar
  <2>9. pc = "R_LOOP" => k > 2
    BY <2>4 DEF SentSoFar
  <2> QED BY <1>3, <2>3, <2>5, <2>6, <2>7, <2>8, <2>9 DEF Says, SentSoFar
<1> QED BY <1>2, <1>3, Sending

(* Whatever is sent is proper at its place. *)
LEMMA SaysProper ==
    ASSUME IInv, SentSoFar, NEW said \in Sendable, Says(said),
           NEW i, i = Len(sent[fd]) + 1
    PROVE  MayBeSent(fd, i, said)
<1>1. fd = Len(tries)
  BY SaidLast
<1>a. PICK k \in Nat : k = Len(sent[fd]) /\ i = k + 1
  BY SaidLast
<1>2. CASE pc \in {"D_TOKEN", "D_LOOP"}
  <2>1. tries[fd] = "direct"
    BY <1>1, <1>2 DEF IInv, Budget, DirectPcs
  <2>2. (i = 1 /\ said = "TOKEN") \/ (i # 1 /\ said = "TAP_FRAME")
    <3>1. CASE pc = "D_TOKEN"
      <4>1. k = 0
        BY <1>a, <3>1 DEF SentSoFar
      <4> QED BY <1>a, <3>1, <4>1 DEF Says
    <3>2. CASE pc = "D_LOOP"
      <4>1. k > 0
        BY <1>a, <3>2 DEF SentSoFar
      <4> QED BY <1>a, <3>2, <4>1 DEF Says
    <3> QED BY <1>2, <3>1, <3>2
  <2>3. CASE i = 1 /\ said = "TOKEN"
    BY <1>a, <2>1, <2>3 DEF MayBeSent
  <2>4. CASE i # 1 /\ said = "TAP_FRAME"
    BY <1>a, <2>1, <2>4 DEF MayBeSent
  <2> QED BY <2>2, <2>3, <2>4
<1>3. CASE pc \in {"R_HELLO", "R_AUTH", "R_PING", "R_LOOP"}
  <2>1. tries[fd] # "direct"
    BY <1>1, <1>3 DEF IInv, Budget, RelayPcs
  <2>2. CASE pc = "R_HELLO"
    <3>1. k = 0 /\ said = "HELLO"
      BY <1>a, <2>2 DEF SentSoFar, Says
    <3> QED BY <1>a, <2>1, <3>1 DEF MayBeSent
  <2>3. CASE pc = "R_AUTH"
    <3>1. k = 1 /\ said = "AUTH_TAP"
      BY <1>a, <2>3 DEF SentSoFar, Says
    <3>2. Len(heard[fd]) > 0 /\ IsServerHello(heard[fd][1])
      BY <2>3 DEF IInv, HeardSoFar
    <3> QED BY <1>a, <2>1, <3>1, <3>2 DEF MayBeSent
  <2>4. CASE pc = "R_PING"
    <3>1. k = 2 /\ said = "PING"
      BY <1>a, <2>4 DEF SentSoFar, Says
    <3>2. Granted(fd, netId) /\ netId \in Networks
      BY <2>4 DEF IInv, HeardSoFar, Granted, TypeOK, NetIds
    <3> QED BY <1>a, <2>1, <3>1, <3>2 DEF MayBeSent
  <2>5. CASE pc = "R_LOOP"
    <3>1. k > 2 /\ said \in {"PING", "TAP_FRAME"}
      BY <1>a, <2>5 DEF SentSoFar, Says
    <3> QED BY <1>a, <2>1, <3>1 DEF MayBeSent
  <2> QED BY <1>3, <2>2, <2>3, <2>4, <2>5
<1> QED BY <1>2, <1>3 DEF Says

LEMMA WireOrderStep ==
    ASSUME IInv, IInv', SentSoFar, WireOrder, [Next]_vars
    PROVE  WireOrder'
<1>1. tries \in Seq(Paths) /\ Len(tries) <= 4
  BY DEF IInv, TypeOK, MaxTries
<1>2. \A c \in 1 .. Len(tries) : c \in Conns /\ tries'[c] = tries[c]
  BY <1>1, Trying DEF Conns, MaxTries
<1>3. \A c \in 1 .. Len(tries) : \A i \in Nat :
        \A what : MayBeSent(c, i, what) => MayBeSent(c, i, what)'
  BY <1>2, ProperKept
<1>4. \A c \in 1 .. Len(tries) : \A i \in 1 .. Len(sent[c]) : MayBeSent(c, i, sent[c][i])
  BY DEF WireOrder
<1>5. SUFFICES ASSUME NEW c \in 1 .. Len(tries'), NEW i \in 1 .. Len(sent'[c]),
                      NEW what, what = sent'[c][i]
               PROVE  MayBeSent(c, i, what)'
  BY DEF WireOrder
<1>6. CASE Silent
  <2>1. sent' = sent
    BY <1>6 DEF Silent
  <2>2. CASE c \in 1 .. Len(tries)
    <3>1. MayBeSent(c, i, what) /\ i \in Nat
      BY <1>4, <1>5, <2>1, <2>2
    <3> QED BY <1>3, <2>2, <3>1
  <2>3. CASE c \notin 1 .. Len(tries)
    <3>1. PICK old \in Nat, new \in Nat : old = Len(tries) /\ new = Len(tries') /\ new <= 4
      BY DEF IInv, TypeOK, MaxTries
    <3>2. c \in Conns /\ c > old
      BY <2>3, <3>1 DEF Conns, MaxTries
    <3>3. sent'[c] = <<>>
      BY <2>1, <3>1, <3>2 DEF SentSoFar
    <3> QED BY <3>3
  <2> QED BY <2>2, <2>3
<1>7. CASE \E said \in Sendable : Says(said)
  <2>1. PICK said \in Sendable : Says(said)
    BY <1>7
  <2>2. /\ fd = Len(tries) /\ fd \in 1 .. Len(tries) /\ fd \in Conns
        /\ Len(sent[fd]) \in Nat /\ Len(sent'[fd]) = Len(sent[fd]) + 1
        /\ sent'[fd][Len(sent[fd]) + 1] = said
        /\ \A j \in 1 .. Len(sent[fd]) : sent'[fd][j] = sent[fd][j]
        /\ \A d \in Conns \ {fd} : sent'[d] = sent[d]
    BY <2>1, SaidLast
  <2>3. tries' = tries
    BY <2>1 DEF Says
  <2>4. CASE c # fd
    <3>1. c \in 1 .. Len(tries) /\ sent'[c] = sent[c]
      BY <1>2, <2>2, <2>3, <2>4
    <3>2. MayBeSent(c, i, what) /\ i \in Nat
      BY <1>4, <1>5, <3>1
    <3> QED BY <1>3, <3>1, <3>2
  <2>5. CASE c = fd /\ i \in 1 .. Len(sent[fd])
    <3>1. MayBeSent(c, i, what) /\ i \in Nat
      BY <1>4, <1>5, <2>2, <2>5
    <3> QED BY <1>3, <2>2, <2>5, <3>1
  <2>6. CASE c = fd /\ i = Len(sent[fd]) + 1
    <3>1. what = said
      BY <1>5, <2>2, <2>6
    <3>2. MayBeSent(c, i, said)
      BY <2>1, <2>2, <2>6, SaysProper
    <3> QED BY <1>3, <2>2, <2>6, <3>1, <3>2
  <2> QED BY <2>2, <2>4, <2>5, <2>6
<1> QED BY <1>6, <1>7, Sending

LEMMA OrderStart == Init => PathsSoFar /\ SentSoFar /\ PathOrder /\ ExitCode /\ WireOrder
<1> SUFFICES ASSUME Init PROVE PathsSoFar /\ SentSoFar /\ PathOrder /\ ExitCode /\ WireOrder
  OBVIOUS
<1>1. Len(tries) = 0
  BY DEF Init
<1>2. SentSoFar
  BY DEF Init, SentSoFar
<1> QED BY <1>1, <1>2, PathsStart DEF Init, PathOrder, ExitCode, WireOrder

-----------------------------------------------------------------------------
(* The places of the code, with the paths tried and the messages sent there. *)
OInv == IInv /\ PathsSoFar /\ SentSoFar

LEMMA OrderInductive == Spec => []OInv
<1>1. Init => OInv
  BY Start, OrderStart DEF OInv
<1>2. OInv /\ [Next]_vars => OInv'
  BY Step, PathsStep, SentStep DEF OInv
<1> QED BY <1>1, <1>2, PTL DEF Spec

(* PathOrder, of main.c and tap_run_mode: a direct path is tried only when   *)
(* the options or the connection just before it named one, a second relay    *)
(* only because the first named a direct path, and nothing after that.       *)
THEOREM PathsInOrder == Spec => []PathOrder
<1>1. OInv /\ PathOrder /\ [Next]_vars => PathOrder'
  BY PathOrderStep DEF OInv
<1> QED BY <1>1, OrderStart, OrderInductive, PTL DEF Spec

(* WireOrder, of tap_run_mode, run_direct_tap_connect and the two loops:     *)
(* AUTH_TAP goes only to a peer that said it is a server, PING and frames    *)
(* only where a network was granted, and a direct connection carries the     *)
(* token and then frames.                                                    *)
THEOREM MessagesInOrder == Spec => []WireOrder
<1>1. OInv /\ OInv' /\ WireOrder /\ [Next]_vars => WireOrder'
  BY WireOrderStep DEF OInv
<1> QED BY <1>1, OrderStart, OrderInductive, PTL DEF Spec

(* ExitCode, of the values that tap_run_mode and the direct tries return: a  *)
(* run never reports success, 3 exactly when its last connection was         *)
(* refused, -1 only when it got as far as the TAP.                           *)
THEOREM CodeTellsLastPath == Spec => []ExitCode
<1>1. OInv /\ OInv' /\ ExitCode /\ [Next]_vars => ExitCode'
  BY ExitStep DEF OInv
<1> QED BY <1>1, OrderStart, OrderInductive, PTL DEF Spec

-----------------------------------------------------------------------------
(***************************************************************************)
(* TapClient implements ConnectStrategy: every step of the program is a    *)
(* step of the plan or leaves mode, tries and Stage as they are.           *)
(***************************************************************************)
(* The paths tried: before the first relay, with it, with the direct path   *)
(* that it named, and with the second relay.  The d paths before the first  *)
(* relay are the direct one that the options may name.                      *)
Lead(s, d) == d \in {0, 1} /\ (d = 1 => mode # "plain" /\ s[1] = "direct")

Opening(s)    == Lead(s, Len(s))
FirstRelay(s) == Len(s) > 0 /\ Lead(s, Len(s) - 1) /\ s[Len(s)] = "relay"
Named(s) ==
    /\ Len(s) > 1 /\ Lead(s, Len(s) - 2)
    /\ s[Len(s) - 1] = "relay" /\ s[Len(s)] = "direct"
LastRelay(s) ==
    \/ /\ Len(s) > 1 /\ Lead(s, Len(s) - 2)
       /\ s[Len(s) - 1] = "relay" /\ s[Len(s)] = "relay"
    \/ /\ Len(s) > 2 /\ Lead(s, Len(s) - 3)
       /\ s[Len(s) - 2] = "relay" /\ s[Len(s) - 1] = "direct" /\ s[Len(s)] = "relay"

(* Which of them belong to each place of the code. *)
PlanSoFar ==
    /\ pc = "START" => Len(tries) = 0
    /\ pc \in DirectPcs /\ site = "cli" =>
         Opening(tries) /\ (Len(tries) = 0 <=> pc = "D_CONNECT")
    /\ pc \in DirectPcs /\ site = "cfg" =>
         IF pc = "D_CONNECT" THEN FirstRelay(tries) ELSE Named(tries)
    /\ pc = "R_INIT" =>
         IF allow THEN Opening(tries) ELSE FirstRelay(tries) \/ Named(tries)
    /\ pc \in RelayPcs \ {"R_INIT"} =>
         IF allow THEN FirstRelay(tries) ELSE LastRelay(tries)

-----------------------------------------------------------------------------
(* One path more. *)
LEMMA NextPath ==
    ASSUME NEW s \in Seq(Paths)
    PROVE  /\ Opening(s) => FirstRelay(Append(s, "relay"))
           /\ FirstRelay(s) => Named(Append(s, "direct"))
           /\ FirstRelay(s) \/ Named(s) => LastRelay(Append(s, "relay"))
           /\ Len(s) = 0 /\ mode # "plain" =>
                Opening(Append(s, "direct")) /\ Len(Append(s, "direct")) = 1
<1>1. ASSUME NEW x \in Paths
      PROVE  /\ Len(Append(s, x)) = Len(s) + 1 /\ Append(s, x)[Len(s) + 1] = x
             /\ \A i \in 1 .. Len(s) : Append(s, x)[i] = s[i]
  OBVIOUS
<1>2. Len(s) \in Nat /\ "relay" \in Paths /\ "direct" \in Paths
  BY DEF Paths
<1> QED BY <1>1, <1>2 DEF Opening, FirstRelay, Named, LastRelay, Lead

LEMMA PrefixLemma ==
    ASSUME NEW p \in Seq(Paths), NEW s \in Seq(Paths), Len(s) <= Len(p),
           \A i \in 1 .. Len(s) : s[i] = p[i]
    PROVE  s = SubSeq(p, 1, Len(s))
  OBVIOUS

(* Every path list of TapClient is a beginning of a plan. *)
LEMMA PlannedLemma ==
    ASSUME NEW s \in Seq(Paths), mode \in Modes,
           \/ mode # "plain" /\ Opening(s)
           \/ mode # "direct_only" /\ (FirstRelay(s) \/ Named(s) \/ LastRelay(s))
    PROVE  Strategy!Planned(s)
<1>1. Len(s) \in Nat /\ Len(s) <= 4
  BY DEF Opening, FirstRelay, Named, LastRelay, Lead
<1>2. ASSUME NEW p \in Strategy!Plans[mode], p \in Seq(Paths), Len(s) <= Len(p),
             \A i \in 1 .. Len(s) : s[i] = p[i]
      PROVE  Strategy!Planned(s)
  BY <1>2, PrefixLemma DEF Strategy!Planned
<1>3. ASSUME NEW a \in Paths, NEW b \in Paths, NEW c \in Paths, NEW d \in Paths
      PROVE  /\ <<a>> \in Seq(Paths) /\ Len(<<a>>) = 1 /\ <<a>>[1] = a
             /\ <<a, b>> \in Seq(Paths) /\ Len(<<a, b>>) = 2
             /\ <<a, b>>[1] = a /\ <<a, b>>[2] = b
             /\ <<a, b, c>> \in Seq(Paths) /\ Len(<<a, b, c>>) = 3
             /\ <<a, b, c>>[1] = a /\ <<a, b, c>>[2] = b /\ <<a, b, c>>[3] = c
             /\ <<a, b, c, d>> \in Seq(Paths) /\ Len(<<a, b, c, d>>) = 4
             /\ <<a, b, c, d>>[1] = a /\ <<a, b, c, d>>[2] = b
             /\ <<a, b, c, d>>[3] = c /\ <<a, b, c, d>>[4] = d
  OBVIOUS
<1>4. "direct" \in Paths /\ "relay" \in Paths
  BY DEF Paths
<1>5. CASE mode # "plain" /\ Opening(s)
  <2>1. s = <<>> \/ (Len(s) = 1 /\ s[1] = "direct")
    BY <1>1, <1>5 DEF Opening, Lead
  <2>2. CASE mode = "direct_only"
    <3> DEFINE p == <<"direct">>
    <3>1. p \in Strategy!Plans[mode]
      BY <2>2 DEF Strategy!Plans
    <3>2. p \in Seq(Paths) /\ Len(p) = 1 /\ p[1] = "direct"
      BY <1>3, <1>4
    <3> HIDE DEF p
    <3> QED BY <1>2, <2>1, <3>1, <3>2
  <2>3. CASE mode = "direct_first"
    <3> DEFINE p == <<"direct", "relay", "relay">>
    <3>1. p \in Strategy!Plans[mode]
      BY <2>3 DEF Strategy!Plans
    <3>2. p \in Seq(Paths) /\ Len(p) = 3 /\ p[1] = "direct"
      BY <1>3, <1>4
    <3> HIDE DEF p
    <3> QED BY <1>2, <2>1, <3>1, <3>2
  <2> QED BY <1>5, <2>2, <2>3 DEF Modes
<1>6. CASE mode # "direct_only" /\ (FirstRelay(s) \/ Named(s) \/ LastRelay(s))
  <2> DEFINE At(n, a) == Len(s) >= n => s[n] = a
  <2>1. \/ Len(s) \in 1 .. 3 /\ At(1, "relay") /\ At(2, "direct") /\ At(3, "relay")
        \/ Len(s) = 2 /\ At(1, "relay") /\ At(2, "relay")
        \/ /\ mode # "plain" /\ Len(s) \in 1 .. 4
           /\ At(1, "direct") /\ At(2, "relay") /\ At(3, "direct") /\ At(4, "relay")
        \/ /\ mode # "plain" /\ Len(s) = 3
           /\ At(1, "direct") /\ At(2, "relay") /\ At(3, "relay")
    BY <1>1, <1>6 DEF FirstRelay, Named, LastRelay, Lead
  <2>2. CASE Len(s) \in 1 .. 3 /\ At(1, "relay") /\ At(2, "direct") /\ At(3, "relay")
    <3> DEFINE p == <<"relay", "direct", "relay">>
    <3>1. p \in Strategy!Plans[mode]
      BY <1>6 DEF Strategy!Plans, Modes
    <3>2. p \in Seq(Paths) /\ Len(p) = 3 /\ p[1] = "relay" /\ p[2] = "direct" /\ p[3] = "relay"
      BY <1>3, <1>4
    <3> HIDE DEF p
    <3> QED BY <1>1, <1>2, <2>2, <3>1, <3>2
  <2>3. CASE Len(s) = 2 /\ At(1, "relay") /\ At(2, "relay")
    <3> DEFINE p == <<"relay", "relay">>
    <3>1. p \in Strategy!Plans[mode]
      BY <1>6 DEF Strategy!Plans, Modes
    <3>2. p \in Seq(Paths) /\ Len(p) = 2 /\ p[1] = "relay" /\ p[2] = "relay"
      BY <1>3, <1>4
    <3> HIDE DEF p
    <3> QED BY <1>1, <1>2, <2>3, <3>1, <3>2
  <2>4. CASE /\ mode # "plain" /\ Len(s) \in 1 .. 4
             /\ At(1, "direct") /\ At(2, "relay") /\ At(3, "direct") /\ At(4, "relay")
    <3> DEFINE p == <<"direct", "relay", "direct", "relay">>
    <3>1. p \in Strategy!Plans[mode]
      BY <1>6, <2>4 DEF Strategy!Plans, Modes
    <3>2. p \in Seq(Paths) /\ Len(p) = 4
          /\ p[1] = "direct" /\ p[2] = "relay" /\ p[3] = "direct" /\ p[4] = "relay"
      BY <1>3, <1>4
    <3> HIDE DEF p
    <3> QED BY <1>1, <1>2, <2>4, <3>1, <3>2
  <2>5. CASE /\ mode # "plain" /\ Len(s) = 3
             /\ At(1, "direct") /\ At(2, "relay") /\ At(3, "relay")
    <3> DEFINE p == <<"direct", "relay", "relay">>
    <3>1. p \in Strategy!Plans[mode]
      BY <1>6, <2>5 DEF Strategy!Plans, Modes
    <3>2. p \in Seq(Paths) /\ Len(p) = 3 /\ p[1] = "direct" /\ p[2] = "relay" /\ p[3] = "relay"
      BY <1>3, <1>4
    <3> HIDE DEF p
    <3> QED BY <1>1, <1>2, <2>5, <3>1, <3>2
  <2> QED BY <2>1, <2>2, <2>3, <2>4, <2>5
<1> QED BY <1>5, <1>6

-----------------------------------------------------------------------------
(* The paths tried at each place. *)
LEMMA PlanStep ==
    ASSUME IInv, PathsSoFar, PlanSoFar, [Next]_vars
    PROVE  PlanSoFar'
<1> USE DEF RelayPcs, DirectPcs
<1>1. CASE UNCHANGED vars
  BY <1>1 DEF PlanSoFar, Opening, FirstRelay, Named, LastRelay, Lead, vars
<1>2. CASE pc' = "EXIT"
  BY <1>2 DEF PlanSoFar
<1>3. /\ mode' = mode /\ tries \in Seq(Paths) /\ Len(tries) \in Nat
      /\ site \in {"cli", "cfg"} /\ allow \in BOOLEAN
  BY Trying DEF IInv, TypeOK
<1>4. /\ Opening(tries)' <=> Opening(tries')
      /\ FirstRelay(tries)' <=> FirstRelay(tries')
      /\ Named(tries)' <=> Named(tries')
      /\ LastRelay(tries)' <=> LastRelay(tries')
  BY <1>3 DEF Opening, FirstRelay, Named, LastRelay, Lead
<1>5. CASE Stays
  BY <1>3, <1>4, <1>5 DEF Stays, PlanSoFar
<1>6. CASE Begins
  <2>1. Len(tries') = 0 /\ Opening(tries')
    BY <1>6 DEF Begins, PlanSoFar, Opening, Lead
  <2> QED BY <1>4, <1>6, <2>1 DEF Begins, PlanSoFar
<1>7. CASE Connects
  <2>1. CASE pc = "D_CONNECT"
    <3>1. pc' = "D_TOKEN" /\ site' = site /\ tries' = Append(tries, "direct")
      BY <1>7, <2>1 DEF Connects
    <3>2. site = "cli" => Opening(tries') /\ Len(tries') = 1
      BY <1>3, <2>1, <3>1, NextPath DEF PlanSoFar, PathsSoFar
    <3>3. site = "cfg" => Named(tries')
      BY <1>3, <2>1, <3>1, NextPath DEF PlanSoFar
    <3> QED BY <1>3, <1>4, <3>1, <3>2, <3>3 DEF PlanSoFar
  <2>2. CASE pc = "R_INIT"
    <3>1. pc' = "R_HELLO" /\ allow' = allow /\ tries' = Append(tries, "relay")
      BY <1>7, <2>2 DEF Connects
    <3>2. IF allow THEN FirstRelay(tries') ELSE LastRelay(tries')
      BY <1>3, <2>2, <3>1, NextPath DEF PlanSoFar
    <3> QED BY <1>4, <3>1, <3>2 DEF PlanSoFar
  <2> QED BY <1>7, <2>1, <2>2 DEF Connects
<1>8. CASE FallsBack
  <2>1. /\ pc \in DirectPcs /\ pc' = "R_INIT" /\ allow' = (site = "cli")
        /\ tries' = IF pc = "D_CONNECT" THEN Append(tries, "direct") ELSE tries
    BY <1>8 DEF FallsBack
  <2>2. site = "cli" => Opening(tries')
    BY <1>3, <2>1, NextPath DEF PlanSoFar, PathsSoFar
  <2>3. site = "cfg" => Named(tries')
    BY <1>3, <2>1, NextPath DEF PlanSoFar
  <2> QED BY <1>3, <1>4, <2>1, <2>2, <2>3 DEF PlanSoFar
<1>9. CASE GoesDirect
  BY <1>4, <1>9 DEF GoesDirect, PlanSoFar
<1> QED BY <1>1, <1>2, <1>5, <1>6, <1>7, <1>8, <1>9, Moves

-----------------------------------------------------------------------------
(* The steps of the plan. *)

Up == {"D_LOOP", "R_PING", "R_LOOP"}

(* A loop is left for the end or for another path only. *)
LEMMA StaysUp ==
    ASSUME IInv, Next, pc \in Up
    PROVE  pc' \in Up \union {"R_INIT", "EXIT"}
  BY DEF Up, Next, Direct, Handshake, Relay, StartDirect, StartDirectFails, DirectConnect,
       DirectConnectFails, SendToken, SendTokenFails, DirectTapOpen, DirectLoopFails,
       DirectLoopSend, DirectLoopRecv, DirectLoopReject, StartRelay, RelayConnect,
       RelayConnectFails, RelayInitFails, SendHello, SendAuth, HandshakeSendFails,
       RelayTapOpen, SendPing, RelayLoopSend, RelayLoopFails, RelayLoopRecv,
       RelayLoopReject, RecvHello, RecvHelloInvalid, RecvAuthOk, RecvAuthOther,
       RecvConfigInvalid, RecvConfigRelay, RecvConfigDirect, RecvConfigNoDirect,
       DirectDone, RelayDone, AfterDirect, TapRunMode, Exit, locals

(* Where a run ends, and with which paths. *)
LEMMA Ends ==
    ASSUME IInv, Next, pc' = "EXIT"
    PROVE  \/ pc \in {"START", "R_INIT"} /\ tries' = tries
           \/ pc = "R_INIT" /\ tries' = Append(tries, "relay")
           \/ pc \in RelayPcs \ {"R_INIT"} /\ tries' = tries
           \/ /\ pc \in DirectPcs /\ mode = "direct_only"
              /\ tries' = IF pc = "D_CONNECT" THEN Append(tries, "direct") ELSE tries
  BY DEF Next, Direct, Handshake, Relay, StartDirect, StartDirectFails, DirectConnect,
       DirectConnectFails, SendToken, SendTokenFails, DirectTapOpen, DirectLoopFails,
       DirectLoopSend, DirectLoopRecv, DirectLoopReject, StartRelay, RelayConnect,
       RelayConnectFails, RelayInitFails, SendHello, SendAuth, HandshakeSendFails,
       RelayTapOpen, SendPing, RelayLoopSend, RelayLoopFails, RelayLoopRecv,
       RelayLoopReject, RecvHello, RecvHelloInvalid, RecvAuthOk, RecvAuthOther,
       RecvConfigInvalid, RecvConfigRelay, RecvConfigDirect, RecvConfigNoDirect,
       DirectDone, RelayDone, AfterDirect, EndsRun, TapRunMode, Exit, Connected,
       locals, history, DirectPcs, RelayPcs

(* The last path tried, at each place. *)
LEMMA LastPath ==
    ASSUME IInv, PlanSoFar
    PROVE  /\ pc \in DirectPcs \ {"D_CONNECT"} => tries[Len(tries)] = "direct" /\ tries # <<>>
           /\ pc \in RelayPcs \ {"R_INIT"} => tries[Len(tries)] = "relay" /\ tries # <<>>
<1>1. tries \in Seq(Paths) /\ site \in {"cli", "cfg"} /\ Len(tries) \in Nat
  BY DEF IInv, TypeOK
<1> QED BY <1>1 DEF PlanSoFar, Opening, FirstRelay, Named, LastRelay, Lead, RelayPcs, DirectPcs

(* A path that is tried is planned. *)
LEMMA Tried ==
    ASSUME IInv, PathsSoFar, PlanSoFar, NEW path \in Paths, tries' = Append(tries, path),
           \/ pc = "D_CONNECT" /\ path = "direct"
           \/ pc = "R_INIT" /\ path = "relay"
    PROVE  /\ Strategy!Planned(tries') /\ tries' # <<>>
           /\ tries'[Len(tries')] = path
<1>1. /\ tries \in Seq(Paths) /\ tries' \in Seq(Paths) /\ mode \in Modes
      /\ site \in {"cli", "cfg"} /\ allow \in BOOLEAN
  BY DEF IInv, TypeOK
<1>2. tries' # <<>> /\ tries'[Len(tries')] = path
  BY <1>1
<1>3. CASE pc = "D_CONNECT" /\ path = "direct"
  <2>1. \/ site = "cli" /\ mode # "plain" /\ Opening(tries')
        \/ site = "cfg" /\ mode # "direct_only" /\ Named(tries')
    BY <1>1, <1>3, NextPath DEF PlanSoFar, PathsSoFar, DirectPcs
  <2> QED BY <1>1, <1>2, <2>1, PlannedLemma
<1>4. CASE pc = "R_INIT" /\ path = "relay"
  <2>1. mode # "direct_only" /\ (FirstRelay(tries') \/ LastRelay(tries'))
    BY <1>1, <1>4, NextPath DEF PlanSoFar, PathsSoFar, RelayPcs
  <2> QED BY <1>1, <1>2, <2>1, PlannedLemma
<1> QED BY <1>3, <1>4

LEMMA StrategyStep ==
    ASSUME IInv, PathsSoFar, PlanSoFar, Next
    PROVE  Strategy!Next \/ UNCHANGED <<mode, tries, Stage>>
<1> USE DEF RelayPcs, DirectPcs
<1>1. mode' = mode /\ pc \in Pcs /\ site \in {"cli", "cfg"}
  BY Trying DEF IInv, TypeOK
<1>2. /\ Stage = "idle" <=> pc \in {"START", "R_INIT", "D_CONNECT"}
      /\ Stage = "up" <=> pc \in Up
      /\ Stage = "over" <=> pc = "EXIT"
      /\ Stage \in {"idle", "trying", "up", "over"}
  BY DEF Stage, Up
<1>3. /\ Stage' = "idle" <=> pc' \in {"START", "R_INIT", "D_CONNECT"}
      /\ Stage' = "up" <=> pc' \in Up
      /\ Stage' = "over" <=> pc' = "EXIT"
      /\ Stage' \in {"idle", "trying", "up", "over"}
  BY DEF Stage, Up
<1> HIDE DEF Stage
<1> USE DEF Up
<1>4. CASE pc' = "EXIT"
  <2>1. CASE pc \in {"START", "R_INIT"} /\ tries' = tries
    BY <1>1, <1>2, <1>3, <1>4, <2>1 DEF Strategy!Next, Strategy!GiveUp
  <2>2. CASE pc = "R_INIT" /\ tries' = Append(tries, "relay")
    <3>1. Strategy!Planned(tries') /\ tries' # <<>> /\ tries'[Len(tries')] = "relay"
      BY <2>2, Tried DEF Paths
    <3>2. Strategy!Try("relay")
      BY <1>1, <1>2, <1>3, <1>4, <2>2, <3>1 DEF Strategy!Try, Strategy!MayEnd
    <3> QED BY <3>2 DEF Strategy!Next
  <2>3. CASE pc \in RelayPcs \ {"R_INIT"} /\ tries' = tries
    <3>1. Strategy!MayEnd(tries)
      BY <2>3, LastPath DEF Strategy!MayEnd
    <3> QED BY <1>1, <1>2, <1>3, <1>4, <2>3, <3>1 DEF Strategy!Next, Strategy!Lose
  <2>4. CASE pc = "D_CONNECT" /\ mode = "direct_only" /\ tries' = Append(tries, "direct")
    <3>1. Strategy!Planned(tries')
      BY <2>4, Tried DEF Paths
    <3>2. Strategy!Try("direct")
      BY <1>1, <1>2, <1>3, <1>4, <2>4, <3>1 DEF Strategy!Try, Strategy!MayEnd
    <3> QED BY <3>2 DEF Strategy!Next
  <2>5. CASE pc \in DirectPcs \ {"D_CONNECT"} /\ mode = "direct_only" /\ tries' = tries
    BY <1>1, <1>2, <1>3, <1>4, <2>5 DEF Strategy!Next, Strategy!Lose, Strategy!MayEnd
  <2> QED BY <1>4, <2>1, <2>2, <2>3, <2>4, <2>5, Ends
<1>5. CASE Stays
  <2>1. tries' = tries /\ {Stage, Stage'} \subseteq {"trying", "up"}
    BY <1>2, <1>3, <1>5 DEF Stays
  <2>2. Stage = "up" => Stage' = "up"
    BY <1>2, <1>3, <1>5, StaysUp DEF Stays
  <2> QED BY <1>1, <2>1, <2>2 DEF Strategy!Next, Strategy!Establish
<1>6. CASE Begins
  BY <1>1, <1>2, <1>3, <1>6 DEF Begins
<1>7. CASE Connects
  <2> PICK path \in Paths : /\ tries' = Append(tries, path)
                            /\ \/ pc = "D_CONNECT" /\ path = "direct" /\ pc' = "D_TOKEN"
                               \/ pc = "R_INIT" /\ path = "relay" /\ pc' = "R_HELLO"
    BY <1>7 DEF Connects, Paths
  <2>1. Strategy!Planned(tries') /\ Stage = "idle" /\ Stage' = "trying"
    BY <1>2, <1>3, Tried
  <2>2. Strategy!Try(path)
    BY <1>1, <2>1 DEF Strategy!Try
  <2> QED BY <2>2 DEF Strategy!Next, Paths
<1>8. CASE FallsBack
  <2>1. mode # "direct_only" /\ pc \in DirectPcs /\ pc' = "R_INIT"
    BY <1>1, <1>8 DEF FallsBack, PathsSoFar
  <2>2. CASE pc = "D_CONNECT"
    <3>1. tries' = Append(tries, "direct") /\ Strategy!Planned(tries')
      BY <1>8, <2>2, Tried DEF FallsBack, Paths
    <3>2. Strategy!Try("direct")
      BY <1>1, <1>2, <1>3, <2>1, <2>2, <3>1 DEF Strategy!Try
    <3> QED BY <3>2 DEF Strategy!Next
  <2>3. CASE pc # "D_CONNECT"
    <3>1. tries' = tries /\ ~Strategy!MayEnd(tries)
      BY <1>8, <2>1, <2>3, LastPath DEF FallsBack, Strategy!MayEnd
    <3> QED BY <1>1, <1>2, <1>3, <2>1, <2>3, <3>1 DEF Strategy!Next, Strategy!Lose
  <2> QED BY <2>2, <2>3
<1>9. CASE GoesDirect
  BY <1>1, <1>2, <1>3, <1>9 DEF GoesDirect, Strategy!Next, Strategy!Lose
<1> QED BY <1>4, <1>5, <1>6, <1>7, <1>8, <1>9, Moves

-----------------------------------------------------------------------------
(* ConnectStrategy, of main.c, tap_run_mode and the direct tries: the paths *)
(* one at a time in the planned order, no end on a failed direct path while *)
(* the relay is allowed, no new path after a lost relay.                    *)
THEOREM KeepsStrategy == Spec => ImplementsStrategy
<1>1. Init => Strategy!Init
  BY DEF Init, Strategy!Init, Strategy!Plans, Modes, Stage
<1>2. Init => PlanSoFar
  BY DEF Init, PlanSoFar, DirectPcs, RelayPcs
<1>3. OInv /\ PlanSoFar /\ [Next]_vars => PlanSoFar'
  BY PlanStep DEF OInv
<1>4. OInv /\ PlanSoFar /\ [Next]_vars => [Strategy!Next]_<<mode, tries, Stage>>
  <2>1. UNCHANGED vars => UNCHANGED <<mode, tries, Stage>>
    BY DEF vars, Stage
  <2> QED BY <2>1, StrategyStep DEF OInv
<1> QED BY <1>1, <1>2, <1>3, <1>4, OrderStart, OrderInductive, PTL
       DEF Spec, ImplementsStrategy, Strategy!StrategySpec, Strategy!avars
=============================================================================
