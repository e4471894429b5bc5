----------------------------- MODULE TapClient -----------------------------
(***************************************************************************)
(* `ntap-c run`: how the command line client chooses, tries and gives up   *)
(* the paths that can carry its TAP traffic (main.c, tap_client.c).        *)
(*                                                                         *)
(* The client is one thread.  It tries a relay path (TCP to the server,    *)
(* HELLO, AUTH_TAP, CONFIG_PUSH) and up to two direct paths (TCP to a      *)
(* peer, a token line): one that the command line names, one that the      *)
(* server's CONFIG_PUSH names.  Each call that can fail, and each message  *)
(* that a peer may or may not send, is a step.  The peers answer with any  *)
(* message of Msgs at any time: only what the client does with the answer  *)
(* is the client's.  The frame loops are kept to what decides whether a    *)
(* frame is carried or the loop ends; LinuxPump and WinTapPump have their  *)
(* detail.                                                                 *)
(***************************************************************************)
EXTENDS Integers, Sequences

CONSTANTS
    Networks,   \* the network ids that peers may speak of, 0 excluded
    MaxLog      \* bound: messages the client sends on one connection

ASSUME NetworksAssumption == Networks \subseteq Nat \ {0}
ASSUME MaxLogAssumption == MaxLog \in Nat

NetIds   == Networks \union {0}          \* 0: "no network" in every field
MaxTries == 4                            \* direct, relay, direct, relay
Conns    == 1 .. MaxTries                \* a connection is named by its try
Modes    == {"plain", "direct_only", "direct_first"}

(* What ntap_recv_msg can hand over.  `direct` holds when direct_mode is    *)
(* "direct_first" and neither direct_addr nor direct_token is empty; BAD is *)
(* every other message, one that does not decode, and a broken connection.  *)
Hello      == [type : {"HELLO"}, server : BOOLEAN]
AuthOk     == [type : {"AUTH_OK"}, net : NetIds]
ConfigPush == [type : {"CONFIG_PUSH"}, net : NetIds,
               tapEnabled : BOOLEAN, direct : BOOLEAN]
TapFrame   == [type : {"TAP_FRAME"}, net : NetIds]
Others     == [type : {"AUTH_FAIL", "PONG", "BAD"}]
Msgs       == Hello \union AuthOk \union ConfigPush \union TapFrame \union Others

Paths      == {"direct", "relay"}
Sendable   == {"HELLO", "AUTH_TAP", "PING", "TAP_FRAME", "TOKEN"}

VARIABLES
    mode,     \* the options of `run`
    cfgNet,   \* client.network_id of the configuration file
    pc,       \* the call the thread is about to make or is blocked in
    allow,    \* allow_config_direct of the active tap_run_mode
    site,     \* who called run_direct_tap_connect: "cli" or "cfg"
    netId,    \* the network_id of the active loop (auth_ok's or the argument)
    wsa,      \* ntap_net_init calls not yet undone by ntap_net_cleanup
    fd,       \* the connection the local `fd` names, 0: NTAP_INVALID_SOCKET
    tap,      \* whether the TAP device is open
    rc,       \* the exit code, once pc = "EXIT"
    sockets,  \* history: the sockets the process holds
    tries,    \* history: the paths tried, one per ntap_tcp_connect
    sent,     \* history: what was sent on each connection
    heard,    \* history: what was received in each connection's handshake
    written   \* history: the frames written to the TAP, with their connection

locals  == <<mode, cfgNet, allow, site, netId>>
history == <<sockets, tries, sent, heard, written>>
vars    == <<mode, cfgNet, pc, allow, site, netId, wsa, fd, tap, rc,
             sockets, tries, sent, heard, written>>

DirectPcs == {"D_CONNECT", "D_TOKEN", "D_OPEN", "D_LOOP"}
RelayPcs  == {"R_INIT", "R_HELLO", "R_HELLO_WAIT", "R_AUTH", "R_AUTH_WAIT",
              "R_CONFIG_WAIT", "R_OPEN", "R_PING", "R_LOOP"}
Pcs       == {"START", "EXIT"} \union DirectPcs \union RelayPcs

Init ==
    /\ mode \in Modes
    /\ cfgNet \in NetIds
    /\ pc = "START"
    /\ allow = TRUE /\ site = "cli" /\ netId = 0
    /\ wsa = 0 /\ fd = 0 /\ tap = "closed" /\ rc = 0
    /\ sockets = {} /\ tries = <<>>
    /\ sent  = [c \in Conns |-> <<>>]
    /\ heard = [c \in Conns |-> <<>>]
    /\ written = {}

-----------------------------------------------------------------------------
(* net.c: WSACleanup without a matching WSAStartup fails and changes nothing *)
NetCleanup(n) == IF n > 0 THEN n - 1 ELSE 0

SocketClose(open, s) == open \ {s}

Send(what) ==
    sent' = [sent EXCEPT ![fd] = Append(@, what)]

Receive(m) ==
    heard' = [heard EXCEPT ![fd] = Append(@, m)]

(* A successful ntap_tcp_connect: the new socket is the connection's number. *)
Connected(path, next) ==
    /\ tries' = Append(tries, path)
    /\ fd' = Len(tries')
    /\ sockets' = sockets \union {fd'}
    /\ pc' = next

Exit(code) ==
    /\ pc' = "EXIT"
    /\ rc' = code

(* The `done:` label of tap_run_mode. *)
RelayDone(code) ==
    /\ sockets' = SocketClose(sockets, fd)
    /\ fd' = 0
    /\ wsa' = NetCleanup(wsa)
    /\ tap' = "closed"
    /\ Exit(code)

(* tap_run_mode(cfg, allowDirect) is called. *)
TapRunMode(allowDirect) ==
    /\ pc' = "R_INIT"
    /\ allow' = allowDirect
    /\ UNCHANGED rc

(* The caller has no other path, or the direct one ended well. *)
EndsRun(code) == code = 0 \/ (site = "cli" /\ mode = "direct_only")

(* Fault: the second tap_run_mode is given allow_config_direct too. *)
AfterDirectKeepsAllow(code) ==
    \/ EndsRun(code) /\ Exit(code) /\ UNCHANGED allow
    \/ ~EndsRun(code) /\ TapRunMode(TRUE)

(* Fault: a direct try of the command line is the last one. *)
AfterDirectGivesUp(code) ==
    \/ (EndsRun(code) \/ site = "cli") /\ Exit(code) /\ UNCHANGED allow
    \/ ~EndsRun(code) /\ site = "cfg" /\ TapRunMode(FALSE)

(* What main, and tap_run_mode, do with the value a direct try returned. *)
AfterDirect(code) ==
    \/ EndsRun(code) /\ Exit(code) /\ UNCHANGED allow
    \/ ~EndsRun(code) /\ site = "cli" /\ TapRunMode(TRUE)
    \/ ~EndsRun(code) /\ site = "cfg" /\ TapRunMode(FALSE)

(* run_direct_tap_connect closes its socket (its label `done:`), its caller  *)
(* calls ntap_net_cleanup and looks at the code.                             *)
DirectDone(code) ==
    /\ sockets' = SocketClose(sockets, fd)
    /\ fd' = 0
    /\ wsa' = NetCleanup(wsa)
    /\ tap' = "closed"
    /\ AfterDirect(code)

-----------------------------------------------------------------------------
(* main.c: the path that the options select. *)
StartRelay ==
    /\ pc = "START" /\ mode = "plain"
    /\ TapRunMode(TRUE)
    /\ UNCHANGED <<mode, cfgNet, site, netId, wsa, fd, tap, history>>

(* ntap_c_direct_tap_run up to run_direct_tap_connect. *)
StartDirect ==
    /\ pc = "START" /\ mode # "plain" /\ cfgNet # 0
    /\ wsa' = wsa + 1
    /\ netId' = cfgNet /\ site' = "cli"
    /\ pc' = "D_CONNECT"
    /\ UNCHANGED <<mode, cfgNet, allow, fd, tap, rc, history>>

(* Fault: the direct try is started again instead of the relay. *)
StartDirectRetries ==
    /\ pc = "START" /\ mode # "plain"
    /\ UNCHANGED vars

(* client.network_id is 0, or ntap_net_init fails. *)
StartDirectFails ==
    /\ pc = "START" /\ mode # "plain"
    /\ wsa' = NetCleanup(wsa)
    /\ AfterDirect(1)
    /\ UNCHANGED <<mode, cfgNet, site, netId, fd, tap, history>>

(* run_direct_tap_connect *)
DirectConnect ==
    /\ pc = "D_CONNECT"
    /\ Connected("direct", "D_TOKEN")
    /\ UNCHANGED <<locals, wsa, tap, rc, sent, heard, written>>

DirectConnectFails ==
    /\ pc = "D_CONNECT"
    /\ tries' = Append(tries, "direct")
    /\ DirectDone(1)
    /\ UNCHANGED <<mode, cfgNet, site, netId, sent, heard, written>>

SendToken ==
    /\ pc = "D_TOKEN"
    /\ Send("TOKEN")
    /\ pc' = "D_OPEN"
    /\ UNCHANGED <<locals, wsa, fd, tap, rc, sockets, tries, heard, written>>

SendTokenFails ==
    /\ pc = "D_TOKEN"
    /\ DirectDone(1)
    /\ UNCHANGED <<mode, cfgNet, site, netId, tries, sent, heard, written>>

(* ntap_tap_open at the head of run_direct_tap_loop. *)
DirectTapOpen ==
    /\ pc = "D_OPEN"
    /\ tap' = "open"
    /\ pc' = "D_LOOP"
    /\ UNCHANGED <<locals, wsa, fd, rc, history>>

(* Any failing call of run_direct_tap_loop: it has no other way to return. *)
DirectLoopFails ==
    /\ pc \in {"D_OPEN", "D_LOOP"}
    /\ DirectDone(-1)
    /\ UNCHANGED <<mode, cfgNet, site, netId, tries, sent, heard, written>>

DirectLoopSend ==
    /\ pc = "D_LOOP" /\ Len(sent[fd]) < MaxLog
    /\ Send("TAP_FRAME")
    /\ UNCHANGED <<locals, pc, wsa, fd, tap, rc, sockets, tries, heard, written>>

(* The direct loop carries the frames of its network... *)
DirectLoopRecv(m) ==
    /\ pc = "D_LOOP" /\ m.type = "TAP_FRAME" /\ m.net = netId
    /\ written' = written \union {[conn |-> fd, net |-> m.net]}
    /\ UNCHANGED <<locals, pc, wsa, fd, tap, rc, sockets, tries, sent, heard>>

(* ... and takes every other message for an error, PONG included. *)
DirectLoopReject(m) ==
    /\ pc = "D_LOOP" /\ (m.type = "TAP_FRAME" => m.net # netId)
    /\ DirectDone(-1)
    /\ UNCHANGED <<mode, cfgNet, site, netId, tries, sent, heard, written>>

-----------------------------------------------------------------------------
(* tap_run_mode *)
RelayConnect ==
    /\ pc = "R_INIT"
    /\ wsa' = wsa + 1
    /\ Connected("relay", "R_HELLO")
    /\ UNCHANGED <<locals, tap, rc, sent, heard, written>>

(* ntap_tcp_connect fails, after a successful ntap_net_init. *)
RelayConnectFails ==
    /\ pc = "R_INIT"
    /\ tries' = Append(tries, "relay")
    /\ wsa' = NetCleanup(wsa + 1)
    /\ Exit(1)
    /\ UNCHANGED <<locals, fd, tap, sockets, sent, heard, written>>

(* ntap_net_init fails: ntap_net_cleanup is called all the same. *)
RelayInitFails ==
    /\ pc = "R_INIT"
    /\ wsa' = NetCleanup(wsa)
    /\ Exit(1)
    /\ UNCHANGED <<locals, fd, tap, history>>

SendHello ==
    /\ pc = "R_HELLO"
    /\ Send("HELLO")
    /\ pc' = "R_HELLO_WAIT"
    /\ UNCHANGED <<locals, wsa, fd, tap, rc, sockets, tries, heard, written>>

(* The nonce, an encoding or the send of a handshake message fails. *)
HandshakeSendFails ==
    /\ pc \in {"R_HELLO", "R_AUTH"}
    /\ RelayDone(1)
    /\ UNCHANGED <<locals, tries, sent, heard, written>>

IsServerHello(m) == m.type = "HELLO" /\ m.server

(* Fault: the role of the HELLO is not looked at. *)
RecvHelloAnyRole(m) ==
    /\ pc = "R_HELLO_WAIT" /\ m.type = "HELLO"
    /\ Receive(m)
    /\ pc' = "R_AUTH"
    /\ UNCHANGED <<locals, wsa, fd, tap, rc, sockets, tries, sent, written>>

RecvHello(m) ==
    /\ pc = "R_HELLO_WAIT" /\ IsServerHello(m)
    /\ Receive(m)
    /\ pc' = "R_AUTH"
    /\ UNCHANGED <<locals, wsa, fd, tap, rc, sockets, tries, sent, written>>

RecvHelloInvalid(m) ==
    /\ pc = "R_HELLO_WAIT" /\ ~IsServerHello(m)
    /\ Receive(m)
    /\ RelayDone(1)
    /\ UNCHANGED <<locals, tries, sent, written>>

SendAuth ==
    /\ pc = "R_AUTH"
    /\ Send("AUTH_TAP")
    /\ pc' = "R_AUTH_WAIT"
    /\ UNCHANGED <<locals, wsa, fd, tap, rc, sockets, tries, heard, written>>

RecvAuthOk(m) ==
    /\ pc = "R_AUTH_WAIT" /\ m.type = "AUTH_OK"
    /\ Receive(m)
    /\ netId' = m.net
    /\ pc' = "R_CONFIG_WAIT"
    /\ UNCHANGED <<mode, cfgNet, allow, site, wsa, fd, tap, rc, sockets, tries,
                   sent, written>>

(* Fault: a refusal is reported like any other bad answer. *)
RecvAuthOtherNoCode(m) ==
    /\ pc = "R_AUTH_WAIT" /\ m.type # "AUTH_OK"
    /\ Receive(m)
    /\ RelayDone(1)
    /\ UNCHANGED <<locals, tries, sent, written>>

RecvAuthOther(m) ==
    /\ pc = "R_AUTH_WAIT" /\ m.type # "AUTH_OK"
    /\ Receive(m)
    /\ RelayDone(IF m.type = "AUTH_FAIL" THEN 3 ELSE 1)
    /\ UNCHANGED <<locals, tries, sent, written>>

(* ntap_decode_config_push refuses network 0. *)
ValidConfig(m) ==
    /\ m.type = "CONFIG_PUSH"
    /\ m.net # 0
    /\ m.net = netId
    /\ m.tapEnabled

RecvConfigInvalid(m) ==
    /\ pc = "R_CONFIG_WAIT" /\ ~ValidConfig(m)
    /\ Receive(m)
    /\ RelayDone(1)
    /\ UNCHANGED <<locals, tries, sent, written>>

(* Fault: allow_config_direct is not looked at. *)
UseDirectAlways(m) == m.direct

UseDirect(m) == allow /\ m.direct

RecvConfigRelay(m) ==
    /\ pc = "R_CONFIG_WAIT" /\ ValidConfig(m) /\ ~UseDirect(m)
    /\ Receive(m)
    /\ pc' = "R_OPEN"
    /\ UNCHANGED <<locals, wsa, fd, tap, rc, sockets, tries, sent, written>>

(* Fault: the relay's socket is not closed before the direct try. *)
RecvConfigDirectLeaks(m) ==
    /\ pc = "R_CONFIG_WAIT" /\ ValidConfig(m) /\ UseDirect(m)
    /\ Receive(m)
    /\ fd' = 0
    /\ wsa' = NetCleanup(wsa) + 1
    /\ site' = "cfg"
    /\ pc' = "D_CONNECT"
    /\ UNCHANGED <<mode, cfgNet, allow, netId, tap, rc, sockets, tries, sent, written>>

(* direct_first: the relay is closed and the network restarted before the  *)
(* direct try.                                                             *)
RecvConfigDirect(m) ==
    /\ pc = "R_CONFIG_WAIT" /\ ValidConfig(m) /\ UseDirect(m)
    /\ Receive(m)
    /\ sockets' = SocketClose(sockets, fd)
    /\ fd' = 0
    /\ wsa' = NetCleanup(wsa) + 1
    /\ site' = "cfg"
    /\ pc' = "D_CONNECT"
    /\ UNCHANGED <<mode, cfgNet, allow, netId, tap, rc, tries, sent, written>>

(* The same, but ntap_net_init fails: the relay is tried again at once. *)
RecvConfigNoDirect(m) ==
    /\ pc = "R_CONFIG_WAIT" /\ ValidConfig(m) /\ UseDirect(m)
    /\ Receive(m)
    /\ sockets' = SocketClose(sockets, fd)
    /\ fd' = 0
    /\ wsa' = NetCleanup(wsa)
    /\ TapRunMode(FALSE)
    /\ UNCHANGED <<mode, cfgNet, site, netId, tap, tries, sent, written>>

(* run_tap_loop: ntap_tap_open, then a first PING. *)
RelayTapOpen ==
    /\ pc = "R_OPEN"
    /\ tap' = "open"
    /\ pc' = "R_PING"
    /\ UNCHANGED <<locals, wsa, fd, rc, history>>

(* The first PING, or one after a second without traffic. *)
SendPing ==
    /\ \/ pc = "R_PING"
       \/ pc = "R_LOOP" /\ Len(sent[fd]) < MaxLog
    /\ Send("PING")
    /\ pc' = "R_LOOP"
    /\ UNCHANGED <<locals, wsa, fd, tap, rc, sockets, tries, heard, written>>

RelayLoopSend ==
    /\ pc = "R_LOOP" /\ Len(sent[fd]) < MaxLog
    /\ Send("TAP_FRAME")
    /\ UNCHANGED <<locals, pc, wsa, fd, tap, rc, sockets, tries, heard, written>>

(* Fault: the network of a relayed frame is not compared. *)
RelayLoopRecvAny(m) ==
    /\ pc = "R_LOOP" /\ m.type = "TAP_FRAME"
    /\ written' = written \union {[conn |-> fd, net |-> m.net]}
    /\ UNCHANGED <<locals, pc, wsa, fd, tap, rc, sockets, tries, sent, heard>>

(* A PONG changes nothing; a frame of the network goes to the TAP. *)
RelayLoopRecv(m) ==
    /\ pc = "R_LOOP" /\ m.type = "TAP_FRAME" /\ m.net = netId
    /\ written' = written \union {[conn |-> fd, net |-> m.net]}
    /\ UNCHANGED <<locals, pc, wsa, fd, tap, rc, sockets, tries, sent, heard>>

RelayLoopReject(m) ==
    /\ pc = "R_LOOP" /\ m.type # "PONG" /\ (m.type = "TAP_FRAME" => m.net # netId)
    /\ RelayDone(-1)
    /\ UNCHANGED <<locals, tries, sent, heard, written>>

(* Any failing call of run_tap_loop. *)
RelayLoopFails ==
    /\ pc \in {"R_OPEN", "R_PING", "R_LOOP"}
    /\ RelayDone(-1)
    /\ UNCHANGED <<locals, tries, sent, heard, written>>

-----------------------------------------------------------------------------
Direct ==
    \/ StartDirect \/ StartDirectFails
    \/ DirectConnect \/ DirectConnectFails
    \/ SendToken \/ SendTokenFails
    \/ DirectTapOpen \/ DirectLoopFails \/ DirectLoopSend
    \/ \E m \in Msgs : DirectLoopRecv(m) \/ DirectLoopReject(m)

Handshake ==
    \/ StartRelay \/ RelayConnect \/ RelayConnectFails \/ RelayInitFails
    \/ SendHello \/ SendAuth \/ HandshakeSendFails
    \/ \E m \in Msgs :
         \/ RecvHello(m) \/ RecvHelloInvalid(m)
         \/ RecvAuthOk(m) \/ RecvAuthOther(m)
         \/ RecvConfigInvalid(m) \/ RecvConfigRelay(m)
         \/ RecvConfigDirect(m) \/ RecvConfigNoDirect(m)

Relay ==
    \/ RelayTapOpen \/ SendPing \/ RelayLoopSend \/ RelayLoopFails
    \/ \E m \in Msgs : RelayLoopRecv(m) \/ RelayLoopReject(m)

Next == Direct \/ Handshake \/ Relay

(* The calls that return whatever the peers do: the scheduler runs the      *)
(* thread, connect() has a timeout of the system, a short send to a fresh   *)
(* connection fits its buffer.  Nothing is assumed of the peers' answers    *)
(* (no receive is fair) nor of how long a loop lives.                       *)
ClientCalls ==
    \/ StartRelay \/ StartDirect \/ StartDirectFails
    \/ DirectConnect \/ DirectConnectFails
    \/ SendToken \/ SendTokenFails \/ DirectTapOpen
    \/ RelayConnect \/ RelayConnectFails \/ RelayInitFails
    \/ SendHello \/ SendAuth \/ HandshakeSendFails \/ RelayTapOpen
    \/ pc = "R_PING" /\ SendPing

Spec == Init /\ [][Next]_vars
FairSpec == Spec /\ WF_vars(ClientCalls)

-----------------------------------------------------------------------------
(* Every variable keeps its range; at most MaxTries connections are tried,  *)
(* each with a handshake of at most three answers.                          *)
TypeOK ==
    /\ mode \in Modes /\ cfgNet \in NetIds /\ pc \in Pcs
    /\ allow \in BOOLEAN /\ site \in {"cli", "cfg"} /\ netId \in NetIds
    /\ wsa \in {0, 1} /\ fd \in Conns \union {0} /\ tap \in {"open", "closed"}
    /\ rc \in {-1, 0, 1, 3}
    /\ sockets \subseteq Conns
    /\ tries \in Seq(Paths) /\ Len(tries) <= MaxTries
    /\ sent \in [Conns -> Seq(Sendable)]
    /\ heard \in [Conns -> Seq(Msgs)]
    /\ written \subseteq [conn : Conns, net : NetIds]

(* tap_run_mode gives the socket and the network library back before it     *)
(* tries a direct path and before it calls itself again, so the process     *)
(* never holds a socket that no variable names, never uses one outside      *)
(* ntap_net_init..ntap_net_cleanup, never keeps the TAP open without one,   *)
(* and holds nothing when it ends, whichever path failed where.             *)
ResourcesOwned ==
    /\ sockets = {fd} \ {0}
    /\ sockets # {} => wsa = 1
    /\ tap = "open" => sockets # {}
    /\ pc = "EXIT" => sockets = {} /\ wsa = 0 /\ tap = "closed"

(* Relay connection c was granted network n: its own server HELLO, AUTH_OK  *)
(* and CONFIG_PUSH, in this order, agree on it.                             *)
Granted(c, n) ==
    /\ Len(heard[c]) = 3
    /\ IsServerHello(heard[c][1])
    /\ heard[c][2].type = "AUTH_OK" /\ heard[c][2].net = n
    /\ heard[c][3].type = "CONFIG_PUSH" /\ heard[c][3].net = n
    /\ heard[c][3].tapEnabled
    /\ n # 0

(* Relay connection c named a direct path for network n. *)
HandedOut(c, n) == Granted(c, n) /\ heard[c][3].direct

MayCarry(c, n) ==
    IF tries[c] = "relay" THEN Granted(c, n)
    ELSE IF c = 1 THEN n = cfgNet /\ n # 0
    ELSE tries[c - 1] = "relay" /\ HandedOut(c - 1, n)

(* A frame that reaches the TAP belongs to the network that was granted to  *)
(* the connection it came on: after a fallback, that of the new handshake   *)
(* and never the one of the relay or direct path given up before it.        *)
FramesAuthorised == \A w \in written : MayCarry(w.conn, w.net)

(* Whether `what` may be the i-th message sent on connection c. *)
MayBeSent(c, i, what) ==
    IF tries[c] = "direct" THEN what = (IF i = 1 THEN "TOKEN" ELSE "TAP_FRAME")
    ELSE CASE i = 1 -> what = "HELLO"
           [] i = 2 -> /\ what = "AUTH_TAP"
                       /\ Len(heard[c]) > 0 /\ IsServerHello(heard[c][1])
           [] i = 3 -> what = "PING" /\ \E n \in Networks : Granted(c, n)
           [] OTHER -> what \in {"PING", "TAP_FRAME"}

(* Nothing is sent before what the protocol wants first: AUTH_TAP only to a *)
(* peer that said it is a server, PING and frames only on a connection that *)
(* may carry them, and on a direct connection the token and then frames.    *)
WireOrder ==
    \A c \in 1 .. Len(tries) : \A i \in 1 .. Len(sent[c]) :
        MayBeSent(c, i, sent[c][i])

(* A direct path is tried only when the options or the connection just      *)
(* before it named one; the relay is tried again only because the first     *)
(* relay named a direct path, and nothing is tried after that.              *)
PathOrder ==
    \A i \in 1 .. Len(tries) :
        /\ tries[i] = "direct" =>
             \/ i = 1 /\ mode # "plain"
             \/ i > 1 /\ tries[i - 1] = "relay" /\ \E n \in Networks : HandedOut(i - 1, n)
        /\ tries[i] = "relay" =>
             /\ mode # "direct_only"
             /\ \A j \in 1 .. (i - 1) : tries[j] = "relay" =>
                  i = Len(tries) /\ \E n \in Networks : HandedOut(j, n)

(* The exit code: `run` never reports success, reports 3 exactly when the   *)
(* last handshake ended in AUTH_FAIL (a refusal met before a fallback does  *)
(* not count), and -1 only when the last path got as far as its TAP.        *)
Refused(c) == tries[c] = "relay" /\ Len(heard[c]) = 2 /\ heard[c][2].type = "AUTH_FAIL"
ExitCode ==
    pc = "EXIT" =>
        /\ rc # 0
        /\ rc = 3 <=> (tries # <<>> /\ Refused(Len(tries)))
        /\ rc = -1 => /\ tries # <<>>
                      /\ \E n \in Networks : MayCarry(Len(tries), n)

(* A direct path that does not come up is always followed by a relay try    *)
(* when the options allow one: no failure on the way (network, connect,     *)
(* token, TAP) leaves the client between the two paths.                     *)
DirectFallsBack ==
    mode # "direct_only" /\ pc \in {"START"} \union (DirectPcs \ {"D_LOOP"})
        ~> pc \in {"D_LOOP", "R_INIT"}

(* The run implements ConnectStrategy: paths one at a time in the planned   *)
(* order, no end on a failed direct path, no new path after a lost relay.   *)
Stage ==
    CASE pc \in {"START", "R_INIT", "D_CONNECT"} -> "idle"
      [] pc \in {"D_LOOP", "R_PING", "R_LOOP"}   -> "up"
      [] pc = "EXIT"                             -> "over"
      [] OTHER                                   -> "trying"
Strategy == INSTANCE ConnectStrategy WITH stage <- Stage
ImplementsStrategy == Strategy!StrategySpec
=============================================================================
