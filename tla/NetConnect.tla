----------------------------- MODULE NetConnect -----------------------------
(***************************************************************************)
(* One call of net.c: ntap_tcp_connect, ntap_tcp_connect_timeout,          *)
(* ntap_tcp_listen, ntap_tcp_accept, ntap_socket_wait_read, ntap_send_msg  *)
(* or ntap_send_msg_timeout.                                               *)
(*                                                                         *)
(* A name has several addresses, tried one after the other with a socket   *)
(* each; the waits are select calls with a timeout that a signal may       *)
(* interrupt; a message is sent in pieces as the system takes them.  The   *)
(* system, the network and the peer are external: any call of the system   *)
(* may fail, the peer may answer, read or close at any time, or never.     *)
(***************************************************************************)
EXTENDS Integers, Sequences

CONSTANTS
    MaxAddrs,      \* bound: addresses getaddrinfo returns
    Timeouts,      \* the timeouts given, in ticks
    DefaultTicks,  \* what ntap_tcp_connect_timeout takes for 0: 1000 ms
    Forever,       \* NTAP_WAIT_FOREVER
    HeaderSize,    \* NTAP_HDR_SIZE, shortened
    PayloadMax,    \* bound: bytes of a payload
    Chunk,         \* the most one send is given: 32768, shortened
    Room,          \* bytes the system holds for a peer that does not read
    MaxInterrupts, \* bound: signals during the call
    MaxElapsed     \* bound: the history counter of ticks stops here

ASSUME TimeAssumption ==
    /\ Timeouts \subseteq Nat /\ {DefaultTicks, MaxInterrupts} \subseteq Nat \ {0}
    /\ Forever \in Timeouts => Forever > DefaultTicks
ASSUME SizeAssumption ==
    {MaxAddrs, HeaderSize, PayloadMax, Chunk, Room} \subseteq Nat \ {0}

Invalid   == 0       \* NTAP_INVALID_SOCKET
Untouched == -1      \* *out as the caller left it

Openers == {"connect", "connect_timeout", "listen", "accept"}
Senders == {"send", "send_timeout"}
Ops     == Openers \union Senders \union {"wait_read"}

(* Blocking, with FIONBIO or O_NONBLOCK, or blocking with SO_SNDTIMEO. *)
Modes == {"blocking", "nonblocking", "sndtimeo"}

VARIABLES
    call,     \* the arguments, and the platform of the build
    pc,       \* where the call is
    it,       \* the address being tried; 0 before getaddrinfo
    info,     \* the list of addresses: "none", "held" or "freed"
    fd,       \* the local fd
    open,     \* sockets open in the process
    mode,     \* mode of fd
    link,     \* state of fd's connection
    left,     \* ticks until the select in progress times out
    elapsed,  \* history: ticks spent waiting
    intr,     \* history: signals received
    rest,     \* bytes of the current piece still to send
    stream,   \* bytes the system accepted
    room,     \* bytes the system can take now
    out,      \* *out
    err,      \* what err holds: "nothing" or "text"
    rc        \* what the call returned

addrVars == <<it, info>>
sockVars == <<fd, open, mode, link>>
timeVars == <<left, elapsed, intr>>
sendVars == <<rest, stream, room>>
resVars  == <<out, err, rc>>
vars == <<call, pc, addrVars, sockVars, timeVars, sendVars, resVars>>

(* Byte i of the message is i: the header's first, the payload's after it. *)
Header     == [i \in 1 .. HeaderSize |-> i]
Payload(n) == [i \in 1 .. n |-> HeaderSize + i]
Message(n) == Header \o Payload(n)

(* args: out is given and parse_addr takes the address; payload is given and *)
(* the header can be encoded.                                                *)
Calls ==
    [op : Openers, args : {"good", "bad"}, addrs : 1 .. MaxAddrs,
     timeout : Timeouts, size : {0}, mode : {"blocking"}, os : {"posix", "windows"}]
    \union
    [op : Senders \union {"wait_read"}, args : {"good", "bad"}, addrs : {1},
     timeout : Timeouts, size : 0 .. PayloadMax, mode : Modes,
     os : {"posix", "windows"}]

Init ==
    /\ call \in Calls
    /\ pc = "START" /\ it = 0 /\ info = "none"
    /\ IF call.op \in Openers
       THEN fd = Invalid /\ open = {} /\ link = "none"
       ELSE fd = 1 /\ open = {1} /\ link = "up"
    /\ mode = call.mode
    /\ left = 0 /\ elapsed = 0 /\ intr = 0
    /\ rest = <<>> /\ stream = <<>> /\ room \in {0, Room}
    /\ out = Untouched /\ err = "nothing" /\ rc = 0

-----------------------------------------------------------------------------
(* Return and the steps that several functions share. *)
Return(code, told) ==
    /\ pc' = "RETURNED" /\ rc' = code /\ err' = told

(* Fault: the socket of a failed address is forgotten. *)
SocketForget(socks) == socks

(* ntap_socket_close(fd). *)
SocketClose(socks) == socks \ {fd}

(* The address list is freed and the socket handed over. *)
HandOver ==
    /\ info' = "freed" /\ out' = fd /\ Return(0, err)
    /\ UNCHANGED <<call, it, sockVars, timeVars, sendVars>>

(* fd is closed and the next address tried; told: what err holds now. *)
NextAddress(told) ==
    /\ open' = SocketClose(open) /\ fd' = Invalid /\ link' = "none"
    /\ it' = it + 1 /\ pc' = "SOCKET" /\ err' = told
    /\ UNCHANGED <<call, info, mode, timeVars, sendVars, out, rc>>

(* ntap_tcp_connect_timeout takes 0 for one second; select polls with 0. *)
Ticks(op, timeout) ==
    IF op = "connect_timeout" /\ timeout = 0 THEN DefaultTicks ELSE timeout

(* ntap_socket_wait_read knows no Forever. *)
Unlimited == call.timeout = Forever /\ call.op # "wait_read"

StartWait == pc' = "WAIT" /\ left' = Ticks(call.op, call.timeout)

-----------------------------------------------------------------------------
(* Entry of the functions. *)
BadArguments ==
    /\ pc = "START" /\ call.args = "bad" /\ call.op # "wait_read"
    /\ Return(-1, IF call.op = "accept" THEN err ELSE "text")
    /\ UNCHANGED <<call, addrVars, sockVars, timeVars, sendVars, out>>

(* getaddrinfo, after *out is invalidated by ntap_tcp_connect_timeout. *)
Resolve ==
    /\ pc = "START" /\ call.args = "good" /\ call.op \in Openers \ {"accept"}
    /\ out' = IF call.op = "connect_timeout" THEN Invalid ELSE Untouched
    /\ \/ info' = "held" /\ it' = 1 /\ pc' = "SOCKET" /\ UNCHANGED <<rc, err>>
       \/ Return(-1, "text") /\ UNCHANGED addrVars
    /\ UNCHANGED <<call, sockVars, timeVars, sendVars>>

Accept ==
    /\ pc = "START" /\ call.args = "good" /\ call.op = "accept"
    /\ \/ fd' = 1 /\ open' = {1} /\ link' = "up" /\ out' = 1 /\ Return(0, err)
       \/ UNCHANGED <<fd, open, link, out>> /\ Return(-1, "text")
    /\ UNCHANGED <<call, addrVars, mode, timeVars, sendVars>>

StartSend ==
    /\ pc = "START" /\ call.args = "good" /\ call.op \in Senders
    /\ pc' = "SEND" /\ rest' = Header
    /\ UNCHANGED <<call, addrVars, sockVars, timeVars, stream, room, resVars>>

StartWaitRead ==
    /\ pc = "START" /\ call.op = "wait_read" /\ StartWait
    /\ UNCHANGED <<call, addrVars, sockVars, elapsed, intr, sendVars, resVars>>

-----------------------------------------------------------------------------
(* The address loop. *)
OpenSocket ==
    /\ pc = "SOCKET" /\ it <= call.addrs
    /\ fd' = it /\ open' = open \union {it} /\ link' = "none" /\ mode' = "blocking"
    /\ pc' = CASE call.op = "connect_timeout" -> "NONBLOCK"
               [] call.op = "connect"         -> "CONNECT"
               [] call.op = "listen"          -> "BIND"
    /\ UNCHANGED <<call, addrVars, timeVars, sendVars, resVars>>

(* socket() fails: continue, without a text. *)
OpenSocketFails ==
    /\ pc = "SOCKET" /\ it <= call.addrs /\ it' = it + 1
    /\ UNCHANGED <<call, pc, info, sockVars, timeVars, sendVars, resVars>>

(* "connect failed" or "listen failed", by ntap_tcp_connect_timeout only     *)
(* where nothing was written before: either way there is a text.             *)
LastText(told) == IF call.op = "connect_timeout" /\ told # "nothing" THEN told ELSE "text"

OutOfAddresses ==
    /\ pc = "SOCKET" /\ it > call.addrs
    /\ info' = "freed" /\ Return(-1, LastText(err))
    /\ UNCHANGED <<call, it, sockVars, timeVars, sendVars, out>>

SetNonblocking ==
    /\ pc = "NONBLOCK"
    /\ \/ /\ mode' = "nonblocking" /\ pc' = "CONNECT"
          /\ UNCHANGED <<call, addrVars, fd, open, link, timeVars, sendVars, resVars>>
       \/ NextAddress("text")

(* connect on a blocking socket returns when the system has given its answer. *)
ConnectBlocking ==
    /\ pc = "CONNECT" /\ mode = "blocking"
    /\ \/ /\ pc' = "HANDOVER" /\ link' = "up"
          /\ UNCHANGED <<call, addrVars, fd, open, mode, timeVars, sendVars, resVars>>
       \/ NextAddress(err)

(* On a nonblocking one it succeeds, is in progress (EINTR included) or fails. *)
ConnectNonblocking ==
    /\ pc = "CONNECT" /\ mode = "nonblocking"
    /\ \/ /\ link' \in {"up", "connecting"} /\ StartWait
          /\ UNCHANGED <<call, addrVars, fd, open, mode, elapsed, intr, sendVars, resVars>>
       \/ NextAddress("text")

(* net_socket_connect_error. *)
CheckConnect ==
    /\ pc = "CHECK"
    /\ \/ /\ link = "up" /\ pc' = "RESTORE"
          /\ UNCHANGED <<call, addrVars, sockVars, timeVars, sendVars, resVars>>
       \/ NextAddress("text")

SetBlocking ==
    /\ pc = "RESTORE"
    /\ \/ /\ mode' = "blocking" /\ pc' = "HANDOVER"
          /\ UNCHANGED <<call, addrVars, fd, open, link, timeVars, sendVars, resVars>>
       \/ NextAddress("text")

BindListen ==
    /\ pc = "BIND"
    /\ \/ /\ pc' = "HANDOVER" /\ link' = "listening"
          /\ UNCHANGED <<call, addrVars, fd, open, mode, timeVars, sendVars, resVars>>
       \/ NextAddress(err)

Finish == pc = "HANDOVER" /\ HandOver

-----------------------------------------------------------------------------
(* Sending: rest is the header, then the payload. *)
SomeOf(n) == IF n < Chunk THEN n ELSE Chunk

(* Fault: a short send counts as all that was given to it. *)
AfterSendAll(bytes, n) == SubSeq(bytes, SomeOf(Len(bytes)) + 1, Len(bytes))

(* p += n, len -= n. *)
AfterSend(bytes, n) == SubSeq(bytes, n + 1, Len(bytes))

SendSome ==
    /\ pc = "SEND" /\ rest # <<>> /\ link = "up" /\ room > 0
    /\ \E n \in 1 .. SomeOf(Len(rest)) :
        /\ n <= room
        /\ stream' = stream \o SubSeq(rest, 1, n)
        /\ rest' = AfterSend(rest, n) /\ room' = room - n
    /\ UNCHANGED <<call, pc, addrVars, sockVars, timeVars, resVars>>

(* The header is sent, then the payload, if there is one. *)
PieceSent ==
    /\ pc = "SEND" /\ rest = <<>>
    /\ IF call.size > 0 /\ Len(stream) <= HeaderSize
       THEN rest' = Payload(call.size) /\ UNCHANGED <<pc, rc, err>>
       ELSE Return(0, err) /\ UNCHANGED rest
    /\ UNCHANGED <<call, addrVars, sockVars, timeVars, stream, room, out>>

SendFailed ==
    /\ Return(-1, "text")
    /\ UNCHANGED <<call, addrVars, sockVars, timeVars, sendVars, out>>

(* send would block, or ran into SO_SNDTIMEO, which only posix reports as    *)
(* the same error: ntap_send_all gives up, ntap_send_all_timeout waits for   *)
(* room.  A blocking send just waits.                                        *)
SendWouldBlock ==
    /\ pc = "SEND" /\ rest # <<>> /\ room = 0 /\ link = "up" /\ mode # "blocking"
    /\ IF call.op = "send_timeout" /\ (mode = "nonblocking" \/ call.os = "posix")
       THEN StartWait /\ UNCHANGED <<call, addrVars, sockVars, elapsed, intr, sendVars, resVars>>
       ELSE SendFailed

(* A signal while send has not taken anything. *)
SendInterrupted ==
    /\ pc = "SEND" /\ rest # <<>> /\ intr < MaxInterrupts /\ mode # "nonblocking"
    /\ intr' = intr + 1
    /\ IF call.op = "send_timeout"
       THEN StartWait /\ UNCHANGED <<rc, err>>
       ELSE Return(-1, "text") /\ UNCHANGED left
    /\ UNCHANGED <<call, addrVars, sockVars, elapsed, sendVars, out>>

SendFails == pc = "SEND" /\ rest # <<>> /\ link = "lost" /\ SendFailed

-----------------------------------------------------------------------------
(* Waiting: wait_socket_ready and the loop of ntap_socket_wait_read.  A     *)
(* failed connect makes a socket writable on posix; on Windows it is an     *)
(* exception, which this select does not ask for.  room > 0 stands for      *)
(* bytes to read in ntap_socket_wait_read.                                  *)
Ready ==
    IF call.op = "connect_timeout"
    THEN link = "up" \/ (link = "refused" /\ call.os = "posix")
    ELSE room > 0 \/ link = "lost"

WaitReady ==
    /\ pc = "WAIT" /\ Ready
    /\ CASE call.op = "connect_timeout" -> pc' = "CHECK" /\ UNCHANGED <<rc, err>>
         [] call.op = "send_timeout"    -> pc' = "SEND" /\ UNCHANGED <<rc, err>>
         [] OTHER                       -> Return(0, err)
    /\ UNCHANGED <<call, addrVars, sockVars, timeVars, sendVars, out>>

WaitOver(code) ==
    IF call.op = "connect_timeout" THEN NextAddress("text")
    ELSE /\ Return(IF call.op = "wait_read" THEN code ELSE -1, "text")
         /\ UNCHANGED <<call, addrVars, sockVars, timeVars, sendVars, out>>

(* Fault: a send that had to wait too long tries again. *)
RetryAfterTimeout ==
    IF call.op = "send_timeout"
    THEN pc' = "SEND"
         /\ UNCHANGED <<call, addrVars, sockVars, timeVars, sendVars, resVars>>
    ELSE WaitOver(1)

AfterTimeout == WaitOver(1)

WaitTimesOut == pc = "WAIT" /\ ~Ready /\ left = 0 /\ AfterTimeout
WaitFails    == pc = "WAIT" /\ WaitOver(-1)

(* select is called again with the full timeout. *)
WaitInterrupted ==
    /\ pc = "WAIT" /\ intr < MaxInterrupts
    /\ intr' = intr + 1 /\ StartWait
    /\ UNCHANGED <<call, addrVars, sockVars, elapsed, sendVars, resVars>>

Tick ==
    /\ pc = "WAIT" /\ ~Ready /\ left > 0 /\ ~Unlimited
    /\ left' = left - 1
    /\ elapsed' = IF elapsed < MaxElapsed THEN elapsed + 1 ELSE elapsed
    /\ UNCHANGED <<call, pc, addrVars, sockVars, intr, sendVars, resVars>>

-----------------------------------------------------------------------------
(* The peer and the network. *)
Answer ==
    /\ link = "connecting" /\ link' \in {"up", "refused"}
    /\ UNCHANGED <<call, pc, addrVars, fd, open, mode, timeVars, sendVars, resVars>>

PeerMoves ==
    /\ call.op \notin Openers /\ pc # "RETURNED" /\ link = "up"
    /\ \/ room' = Room /\ room # Room /\ UNCHANGED link
       \/ link' = "lost" /\ UNCHANGED room
    /\ UNCHANGED <<call, pc, addrVars, fd, open, mode, timeVars, rest, stream, resVars>>

Step ==
    \/ BadArguments \/ Resolve \/ StartSend \/ StartWaitRead
    \/ OpenSocket \/ OpenSocketFails \/ OutOfAddresses
    \/ SetNonblocking \/ ConnectBlocking \/ ConnectNonblocking
    \/ CheckConnect \/ SetBlocking \/ BindListen \/ Finish
    \/ SendSome \/ PieceSent \/ SendWouldBlock \/ SendFails
    \/ WaitReady \/ WaitTimesOut \/ Tick
Environment ==
    \/ Accept \/ SendInterrupted \/ WaitFails \/ WaitInterrupted
    \/ Answer \/ PeerMoves
Next == Step \/ Environment

Spec == Init /\ [][Next]_vars

(* The thread runs and time passes; the system answers a blocking connect.  *)
(* Nothing is assumed of the peer, nor that the program is left alone.      *)
FairSpec == Spec /\ WF_vars(Step)

-----------------------------------------------------------------------------
Returned == pc = "RETURNED"

(* However the addresses fail, there is never more than one socket in the    *)
(* loop, and when the call is over either *out is the one socket that is     *)
(* open, connected (or listening) and blocking again, or none is open, every *)
(* address was tried and err says something; the address list is freed.      *)
OneSocket ==
    /\ open \subseteq {fd} \ {Invalid}
    /\ Returned => info # "held"
    /\ Returned /\ call.op \in Openers =>
         \/ rc = 0 /\ open = {out} /\ link \in {"up", "listening"} /\ mode = "blocking"
         \/ /\ rc = -1 /\ open = {} /\ out \in {Untouched, Invalid}
            /\ err # "nothing" \/ (call.op = "accept" /\ call.args = "bad")
            /\ it = 0 \/ it = call.addrs + 1

(* What the system accepted is always a beginning of the message, whatever   *)
(* short sends, signals and stalls there were, and a send reports success    *)
(* exactly when it accepted all of it.                                       *)
SendsInOrder ==
    call.op \in Senders =>
        /\ stream = SubSeq(Message(call.size), 1, Len(stream))
        /\ Returned => (rc = 0 <=> stream = Message(call.size))

(* No call waits longer than its timeout, once for every address it tried or *)
(* byte it got through and once more for every signal.                       *)
TimeBounded ==
    ~Unlimited =>
        elapsed <= Ticks(call.op, call.timeout)
                     * (1 + intr + (IF call.op \in Senders THEN Len(stream)
                                    ELSE IF it > 0 THEN it - 1 ELSE 0))

(* A call with a timeout, and a connect that the system answers, return even *)
(* if the peer never answers or reads; as long as the signals come to an end *)
(* (MaxInterrupts), for each of them makes a wait start over.                *)
Bounded ==
    \/ call.op \in {"connect", "listen"}
    \/ call.op = "send_timeout" /\ ~Unlimited /\ mode # "blocking"
    \/ call.op \in {"connect_timeout", "wait_read"} /\ ~Unlimited
CallsReturn == Bounded ~> Returned
=============================================================================
