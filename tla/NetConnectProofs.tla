-------------------------- MODULE NetConnectProofs --------------------------
(***************************************************************************)
(* Proofs about NetConnect, for every number of addresses, every timeout   *)
(* and every size of header, payload, piece and system buffer.             *)
(***************************************************************************)
EXTENDS NetConnect, TLAPS

Places == {"START", "SOCKET", "NONBLOCK", "CONNECT", "CHECK", "RESTORE", "BIND",
           "HANDOVER", "SEND", "WAIT", "RETURNED"}

Names ==
    /\ call \in Calls /\ pc \in Places
    /\ info \in {"none", "held", "freed"} /\ mode \in Modes
    /\ link \in {"none", "connecting", "up", "refused", "lost", "listening"}
    /\ err \in {"nothing", "text"}
Numbers ==
    /\ it \in Nat /\ left \in Nat /\ elapsed \in Nat /\ intr \in Nat
    /\ room \in Nat /\ rc \in Int
    /\ rest \in Seq(Nat) /\ stream \in Seq(Nat)
Types == Names /\ Numbers

(* Where a function that opens sockets has one, and where it may be.  A      *)
(* socket on which connect_timeout waits is not handed over before it is     *)
(* connected and blocking.                                                   *)
Trying == {"NONBLOCK", "CONNECT", "CHECK", "RESTORE", "BIND", "HANDOVER", "WAIT"}

Holding ==
    /\ pc # "SEND"
    /\ pc = "START" => it = 0 /\ info = "none" /\ open = {} /\ out = Untouched
    /\ pc = "SOCKET" => it \in 1 .. call.addrs + 1 /\ info = "held" /\ open = {}
    /\ pc \in Trying => it \in 1 .. call.addrs /\ info = "held" /\ fd = it /\ open = {it}
    /\ pc \in Trying \union {"SOCKET"} => out \in {Untouched, Invalid}
Connecting ==
    /\ pc = "START" => mode = "blocking"
    /\ pc \in Trying \union {"SOCKET"} => call.op # "accept"
    /\ pc \in {"NONBLOCK", "CHECK", "RESTORE", "WAIT"} => call.op = "connect_timeout"
    /\ pc = "CONNECT" =>
         \/ call.op = "connect" /\ mode = "blocking"
         \/ call.op = "connect_timeout" /\ mode = "nonblocking"
    /\ pc = "BIND" => mode = "blocking"
    /\ pc = "RESTORE" => link = "up"
    /\ pc = "HANDOVER" => link \in {"up", "listening"} /\ mode = "blocking"
Opening == call.op \in Openers => Holding /\ Connecting

(* The others get their socket from the caller, and leave it open. *)
Given ==
    call.op \notin Openers =>
        /\ pc \in {"START", "SEND", "WAIT", "RETURNED"} /\ link \in {"up", "lost"}
        /\ info = "none" /\ fd = 1 /\ open = {1}
        /\ pc = "SEND" => call.op \in Senders
        /\ pc = "WAIT" => call.op \in {"send_timeout", "wait_read"}

(* The bytes accepted and those of the current piece that are left are the  *)
(* numbers from 1 on, up to the end of the header or of the message.        *)
Sending ==
    call.op \in Senders =>
        /\ \A i \in 1 .. Len(stream) : stream[i] = i
        /\ pc = "START" => stream = <<>>
        /\ pc \in {"SEND", "WAIT"} =>
             /\ \A i \in 1 .. Len(rest) : rest[i] = Len(stream) + i
             /\ \/ Len(stream) + Len(rest) = HeaderSize
                \/ /\ Len(stream) + Len(rest) = HeaderSize + call.size
                   /\ Len(stream) >= HeaderSize
        /\ pc = "WAIT" => rest # <<>>
        /\ Returned =>
             /\ Len(stream) <= HeaderSize + call.size
             /\ rc = 0 <=> Len(stream) = HeaderSize + call.size

(* TimeBounded with the rest of the running wait counted in, and one timeout *)
(* less where the next wait begins.  A send that has waited for room finds   *)
(* some, or a lost connection: it waits again only after it got through.     *)
Full  == Ticks(call.op, call.timeout)
Units == intr + (IF call.op \in Senders THEN Len(stream) ELSE IF it > 0 THEN it - 1 ELSE 0)
Paid  == Full * Units

Timing ==
    ~Unlimited =>
        /\ elapsed <= Paid + Full
        /\ pc = "START" => elapsed = 0
        /\ pc = "WAIT" => elapsed + left <= Paid + Full
        /\ pc \in {"SOCKET", "NONBLOCK", "CONNECT"} => elapsed <= Paid
        /\ pc = "SEND" /\ room = 0 /\ link = "up" => elapsed <= Paid

IInv == Types /\ Opening /\ Given /\ Sending /\ Timing /\ OneSocket

-----------------------------------------------------------------------------
(* What the arguments of a call are. *)
LEMMA CallLemma ==
    ASSUME call \in Calls
    PROVE  /\ call.op \in Ops
           /\ call.addrs \in Nat \ {0} /\ call.size \in Nat /\ call.timeout \in Nat
           /\ Full \in Nat /\ call.mode \in Modes
           /\ call.op \in Openers => call.size = 0 /\ call.mode = "blocking"
<1>0. /\ Timeouts \subseteq Nat /\ DefaultTicks \in Nat
      /\ MaxAddrs \in Nat /\ PayloadMax \in Nat
  BY TimeAssumption, SizeAssumption
<1>1. CASE call \in [op : Openers, args : {"good", "bad"}, addrs : 1 .. MaxAddrs,
     timeout : Timeouts, size : {0}, mode : {"blocking"}, os : {"posix", "windows"}]
  <2>1. /\ call.op \in Openers /\ call.addrs \in 1 .. MaxAddrs /\ call.timeout \in Timeouts
        /\ call.size = 0 /\ call.mode = "blocking"
    BY <1>1
  <2>2. call.op \in Ops /\ call.mode \in Modes
    BY <2>1 DEF Ops, Modes
  <2>3. call.timeout \in Nat
    BY <1>0, <2>1
  <2>4. call.addrs \in Nat \ {0} /\ call.size \in Nat
    BY <1>0, <2>1
  <2>5. Full \in Nat
    BY <1>0, <2>3 DEF Full, Ticks
  <2>6. call.mode \in Modes
    BY <2>1, <2>2
  <2>7. call.op \in Openers => call.size = 0 /\ call.mode = "blocking"
    BY <2>1, <2>2
  <2> QED BY <2>2, <2>3, <2>4, <2>5, <2>6, <2>7
<1>2. CASE call \in [op : Senders \union {"wait_read"}, args : {"good", "bad"}, addrs : {1},
     timeout : Timeouts, size : 0 .. PayloadMax, mode : Modes,
     os : {"posix", "windows"}]
  <2>1. /\ call.op \in Senders \union {"wait_read"} /\ call.addrs = 1 /\ call.timeout \in Timeouts
        /\ call.size \in 0 .. PayloadMax /\ call.mode \in Modes
    BY <1>2
  <2>2. call.op \in Ops /\ call.op \notin Openers
    BY <2>1 DEF Ops, Openers, Senders
  <2>3. call.timeout \in Nat
    BY <1>0, <2>1
  <2>4. call.addrs \in Nat \ {0} /\ call.size \in Nat
    BY <1>0, <2>1
  <2>5. Full \in Nat
    BY <1>0, <2>3 DEF Full, Ticks
  <2>6. call.mode \in Modes
    BY <2>1, <2>2
  <2>7. call.op \in Openers => call.size = 0 /\ call.mode = "blocking"
    BY <2>1, <2>2
  <2> QED BY <2>2, <2>3, <2>4, <2>5, <2>6, <2>7
<1> QED BY <1>1, <1>2 DEF Calls

(* The lengths of a message and of its parts, and their bytes. *)
LEMMA MessageLemma ==
    ASSUME NEW n \in Nat
    PROVE  /\ Message(n) \in Seq(Nat) /\ Len(Message(n)) = HeaderSize + n
           /\ \A i \in 1 .. HeaderSize + n : Message(n)[i] = i
           /\ Header \in Seq(Nat) /\ Len(Header) = HeaderSize
           /\ \A i \in 1 .. HeaderSize : Header[i] = i
           /\ Payload(n) \in Seq(Nat) /\ Len(Payload(n)) = n
           /\ \A i \in 1 .. n : Payload(n)[i] = HeaderSize + i
  BY SizeAssumption DEF Message, Header, Payload

(* Longer waiting is paid for by signals, addresses and bytes. *)
LEMMA MoreTime ==
    ASSUME NEW t \in Nat, NEW m \in Nat, NEW n \in Nat, n >= m + 1
    PROVE  t * n >= t * m + t
OBVIOUS

(* Products and sums of numbers are numbers. *)
LEMMA Product == ASSUME NEW t \in Nat, NEW n \in Nat PROVE t * n \in Nat
OBVIOUS
LEMMA UnitsSum ==
    ASSUME NEW i \in Nat, NEW n \in Nat
    PROVE  i + 0 \in Nat /\ (n > 0 => i + (n - 1) \in Nat)
OBVIOUS

(* What is paid for changes with the units only. *)
LEMMA PaidLemma ==
    ASSUME Types, Types', call' = call
    PROVE  /\ Full \in Nat /\ Full' = Full /\ Unlimited' = Unlimited
           /\ Paid \in Nat /\ Paid' \in Nat
           /\ Units' = Units => Paid' = Paid
           /\ Units' >= Units + 1 => Paid' >= Paid + Full
<1>1. Full \in Nat
  BY CallLemma DEF Types, Names
<1>2. Full' = Full /\ Unlimited' = Unlimited
  BY DEF Full, Unlimited
<1>3. Units \in Nat
  BY DEF Types, Numbers, Units
<1>4. Units' \in Nat
  <2>1. it' \in Nat /\ intr' \in Nat /\ Len(stream') \in Nat
    BY DEF Types, Numbers
  <2>2. CASE call'.op \in Senders
    BY <2>1, <2>2 DEF Units
  <2>3. CASE call'.op \notin Senders /\ it' > 0
    <3>1. Units' = intr' + (it' - 1)
      BY <2>3 DEF Units
    <3> QED BY <2>1, <2>3, <3>1, UnitsSum
  <2>4. CASE call'.op \notin Senders /\ ~(it' > 0)
    <3>1. Units' = intr' + 0
      BY <2>4 DEF Units
    <3> QED BY <2>1, <3>1, UnitsSum
  <2> QED BY <2>2, <2>3, <2>4
<1>5. Paid \in Nat /\ Paid' \in Nat
  BY <1>1, <1>2, <1>3, <1>4, Product DEF Paid
<1>6. Units' = Units => Paid' = Paid
  BY <1>2 DEF Paid
<1>7. Units' >= Units + 1 => Paid' >= Paid + Full
  BY <1>1, <1>2, <1>3, <1>4, MoreTime DEF Paid
<1> QED BY <1>1, <1>2, <1>5, <1>6, <1>7

(* What concerns the other kind of call is kept. *)
LEMMA Frame ==
    ASSUME call' = call
    PROVE  /\ call.op \in Openers => Given' /\ Sending'
           /\ call.op \notin Openers => Opening'
  BY DEF Given, Sending, Opening, Openers, Senders

(* A failed address leaves nothing behind. *)
LEMMA NextAddressKeeps ==
    ASSUME IInv, call.op \in Openers, pc \in Trying,
           NEW told \in {"nothing", "text"}, NextAddress(told)
    PROVE  IInv'
<1>1. Types /\ Holding /\ Connecting /\ Timing
  BY DEF IInv, Opening
<1>2. call.addrs \in Nat /\ call' = call
  BY <1>1, CallLemma DEF Types, Names, NextAddress
<1>3. it \in 1 .. call.addrs /\ info = "held" /\ fd = it /\ open = {it}
      /\ out \in {Untouched, Invalid} /\ call.op # "accept"
  BY <1>1 DEF Holding, Connecting
<1>4. /\ open' = {} /\ it' = it + 1 /\ pc' = "SOCKET" /\ link' = "none" /\ err' = told
      /\ UNCHANGED <<info, mode, elapsed, left, intr, rest, stream, room, out, rc>>
  BY <1>3 DEF NextAddress, SocketClose, timeVars, sendVars
<1>5. Names'
  BY <1>1, <1>2, <1>4 DEF Types, Names, Places
<1>6. Numbers'
  BY <1>1, <1>4 DEF Types, Numbers
<1>7. Opening'
  BY <1>2, <1>3, <1>4 DEF Opening, Holding, Connecting, Trying
<1>8. Units' = Units + 1
  BY <1>1, <1>2, <1>3, <1>4 DEF Types, Numbers, Units, Openers, Senders
<1>9. Timing'
  BY <1>1, <1>2, <1>4, <1>5, <1>6, <1>8, PaidLemma DEF Types, Numbers, Timing, Trying
<1>10. OneSocket'
  BY <1>4 DEF OneSocket, Returned
<1> QED BY <1>2, <1>5, <1>6, <1>7, <1>9, <1>10, Frame DEF IInv, Types

(* As long as a call has a socket in the loop, it is the only one. *)
LEMMA WhileTrying ==
    ASSUME Opening', call'.op \in Openers, call'.addrs \in Nat,
           pc' \in Trying \union {"SOCKET"}
    PROVE  OneSocket'
  BY DEF Opening, Holding, OneSocket, Trying, Returned, Invalid

(* The functions that open sockets keep IInv. *)
LEMMA OpenersKeep ==
    ASSUME IInv, Next, call.op \in Openers
    PROVE  IInv'
<1>a. Types /\ Holding /\ Connecting /\ Timing /\ OneSocket
  BY DEF IInv, Opening
<1>b. /\ call.addrs \in Nat \ {0} /\ call.op \notin Senders /\ call.op # "wait_read"
      /\ call.op \notin {"send", "send_timeout"}
  BY <1>a, CallLemma DEF Types, Names, Openers, Senders
<1>1. CASE BadArguments
  <2>1. /\ pc = "START" /\ pc' = "RETURNED" /\ rc' = -1 /\ err' \in {err, "text"}
        /\ err' # "nothing" \/ (call.op = "accept" /\ call.args = "bad")
        /\ UNCHANGED <<call, info, mode, link, it, left, elapsed, intr, room, rest, stream, out, fd, open>>
    BY <1>1, <1>a, <1>b DEF BadArguments, Return, addrVars, sockVars, timeVars, sendVars, resVars
  <2>2. Names'
    BY <2>1, <1>a DEF Types, Names, Places, Modes
  <2>3. Numbers'
    BY <2>1, <1>a, <1>b, CallLemma DEF Types, Numbers, Names
  <2>4. Opening'
    BY <2>1, <1>a, <1>b DEF Opening, Holding, Connecting, Trying, Invalid, Untouched
  <2>5. Units' = Units
    BY <2>1, <1>a, <1>b DEF Types, Numbers, Units, Openers, Senders, Holding, Trying
  <2>6. Timing'
    BY <2>1, <2>2, <2>3, <2>5, <1>a, PaidLemma DEF Types, Numbers, Timing
  <2>7. OneSocket'
    BY <2>1, <1>a, <1>b DEF OneSocket, Returned, Holding, Connecting, Trying, Invalid, Untouched, Openers
  <2> QED BY <2>1, <2>2, <2>3, <2>4, <2>6, <2>7, Frame DEF IInv, Types
<1>2. CASE Resolve
  <2>1. /\ pc = "START" /\ out' \in {Untouched, Invalid} /\ call.op # "accept"
        /\ \/ pc' = "SOCKET" /\ it' = 1 /\ info' = "held" /\ UNCHANGED <<rc, err>>
           \/ pc' = "RETURNED" /\ rc' = -1 /\ err' = "text" /\ UNCHANGED <<it, info>>
        /\ UNCHANGED <<call, mode, link, left, elapsed, intr, room, rest, stream, fd, open>>
    BY <1>2, <1>a, <1>b DEF Resolve, Return, addrVars, sockVars, timeVars, sendVars, resVars
  <2>2. Names'
    BY <2>1, <1>a DEF Types, Names, Places, Modes
  <2>3. Numbers'
    BY <2>1, <1>a, <1>b, CallLemma DEF Types, Numbers, Names
  <2>4. Opening'
    BY <2>1, <1>a, <1>b DEF Opening, Holding, Connecting, Trying, Invalid, Untouched
  <2>5. Units' = Units
    BY <2>1, <1>a, <1>b DEF Types, Numbers, Units, Openers, Senders, Holding, Trying
  <2>6. Timing'
    BY <2>1, <2>2, <2>3, <2>5, <1>a, PaidLemma DEF Types, Numbers, Timing
  <2>7. OneSocket'
    BY <2>1, <1>a, <1>b DEF OneSocket, Returned, Holding, Connecting, Trying, Invalid, Untouched, Openers
  <2> QED BY <2>1, <2>2, <2>3, <2>4, <2>6, <2>7, Frame DEF IInv, Types
<1>3. CASE Accept
  <2>1. /\ pc = "START" /\ pc' = "RETURNED"
        /\ \/ rc' = 0 /\ fd' = 1 /\ open' = {1} /\ link' = "up" /\ out' = 1 /\ UNCHANGED err
           \/ rc' = -1 /\ err' = "text" /\ UNCHANGED <<fd, open, link, out>>
        /\ UNCHANGED <<call, info, mode, it, left, elapsed, intr, room, rest, stream>>
    BY <1>3, <1>a, <1>b DEF Accept, Return, addrVars, sockVars, timeVars, sendVars, resVars
  <2>2. Names'
    BY <2>1, <1>a DEF Types, Names, Places, Modes
  <2>3. Numbers'
    BY <2>1, <1>a, <1>b, CallLemma DEF Types, Numbers, Names
  <2>4. Opening'
    BY <2>1, <1>a, <1>b DEF Opening, Holding, Connecting, Trying, Invalid, Untouched
  <2>5. Units' = Units
    BY <2>1, <1>a, <1>b DEF Types, Numbers, Units, Openers, Senders, Holding, Trying
  <2>6. Timing'
    BY <2>1, <2>2, <2>3, <2>5, <1>a, PaidLemma DEF Types, Numbers, Timing
  <2>7. OneSocket'
    BY <2>1, <1>a, <1>b DEF OneSocket, Returned, Holding, Connecting, Trying, Invalid, Untouched, Openers
  <2> QED BY <2>1, <2>2, <2>3, <2>4, <2>6, <2>7, Frame DEF IInv, Types
<1>4. CASE OpenSocket
  <2>1. /\ pc = "SOCKET" /\ fd' = it /\ open' = {it} /\ link' = "none" /\ mode' = "blocking"
        /\ it <= call.addrs
        /\ \/ call.op = "connect_timeout" /\ pc' = "NONBLOCK"
           \/ call.op = "connect" /\ pc' = "CONNECT"
           \/ call.op = "listen" /\ pc' = "BIND"
        /\ UNCHANGED <<call, info, err, it, left, elapsed, intr, room, rc, rest, stream, out>>
    BY <1>4, <1>a, <1>b DEF OpenSocket, Connecting, Holding, Openers, addrVars, sockVars, timeVars, sendVars, resVars
  <2>2. Names'
    BY <2>1, <1>a DEF Types, Names, Places, Modes
  <2>3. Numbers'
    BY <2>1, <1>a, <1>b, CallLemma DEF Types, Numbers, Names
  <2>4. Opening'
    BY <2>1, <1>a, <1>b DEF Opening, Holding, Connecting, Trying, Invalid, Untouched
  <2>5. Units' = Units
    BY <2>1, <1>a, <1>b DEF Types, Numbers, Units, Openers, Senders, Holding, Trying
  <2>6. Timing'
    BY <2>1, <2>2, <2>3, <2>5, <1>a, PaidLemma DEF Types, Numbers, Timing
  <2>7. OneSocket'
    BY <2>1, <2>4, <1>b, WhileTrying DEF Trying
  <2> QED BY <2>1, <2>2, <2>3, <2>4, <2>6, <2>7, Frame DEF IInv, Types
<1>5. CASE OpenSocketFails
  <2>1. /\ pc = "SOCKET" /\ pc' = "SOCKET" /\ it' = it + 1 /\ it <= call.addrs
        /\ UNCHANGED <<call, info, mode, link, err, left, elapsed, intr, room, rc, rest, stream, out, fd, open>>
    BY <1>5, <1>a, <1>b DEF OpenSocketFails, addrVars, sockVars, timeVars, sendVars, resVars
  <2>2. Names'
    BY <2>1, <1>a DEF Types, Names, Places, Modes
  <2>3. Numbers'
    BY <2>1, <1>a, <1>b, CallLemma DEF Types, Numbers, Names
  <2>4. Opening'
    BY <2>1, <1>a, <1>b DEF Opening, Holding, Connecting, Trying, Invalid, Untouched
  <2>5. Units' = Units + 1
    BY <2>1, <1>a, <1>b DEF Types, Numbers, Units, Openers, Senders, Holding, Trying
  <2>6. Timing'
    BY <2>1, <2>2, <2>3, <2>5, <1>a, PaidLemma DEF Types, Numbers, Timing
  <2>7. OneSocket'
    BY <2>1, <2>4, <1>b, WhileTrying DEF Trying
  <2> QED BY <2>1, <2>2, <2>3, <2>4, <2>6, <2>7, Frame DEF IInv, Types
<1>6. CASE OutOfAddresses
  <2>1. /\ pc = "SOCKET" /\ pc' = "RETURNED" /\ it > call.addrs /\ info' = "freed"
        /\ rc' = -1 /\ err' \in {err, "text"} /\ err' # "nothing"
        /\ UNCHANGED <<call, mode, link, it, left, elapsed, intr, room, rest, stream, out, fd, open>>
    BY <1>6, <1>a, <1>b DEF OutOfAddresses, Return, LastText, addrVars, sockVars, timeVars, sendVars, resVars
  <2>2. Names'
    BY <2>1, <1>a DEF Types, Names, Places, Modes
  <2>3. Numbers'
    BY <2>1, <1>a, <1>b, CallLemma DEF Types, Numbers, Names
  <2>4. Opening'
    BY <2>1, <1>a, <1>b DEF Opening, Holding, Connecting, Trying, Invalid, Untouched
  <2>5. Units' = Units
    BY <2>1, <1>a, <1>b DEF Types, Numbers, Units, Openers, Senders, Holding, Trying
  <2>6. Timing'
    BY <2>1, <2>2, <2>3, <2>5, <1>a, PaidLemma DEF Types, Numbers, Timing
  <2>7. OneSocket'
    BY <2>1, <1>a, <1>b DEF OneSocket, Returned, Holding, Connecting, Trying, Invalid, Untouched, Openers
  <2> QED BY <2>1, <2>2, <2>3, <2>4, <2>6, <2>7, Frame DEF IInv, Types
<1>7. CASE SetNonblocking
  <2>1. CASE NextAddress("text")
    BY <2>1, <1>7, <1>a, NextAddressKeeps DEF SetNonblocking, Trying, Types, Names
  <2>2. CASE ~NextAddress("text")
    <3>1. /\ pc = "NONBLOCK" /\ pc' = "CONNECT" /\ mode' = "nonblocking"
          /\ UNCHANGED <<call, info, link, err, it, left, elapsed, intr, room, rc, rest, stream, out, fd, open>>
      BY <2>2, <1>7, <1>a, <1>b DEF SetNonblocking, addrVars, sockVars, timeVars, sendVars, resVars
    <3>2. Names'
      BY <3>1, <1>a DEF Types, Names, Places, Modes
    <3>3. Numbers'
      BY <3>1, <1>a, CallLemma DEF Types, Numbers, Names
    <3>4. Opening'
      BY <3>1, <1>a, <1>b DEF Opening, Holding, Connecting, Trying
    <3>5. Units' = Units
      BY <3>1 DEF Units
    <3>6. Timing'
      BY <3>1, <3>2, <3>3, <3>5, <1>a, PaidLemma DEF Types, Numbers, Timing
    <3>7. OneSocket'
      BY <3>1, <3>4, <1>b, WhileTrying DEF Trying
    <3> QED BY <3>1, <3>2, <3>3, <3>4, <3>6, <3>7, Frame DEF IInv, Types
  <2> QED BY <2>1, <2>2
<1>8. CASE ConnectBlocking
  <2>1. CASE NextAddress(err)
    BY <2>1, <1>8, <1>a, NextAddressKeeps DEF ConnectBlocking, Trying, Types, Names
  <2>2. CASE ~NextAddress(err)
    <3>1. /\ pc = "CONNECT" /\ mode = "blocking" /\ pc' = "HANDOVER" /\ link' = "up"
          /\ UNCHANGED <<call, info, mode, err, it, left, elapsed, intr, room, rc, rest, stream, out, fd, open>>
      BY <2>2, <1>8, <1>a, <1>b DEF ConnectBlocking, addrVars, sockVars, timeVars, sendVars, resVars
    <3>2. Names'
      BY <3>1, <1>a DEF Types, Names, Places, Modes
    <3>3. Numbers'
      BY <3>1, <1>a, CallLemma DEF Types, Numbers, Names
    <3>4. Opening'
      BY <3>1, <1>a, <1>b DEF Opening, Holding, Connecting, Trying
    <3>5. Units' = Units
      BY <3>1 DEF Units
    <3>6. Timing'
      BY <3>1, <3>2, <3>3, <3>5, <1>a, PaidLemma DEF Types, Numbers, Timing
    <3>7. OneSocket'
      BY <3>1, <3>4, <1>b, WhileTrying DEF Trying
    <3> QED BY <3>1, <3>2, <3>3, <3>4, <3>6, <3>7, Frame DEF IInv, Types
  <2> QED BY <2>1, <2>2
<1>9. CASE ConnectNonblocking
  <2>1. CASE NextAddress("text")
    BY <2>1, <1>9, <1>a, NextAddressKeeps DEF ConnectNonblocking, Trying, Types, Names
  <2>2. CASE ~NextAddress("text")
    <3>1. /\ pc = "CONNECT" /\ mode = "nonblocking" /\ pc' = "WAIT"
          /\ link' \in {"up", "connecting"} /\ left' = Full
          /\ UNCHANGED <<call, info, mode, err, it, elapsed, intr, room, rc, rest, stream, out, fd, open>>
      BY <2>2, <1>9, <1>a, <1>b DEF ConnectNonblocking, StartWait, Full, addrVars, sockVars, timeVars, sendVars, resVars
    <3>2. Names'
      BY <3>1, <1>a DEF Types, Names, Places, Modes
    <3>3. Numbers'
      BY <3>1, <1>a, CallLemma DEF Types, Numbers, Names
    <3>4. Opening'
      BY <3>1, <1>a, <1>b DEF Opening, Holding, Connecting, Trying
    <3>5. Units' = Units
      BY <3>1 DEF Units
    <3>6. Timing'
      BY <3>1, <3>2, <3>3, <3>5, <1>a, PaidLemma DEF Types, Numbers, Timing
    <3>7. OneSocket'
      BY <3>1, <3>4, <1>b, WhileTrying DEF Trying
    <3> QED BY <3>1, <3>2, <3>3, <3>4, <3>6, <3>7, Frame DEF IInv, Types
  <2> QED BY <2>1, <2>2
<1>10. CASE CheckConnect
  <2>1. CASE NextAddress("text")
    BY <2>1, <1>10, <1>a, NextAddressKeeps DEF CheckConnect, Trying, Types, Names
  <2>2. CASE ~NextAddress("text")
    <3>1. /\ pc = "CHECK" /\ link = "up" /\ pc' = "RESTORE"
          /\ UNCHANGED <<call, info, mode, link, err, it, left, elapsed, intr, room, rc, rest, stream, out, fd, open>>
      BY <2>2, <1>10, <1>a, <1>b DEF CheckConnect, addrVars, sockVars, timeVars, sendVars, resVars
    <3>2. Names'
      BY <3>1, <1>a DEF Types, Names, Places, Modes
    <3>3. Numbers'
      BY <3>1, <1>a, CallLemma DEF Types, Numbers, Names
    <3>4. Opening'
      BY <3>1, <1>a, <1>b DEF Opening, Holding, Connecting, Trying
    <3>5. Units' = Units
      BY <3>1 DEF Units
    <3>6. Timing'
      BY <3>1, <3>2, <3>3, <3>5, <1>a, PaidLemma DEF Types, Numbers, Timing
    <3>7. OneSocket'
      BY <3>1, <3>4, <1>b, WhileTrying DEF Trying
    <3> QED BY <3>1, <3>2, <3>3, <3>4, <3>6, <3>7, Frame DEF IInv, Types
  <2> QED BY <2>1, <2>2
<1>11. CASE SetBlocking
  <2>1. CASE NextAddress("text")
    BY <2>1, <1>11, <1>a, NextAddressKeeps DEF SetBlocking, Trying, Types, Names
  <2>2. CASE ~NextAddress("text")
    <3>1. /\ pc = "RESTORE" /\ pc' = "HANDOVER" /\ mode' = "blocking"
          /\ UNCHANGED <<call, info, link, err, it, left, elapsed, intr, room, rc, rest, stream, out, fd, open>>
      BY <2>2, <1>11, <1>a, <1>b DEF SetBlocking, addrVars, sockVars, timeVars, sendVars, resVars
    <3>2. Names'
      BY <3>1, <1>a DEF Types, Names, Places, Modes
    <3>3. Numbers'
      BY <3>1, <1>a, CallLemma DEF Types, Numbers, Names
    <3>4. Opening'
      BY <3>1, <1>a, <1>b DEF Opening, Holding, Connecting, Trying
    <3>5. Units' = Units
      BY <3>1 DEF Units
    <3>6. Timing'
      BY <3>1, <3>2, <3>3, <3>5, <1>a, PaidLemma DEF Types, Numbers, Timing
    <3>7. OneSocket'
      BY <3>1, <3>4, <1>b, WhileTrying DEF Trying
    <3> QED BY <3>1, <3>2, <3>3, <3>4, <3>6, <3>7, Frame DEF IInv, Types
  <2> QED BY <2>1, <2>2
<1>12. CASE BindListen
  <2>1. CASE NextAddress(err)
    BY <2>1, <1>12, <1>a, NextAddressKeeps DEF BindListen, Trying, Types, Names
  <2>2. CASE ~NextAddress(err)
    <3>1. /\ pc = "BIND" /\ pc' = "HANDOVER" /\ link' = "listening"
          /\ UNCHANGED <<call, info, mode, err, it, left, elapsed, intr, room, rc, rest, stream, out, fd, open>>
      BY <2>2, <1>12, <1>a, <1>b DEF BindListen, addrVars, sockVars, timeVars, sendVars, resVars
    <3>2. Names'
      BY <3>1, <1>a DEF Types, Names, Places, Modes
    <3>3. Numbers'
      BY <3>1, <1>a, CallLemma DEF Types, Numbers, Names
    <3>4. Opening'
      BY <3>1, <1>a, <1>b DEF Opening, Holding, Connecting, Trying
    <3>5. Units' = Units
      BY <3>1 DEF Units
    <3>6. Timing'
      BY <3>1, <3>2, <3>3, <3>5, <1>a, PaidLemma DEF Types, Numbers, Timing
    <3>7. OneSocket'
      BY <3>1, <3>4, <1>b, WhileTrying DEF Trying
    <3> QED BY <3>1, <3>2, <3>3, <3>4, <3>6, <3>7, Frame DEF IInv, Types
  <2> QED BY <2>1, <2>2
<1>13. CASE Finish
  <2>1. /\ pc = "HANDOVER" /\ pc' = "RETURNED" /\ info' = "freed" /\ out' = fd /\ rc' = 0
        /\ UNCHANGED <<call, mode, link, err, it, left, elapsed, intr, room, rest, stream, fd, open>>
    BY <1>13, <1>a, <1>b DEF Finish, HandOver, Return, addrVars, sockVars, timeVars, sendVars, resVars
  <2>2. Names'
    BY <2>1, <1>a DEF Types, Names, Places, Modes
  <2>3. Numbers'
    BY <2>1, <1>a, <1>b, CallLemma DEF Types, Numbers, Names
  <2>4. Opening'
    BY <2>1, <1>a, <1>b DEF Opening, Holding, Connecting, Trying, Invalid, Untouched
  <2>5. Units' = Units
    BY <2>1, <1>a, <1>b DEF Types, Numbers, Units, Openers, Senders, Holding, Trying
  <2>6. Timing'
    BY <2>1, <2>2, <2>3, <2>5, <1>a, PaidLemma DEF Types, Numbers, Timing
  <2>7. OneSocket'
    BY <2>1, <1>a, <1>b DEF OneSocket, Returned, Holding, Connecting, Trying, Invalid, Untouched, Openers
  <2> QED BY <2>1, <2>2, <2>3, <2>4, <2>6, <2>7, Frame DEF IInv, Types
<1>14. CASE WaitReady
  <2>1. /\ pc = "WAIT" /\ pc' = "CHECK"
        /\ UNCHANGED <<call, info, mode, link, err, it, left, elapsed, intr, room, rc, rest, stream, out, fd, open>>
    BY <1>14, <1>a, <1>b DEF WaitReady, Return, Connecting, addrVars, sockVars, timeVars, sendVars, resVars
  <2>2. Names'
    BY <2>1, <1>a DEF Types, Names, Places, Modes
  <2>3. Numbers'
    BY <2>1, <1>a, <1>b, CallLemma DEF Types, Numbers, Names
  <2>4. Opening'
    BY <2>1, <1>a, <1>b DEF Opening, Holding, Connecting, Trying, Invalid, Untouched
  <2>5. Units' = Units
    BY <2>1, <1>a, <1>b DEF Types, Numbers, Units, Openers, Senders, Holding, Trying
  <2>6. Timing'
    BY <2>1, <2>2, <2>3, <2>5, <1>a, PaidLemma DEF Types, Numbers, Timing
  <2>7. OneSocket'
    BY <2>1, <2>4, <1>b, WhileTrying DEF Trying
  <2> QED BY <2>1, <2>2, <2>3, <2>4, <2>6, <2>7, Frame DEF IInv, Types
<1>15. CASE WaitTimesOut \/ WaitFails
  <2>1. pc = "WAIT" /\ NextAddress("text")
    BY <1>15, <1>a DEF WaitTimesOut, WaitFails, AfterTimeout, WaitOver, Connecting
  <2> QED BY <2>1, NextAddressKeeps DEF Trying
<1>16. CASE WaitInterrupted
  <2>1. /\ pc = "WAIT" /\ pc' = "WAIT" /\ intr' = intr + 1 /\ left' = Full
        /\ UNCHANGED <<call, info, mode, link, err, it, elapsed, room, rc, rest, stream, out, fd, open>>
    BY <1>16, <1>a, <1>b DEF WaitInterrupted, StartWait, Full, addrVars, sockVars, timeVars, sendVars, resVars
  <2>2. Names'
    BY <2>1, <1>a DEF Types, Names, Places, Modes
  <2>3. Numbers'
    BY <2>1, <1>a, <1>b, CallLemma DEF Types, Numbers, Names
  <2>4. Opening'
    BY <2>1, <1>a, <1>b DEF Opening, Holding, Connecting, Trying, Invalid, Untouched
  <2>5. Units' = Units + 1
    BY <2>1, <1>a, <1>b DEF Types, Numbers, Units, Openers, Senders, Holding, Trying
  <2>6. Timing'
    BY <2>1, <2>2, <2>3, <2>5, <1>a, PaidLemma DEF Types, Numbers, Timing
  <2>7. OneSocket'
    BY <2>1, <2>4, <1>b, WhileTrying DEF Trying
  <2> QED BY <2>1, <2>2, <2>3, <2>4, <2>6, <2>7, Frame DEF IInv, Types
<1>17. CASE Tick
  <2>1. /\ pc = "WAIT" /\ pc' = "WAIT" /\ left > 0 /\ left' = left - 1
        /\ elapsed' \in {elapsed, elapsed + 1}
        /\ UNCHANGED <<call, info, mode, link, err, it, intr, room, rc, rest, stream, out, fd, open>>
    BY <1>17, <1>a, <1>b DEF Tick, addrVars, sockVars, timeVars, sendVars, resVars
  <2>2. Names'
    BY <2>1, <1>a DEF Types, Names, Places, Modes
  <2>3. Numbers'
    BY <2>1, <1>a, <1>b, CallLemma DEF Types, Numbers, Names
  <2>4. Opening'
    BY <2>1, <1>a, <1>b DEF Opening, Holding, Connecting, Trying, Invalid, Untouched
  <2>5. Units' = Units
    BY <2>1, <1>a, <1>b DEF Types, Numbers, Units, Openers, Senders, Holding, Trying
  <2>6. Timing'
    BY <2>1, <2>2, <2>3, <2>5, <1>a, PaidLemma DEF Types, Numbers, Timing
  <2>7. OneSocket'
    BY <2>1, <2>4, <1>b, WhileTrying DEF Trying
  <2> QED BY <2>1, <2>2, <2>3, <2>4, <2>6, <2>7, Frame DEF IInv, Types
<1>18. CASE Answer
  <2>1. /\ link = "connecting" /\ link' \in {"up", "refused"}
        /\ UNCHANGED <<call, pc, info, mode, err, it, left, elapsed, intr, room, rc, rest, stream, out, fd, open>>
    BY <1>18 DEF Answer, addrVars, timeVars, sendVars, resVars
  <2>2. Names'
    BY <2>1, <1>a DEF Types, Names
  <2>3. Numbers'
    BY <2>1, <1>a DEF Types, Numbers
  <2>4. Opening'
    BY <2>1, <1>a DEF Opening, Holding, Connecting
  <2>5. Units' = Units
    BY <2>1 DEF Units
  <2>6. Timing'
    BY <2>1, <2>2, <2>3, <2>5, <1>a, PaidLemma DEF Types, Numbers, Timing, Holding
  <2>7. OneSocket'
    BY <2>1, <1>a DEF OneSocket, Returned
  <2> QED BY <2>1, <2>2, <2>3, <2>4, <2>6, <2>7, Frame DEF IInv, Types
<1> QED
  <2>1. ~(StartSend \/ StartWaitRead \/ PeerMoves)
    BY <1>b DEF StartSend, StartWaitRead, PeerMoves, Senders
  <2>2. ~(SendSome \/ PieceSent \/ SendWouldBlock \/ SendFails \/ SendInterrupted)
    BY <1>a DEF Holding, SendSome, PieceSent, SendWouldBlock, SendFails, SendInterrupted
  <2> QED BY <2>1, <2>2, <1>1, <1>2, <1>3, <1>4, <1>5, <1>6, <1>7, <1>8, <1>9, <1>10, <1>11,
             <1>12, <1>13, <1>14, <1>15, <1>16, <1>17, <1>18 DEF Next, Step, Environment

-----------------------------------------------------------------------------
(* Two sequences put together. *)
LEMMA Joined ==
    ASSUME NEW s \in Seq(Nat), NEW t \in Seq(Nat)
    PROVE  s \o t \in Seq(Nat) /\ Len(s \o t) = Len(s) + Len(t)
OBVIOUS

(* With bytes of a piece left, the message is not complete. *)
LEMMA Unsent ==
    ASSUME Types, Sending, call.op \in Senders, pc \in {"SEND", "WAIT"}, rest # <<>>
    PROVE  /\ Len(stream) <= HeaderSize + call.size
           /\ Len(stream) # HeaderSize + call.size
<1>1. call.size \in Nat /\ HeaderSize \in Nat
  BY CallLemma, SizeAssumption DEF Types, Names
<1>2. Len(stream) \in Nat /\ Len(rest) \in Nat \ {0}
  BY DEF Types, Numbers
<1>3. \/ Len(stream) + Len(rest) = HeaderSize
      \/ Len(stream) + Len(rest) = HeaderSize + call.size
  BY DEF Sending
<1> QED BY <1>1, <1>2, <1>3

(* The functions that are given a socket keep IInv. *)
LEMMA OthersKeep ==
    ASSUME IInv, Next, call.op \notin Openers
    PROVE  IInv'
<1>a. Types /\ Given /\ Timing /\ Sending
  BY DEF IInv
<1>b. /\ call.op \in Senders \/ call.op = "wait_read"
      /\ call.op \notin {"connect", "connect_timeout", "listen", "accept"}
      /\ call.op \notin Openers
      /\ call.size \in Nat /\ Full \in Nat
      /\ pc \in {"START", "SEND", "WAIT", "RETURNED"} /\ link \in {"up", "lost"}
      /\ info = "none" /\ fd = 1 /\ open = {1}
      /\ pc = "SEND" => call.op \in Senders
      /\ pc = "WAIT" => call.op \in {"send_timeout", "wait_read"}
      /\ HeaderSize \in Nat \ {0} /\ Room \in Nat \ {0} /\ Chunk \in Nat \ {0}
  <2>1. call.op \in Ops /\ call.size \in Nat /\ Full \in Nat
    BY <1>a, CallLemma DEF Types, Names
  <2>2. HeaderSize \in Nat \ {0} /\ Room \in Nat \ {0} /\ Chunk \in Nat \ {0}
    BY SizeAssumption
  <2>3. call.op \in Senders \/ call.op = "wait_read"
    BY <2>1 DEF Ops
  <2>4. call.op \notin {"connect", "connect_timeout", "listen", "accept"}
    BY DEF Openers
  <2> QED BY <2>1, <2>2, <2>3, <2>4, <1>a DEF Given
<1>1. CASE BadArguments
  <2>1. /\ pc = "START" /\ pc' = "RETURNED" /\ rc' = -1 /\ err' = "text"
        /\ UNCHANGED <<call, info, mode, link, it, left, elapsed, intr, room, rest, stream, out, fd, open>>
    BY <1>1, <1>a, <1>b DEF BadArguments, Return, addrVars, sockVars, timeVars, sendVars, resVars
  <2>2. Names'
    BY <2>1, <1>a, <1>b DEF Types, Names, Places
  <2>3. Numbers'
    BY <2>1, <1>a, <1>b DEF Types, Numbers
  <2>4. Given'
    BY <2>1, <1>a, <1>b DEF Given, Senders
  <2>5. Units' = Units
    BY <2>1, <1>a, <1>b DEF Units
  <2>6. Timing'
    BY <2>1, <2>2, <2>3, <2>5, <1>a, <1>b, PaidLemma DEF Types, Numbers, Timing
  <2>7. Sending'
    BY <2>1, <1>a, <1>b DEF Sending, Returned
  <2>8. OneSocket'
    BY <2>1, <1>b DEF OneSocket, Returned, Invalid
  <2> QED BY <2>1, <2>2, <2>3, <2>4, <2>6, <2>7, <2>8, <1>b, Frame DEF IInv, Types
<1>2. CASE StartSend
  <2>1. /\ pc = "START" /\ pc' = "SEND" /\ rest' = Header /\ call.op \in Senders
        /\ UNCHANGED <<call, info, mode, link, err, it, left, elapsed, intr, room, rc, stream, out, fd, open>>
    BY <1>2, <1>a, <1>b DEF StartSend, addrVars, sockVars, timeVars, sendVars, resVars
  <2>2. Names'
    BY <2>1, <1>a, <1>b DEF Types, Names, Places
  <2>3. Numbers'
    BY <2>1, <1>a, <1>b, MessageLemma DEF Types, Numbers
  <2>4. Given'
    BY <2>1, <1>a, <1>b DEF Given, Senders
  <2>5. Units' = Units
    BY <2>1, <1>a, <1>b DEF Units
  <2>6. Timing'
    BY <2>1, <2>2, <2>3, <2>5, <1>a, <1>b, PaidLemma DEF Types, Numbers, Timing
  <2>7. Sending'
    <3>1. Len(Header) = HeaderSize /\ \A i \in 1 .. Len(Header) : Header[i] = 0 + i
      BY <1>b, MessageLemma
    <3>2. stream' = <<>> /\ rest' = Header
      BY <2>1, <1>a DEF Sending
    <3> HIDE DEF Header
    <3> QED BY <2>1, <3>1, <3>2, <1>b DEF Sending, Returned
  <2>8. OneSocket'
    BY <2>1, <1>b DEF OneSocket, Returned, Invalid
  <2> QED BY <2>1, <2>2, <2>3, <2>4, <2>6, <2>7, <2>8, <1>b, Frame DEF IInv, Types
<1>3. CASE StartWaitRead
  <2>1. /\ pc = "START" /\ pc' = "WAIT" /\ left' = Full /\ call.op = "wait_read"
        /\ call.op \notin Senders
        /\ UNCHANGED <<call, info, mode, link, err, it, elapsed, intr, room, rc, rest, stream, out, fd, open>>
    BY <1>3, <1>a, <1>b DEF StartWaitRead, StartWait, Full, Senders, addrVars, sockVars, timeVars, sendVars, resVars
  <2>2. Names'
    BY <2>1, <1>a, <1>b DEF Types, Names, Places
  <2>3. Numbers'
    BY <2>1, <1>a, <1>b DEF Types, Numbers
  <2>4. Given'
    BY <2>1, <1>a, <1>b DEF Given, Senders
  <2>5. Units' = Units
    BY <2>1, <1>a, <1>b DEF Units
  <2>6. Timing'
    BY <2>1, <2>2, <2>3, <2>5, <1>a, <1>b, PaidLemma DEF Types, Numbers, Timing
  <2>7. Sending'
    BY <2>1, <1>a, <1>b DEF Sending, Returned
  <2>8. OneSocket'
    BY <2>1, <1>b DEF OneSocket, Returned, Invalid
  <2> QED BY <2>1, <2>2, <2>3, <2>4, <2>6, <2>7, <2>8, <1>b, Frame DEF IInv, Types
<1>4. CASE SendSome
  <2>1. PICK n \in Nat :
          /\ n > 0 /\ n <= Len(rest) /\ n <= room
          /\ stream' = stream \o SubSeq(rest, 1, n)
          /\ rest' = SubSeq(rest, n + 1, Len(rest)) /\ room' = room - n
    BY <1>4, <1>a, <1>b DEF SendSome, SomeOf, AfterSend, Types, Numbers
  <2>2. /\ pc = "SEND" /\ pc' = "SEND" /\ call.op \in Senders
        /\ UNCHANGED <<call, info, mode, link, err, it, left, elapsed, intr, rc, out, fd, open>>
    BY <1>4, <1>b DEF SendSome, addrVars, sockVars, timeVars, resVars
  <2>3. /\ rest \in Seq(Nat) /\ stream \in Seq(Nat) /\ room \in Nat
        /\ Len(rest) \in Nat /\ Len(stream) \in Nat
    BY <1>a DEF Types, Numbers
  <2>4. /\ rest' \in Seq(Nat) /\ Len(rest') = Len(rest) - n
        /\ \A i \in 1 .. Len(rest') : rest'[i] = rest[n + i]
    BY <2>1, <2>3
  <2>5. /\ stream' \in Seq(Nat) /\ Len(stream') = Len(stream) + n
        /\ \A i \in 1 .. Len(stream) : stream'[i] = stream[i]
        /\ \A i \in 1 .. n : stream'[Len(stream) + i] = rest[i]
    <3> DEFINE s == SubSeq(rest, 1, n)
    <3>1. s \in Seq(Nat) /\ Len(s) = n /\ \A i \in 1 .. n : s[i] = rest[i]
      BY <2>1, <2>3
    <3>2. stream' = stream \o s
      BY <2>1
    <3> HIDE DEF s
    <3>3. stream' \in Seq(Nat) /\ Len(stream') = Len(stream) + n
      <4>1. stream \o s \in Seq(Nat) /\ Len(stream \o s) = Len(stream) + Len(s)
        BY <2>3, <3>1, Joined
      <4> QED BY <3>1, <3>2, <4>1
    <3>4. \A i \in 1 .. Len(stream) : stream'[i] = stream[i]
      BY <2>3, <3>1, <3>2
    <3>5. \A i \in 1 .. n : stream'[Len(stream) + i] = s[i]
      BY <2>3, <3>1, <3>2
    <3> QED BY <3>1, <3>3, <3>4, <3>5
  <2>6. Names'
    BY <2>2, <1>a DEF Types, Names
  <2>7. Numbers'
    BY <2>1, <2>2, <2>3, <2>4, <2>5, <1>a DEF Types, Numbers
  <2>8. Given'
    BY <2>2, <1>a DEF Given
  <2>9. Units' >= Units + 1
    BY <2>1, <2>2, <2>3, <2>5, <1>a DEF Units, Types, Numbers
  <2>10. Timing'
    BY <2>2, <2>6, <2>7, <2>9, <1>a, <1>b, PaidLemma DEF Types, Numbers, Timing
  <2>11. Sending'
    <3>1. /\ \A i \in 1 .. Len(stream) : stream[i] = i
          /\ \A i \in 1 .. Len(rest) : rest[i] = Len(stream) + i
          /\ \/ Len(stream) + Len(rest) = HeaderSize
             \/ /\ Len(stream) + Len(rest) = HeaderSize + call.size
                /\ Len(stream) >= HeaderSize
      BY <2>2, <1>a DEF Sending
    <3>2. \A i \in 1 .. Len(stream') : stream'[i] = i
      <4> SUFFICES ASSUME NEW i \in 1 .. Len(stream) + n
                   PROVE  stream'[i] = i
        BY <2>5
      <4>1. CASE i <= Len(stream)
        <5>1. i \in 1 .. Len(stream)
          BY <2>3, <4>1
        <5> QED BY <2>5, <3>1, <5>1
      <4>2. CASE i > Len(stream)
        <5>1. i - Len(stream) \in 1 .. n /\ i - Len(stream) \in 1 .. Len(rest)
              /\ i = Len(stream) + (i - Len(stream))
          BY <2>1, <2>3, <4>2
        <5> QED BY <2>5, <3>1, <5>1
      <4> QED BY <2>3, <4>1, <4>2
    <3>3. \A i \in 1 .. Len(rest') : rest'[i] = Len(stream') + i
      <4> SUFFICES ASSUME NEW i \in 1 .. Len(rest) - n
                   PROVE  rest'[i] = Len(stream') + i
        BY <2>4
      <4>1. n + i \in 1 .. Len(rest) /\ Len(stream) + (n + i) = (Len(stream) + n) + i
        BY <2>1, <2>3
      <4> QED BY <2>4, <2>5, <3>1, <4>1
    <3>4. (Len(stream) + n) + (Len(rest) - n) = Len(stream) + Len(rest)
      BY <2>1, <2>3
    <3>5. Len(stream) >= HeaderSize => Len(stream) + n >= HeaderSize
      BY <2>1, <2>3, <1>b
    <3>6. \/ Len(stream') + Len(rest') = HeaderSize
          \/ /\ Len(stream') + Len(rest') = HeaderSize + call.size
             /\ Len(stream') >= HeaderSize
      BY <2>4, <2>5, <3>1, <3>4, <3>5
    <3> QED BY <2>2, <3>2, <3>3, <3>6 DEF Sending, Returned
  <2>12. OneSocket'
    BY <2>2, <1>b DEF OneSocket, Returned, Invalid
  <2> QED BY <2>2, <2>6, <2>7, <2>8, <2>10, <2>11, <2>12, <1>b, Frame DEF IInv, Types
<1>5. CASE PieceSent
  <2>0. Len(stream) \in Nat /\ Len(rest) = 0
    BY <1>5, <1>a DEF PieceSent, Types, Numbers
  <2>1. /\ pc = "SEND" /\ call.op \in Senders
        /\ \/ /\ pc' = "SEND" /\ rest' = Payload(call.size) /\ Len(stream) = HeaderSize
              /\ UNCHANGED <<rc, err>>
           \/ /\ pc' = "RETURNED" /\ rc' = 0 /\ Len(stream) = HeaderSize + call.size
              /\ UNCHANGED <<rest, err>>
        /\ UNCHANGED <<call, info, mode, link, it, left, elapsed, intr, room, stream, out, fd, open>>
    <3>1. pc = "SEND" /\ call.op \in Senders
      BY <1>5, <1>b DEF PieceSent
    <3>2. Len(stream) = HeaderSize \/ Len(stream) = HeaderSize + call.size
      BY <2>0, <3>1, <1>a, <1>b DEF Sending
    <3>3. \/ /\ pc' = "SEND" /\ rest' = Payload(call.size)
             /\ call.size > 0 /\ Len(stream) <= HeaderSize /\ UNCHANGED <<rc, err>>
          \/ /\ pc' = "RETURNED" /\ rc' = 0 /\ UNCHANGED <<rest, err>>
             /\ ~(call.size > 0 /\ Len(stream) <= HeaderSize)
      BY <1>5 DEF PieceSent, Return
    <3>4. UNCHANGED <<call, info, mode, link, it, left, elapsed, intr, room, stream, out, fd, open>>
      BY <1>5 DEF PieceSent, addrVars, sockVars, timeVars
    <3> QED BY <2>0, <3>1, <3>2, <3>3, <3>4, <1>b
  <2>2. Names'
    BY <2>1, <1>a DEF Types, Names, Places
  <2>3. Numbers'
    <3>1. Payload(call.size) \in Seq(Nat)
      BY <1>b, MessageLemma
    <3>2. rest' \in Seq(Nat)
      BY <2>1, <3>1, <1>a DEF Types, Numbers
    <3> QED BY <2>1, <3>2, <1>a DEF Types, Numbers
  <2>4. Given'
    BY <2>1, <1>a DEF Given
  <2>5. Units' = Units
    BY <2>1 DEF Units
  <2>6. Timing'
    BY <2>1, <2>2, <2>3, <2>5, <1>a, <1>b, PaidLemma DEF Types, Numbers, Timing
  <2>7. Sending'
    <3>1. /\ Len(Payload(call.size)) = call.size
          /\ \A i \in 1 .. call.size : Payload(call.size)[i] = HeaderSize + i
      BY <1>b, MessageLemma
    <3>2. CASE pc' = "SEND"
      <4>1. Len(stream) + call.size = HeaderSize + call.size /\ Len(stream) >= HeaderSize
        BY <2>0, <2>1, <3>2, <1>b
      <4>2. Len(rest') = call.size /\ \A i \in 1 .. Len(rest') : rest'[i] = Len(stream) + i
        BY <2>1, <3>1, <3>2
      <4> QED BY <2>1, <3>2, <4>1, <4>2, <1>a DEF Sending, Returned
    <3>3. CASE pc' = "RETURNED"
      BY <2>0, <2>1, <3>3, <1>a, <1>b DEF Sending, Returned
    <3> QED BY <2>1, <3>2, <3>3
  <2>8. OneSocket'
    BY <2>1, <1>b DEF OneSocket, Returned, Invalid
  <2> QED BY <2>1, <2>2, <2>3, <2>4, <2>6, <2>7, <2>8, <1>b, Frame DEF IInv, Types
<1>6. CASE SendWouldBlock
  <2>1. /\ pc = "SEND" /\ call.op \in Senders /\ room = 0 /\ link = "up" /\ rest # <<>>
        /\ \/ /\ call.op = "send_timeout" /\ pc' = "WAIT" /\ left' = Full
              /\ UNCHANGED <<rc, err>>
           \/ pc' = "RETURNED" /\ rc' = -1 /\ err' = "text" /\ UNCHANGED left
        /\ UNCHANGED <<call, info, mode, link, it, elapsed, intr, room, rest, stream, out, fd, open>>
    BY <1>6, <1>a, <1>b DEF SendWouldBlock, SendFailed, StartWait, Full, Return, addrVars, sockVars, timeVars, sendVars, resVars
  <2>2. Names'
    BY <2>1, <1>a, <1>b DEF Types, Names, Places
  <2>3. Numbers'
    BY <2>1, <1>a, <1>b DEF Types, Numbers
  <2>4. Given'
    BY <2>1, <1>a, <1>b DEF Given, Senders
  <2>5. Units' = Units
    BY <2>1, <1>a, <1>b DEF Units
  <2>6. Timing'
    BY <2>1, <2>2, <2>3, <2>5, <1>a, <1>b, PaidLemma DEF Types, Numbers, Timing
  <2>7. Sending'
    BY <2>1, <1>a, <1>b, Unsent DEF Sending, Returned
  <2>8. OneSocket'
    BY <2>1, <1>b DEF OneSocket, Returned, Invalid
  <2> QED BY <2>1, <2>2, <2>3, <2>4, <2>6, <2>7, <2>8, <1>b, Frame DEF IInv, Types
<1>7. CASE SendInterrupted
  <2>1. /\ pc = "SEND" /\ call.op \in Senders /\ intr' = intr + 1 /\ rest # <<>>
        /\ \/ /\ call.op = "send_timeout" /\ pc' = "WAIT" /\ left' = Full
              /\ UNCHANGED <<rc, err>>
           \/ pc' = "RETURNED" /\ rc' = -1 /\ err' = "text" /\ UNCHANGED left
        /\ UNCHANGED <<call, info, mode, link, it, elapsed, room, rest, stream, out, fd, open>>
    BY <1>7, <1>a, <1>b DEF SendInterrupted, StartWait, Full, Return, addrVars, sockVars, timeVars, sendVars, resVars
  <2>2. Names'
    BY <2>1, <1>a, <1>b DEF Types, Names, Places
  <2>3. Numbers'
    BY <2>1, <1>a, <1>b DEF Types, Numbers
  <2>4. Given'
    BY <2>1, <1>a, <1>b DEF Given, Senders
  <2>5. Units' = Units + 1
    BY <2>1, <1>a, <1>b DEF Units, Types, Numbers
  <2>6. Timing'
    BY <2>1, <2>2, <2>3, <2>5, <1>a, <1>b, PaidLemma DEF Types, Numbers, Timing
  <2>7. Sending'
    BY <2>1, <1>a, <1>b, Unsent DEF Sending, Returned
  <2>8. OneSocket'
    BY <2>1, <1>b DEF OneSocket, Returned, Invalid
  <2> QED BY <2>1, <2>2, <2>3, <2>4, <2>6, <2>7, <2>8, <1>b, Frame DEF IInv, Types
<1>8. CASE SendFails
  <2>1. /\ pc = "SEND" /\ call.op \in Senders /\ rest # <<>>
        /\ pc' = "RETURNED" /\ rc' = -1 /\ err' = "text"
        /\ UNCHANGED <<call, info, mode, link, it, left, elapsed, intr, room, rest, stream, out, fd, open>>
    BY <1>8, <1>a, <1>b DEF SendFails, SendFailed, Return, addrVars, sockVars, timeVars, sendVars, resVars
  <2>2. Names'
    BY <2>1, <1>a, <1>b DEF Types, Names, Places
  <2>3. Numbers'
    BY <2>1, <1>a, <1>b DEF Types, Numbers
  <2>4. Given'
    BY <2>1, <1>a, <1>b DEF Given, Senders
  <2>5. Units' = Units
    BY <2>1, <1>a, <1>b DEF Units
  <2>6. Timing'
    BY <2>1, <2>2, <2>3, <2>5, <1>a, <1>b, PaidLemma DEF Types, Numbers, Timing
  <2>7. Sending'
    BY <2>1, <1>a, <1>b, Unsent DEF Sending, Returned
  <2>8. OneSocket'
    BY <2>1, <1>b DEF OneSocket, Returned, Invalid
  <2> QED BY <2>1, <2>2, <2>3, <2>4, <2>6, <2>7, <2>8, <1>b, Frame DEF IInv, Types
<1>9. CASE WaitReady
  <2>1. /\ pc = "WAIT" /\ (room > 0 \/ link = "lost")
        /\ \/ call.op = "send_timeout" /\ pc' = "SEND" /\ UNCHANGED <<rc, err>>
           \/ /\ call.op = "wait_read" /\ pc' = "RETURNED" /\ rc' = 0 /\ UNCHANGED err
        /\ UNCHANGED <<call, info, mode, link, it, left, elapsed, intr, room, rest, stream, out, fd, open>>
    BY <1>9, <1>a, <1>b DEF WaitReady, Ready, Return, addrVars, sockVars, timeVars, sendVars, resVars
  <2>2. Names'
    BY <2>1, <1>a, <1>b DEF Types, Names, Places
  <2>3. Numbers'
    BY <2>1, <1>a, <1>b DEF Types, Numbers
  <2>4. Given'
    BY <2>1, <1>a, <1>b DEF Given, Senders
  <2>5. Units' = Units
    BY <2>1, <1>a, <1>b DEF Units
  <2>6. Timing'
    BY <2>1, <2>2, <2>3, <2>5, <1>a, <1>b, PaidLemma DEF Types, Numbers, Timing
  <2>7. Sending'
    BY <2>1, <1>a, <1>b DEF Sending, Returned, Senders
  <2>8. OneSocket'
    BY <2>1, <1>b DEF OneSocket, Returned, Invalid
  <2> QED BY <2>1, <2>2, <2>3, <2>4, <2>6, <2>7, <2>8, <1>b, Frame DEF IInv, Types
<1>10. CASE WaitTimesOut \/ WaitFails
  <2>1. /\ pc = "WAIT" /\ pc' = "RETURNED" /\ rc' \in {1, -1} /\ err' = "text"
        /\ call.op = "send_timeout" => rc' = -1
        /\ UNCHANGED <<call, info, mode, link, it, left, elapsed, intr, room, rest, stream, out, fd, open>>
    BY <1>10, <1>a, <1>b DEF WaitTimesOut, WaitFails, AfterTimeout, WaitOver, Return, addrVars, sockVars, timeVars, sendVars, resVars
  <2>2. Names'
    BY <2>1, <1>a, <1>b DEF Types, Names, Places
  <2>3. Numbers'
    BY <2>1, <1>a, <1>b DEF Types, Numbers
  <2>4. Given'
    BY <2>1, <1>a, <1>b DEF Given, Senders
  <2>5. Units' = Units
    BY <2>1, <1>a, <1>b DEF Units
  <2>6. Timing'
    BY <2>1, <2>2, <2>3, <2>5, <1>a, <1>b, PaidLemma DEF Types, Numbers, Timing
  <2>7. Sending'
    BY <2>1, <1>a, <1>b, Unsent DEF Sending, Returned, Senders
  <2>8. OneSocket'
    BY <2>1, <1>b DEF OneSocket, Returned, Invalid
  <2> QED BY <2>1, <2>2, <2>3, <2>4, <2>6, <2>7, <2>8, <1>b, Frame DEF IInv, Types
<1>11. CASE WaitInterrupted
  <2>1. /\ pc = "WAIT" /\ pc' = "WAIT" /\ intr' = intr + 1 /\ left' = Full
        /\ UNCHANGED <<call, info, mode, link, err, it, elapsed, room, rc, rest, stream, out, fd, open>>
    BY <1>11, <1>a, <1>b DEF WaitInterrupted, StartWait, Full, addrVars, sockVars, timeVars, sendVars, resVars
  <2>2. Names'
    BY <2>1, <1>a, <1>b DEF Types, Names, Places
  <2>3. Numbers'
    BY <2>1, <1>a, <1>b DEF Types, Numbers
  <2>4. Given'
    BY <2>1, <1>a, <1>b DEF Given, Senders
  <2>5. Units' = Units + 1
    <3> DEFINE k == IF call.op \in Senders THEN Len(stream) ELSE IF it > 0 THEN it - 1 ELSE 0
    <3>1. Units = intr + k /\ Units' = intr' + k
      BY <2>1 DEF Units
    <3>2. k \in Nat /\ intr \in Nat
      BY <1>a DEF Types, Numbers
    <3> HIDE DEF k
    <3> QED BY <2>1, <3>1, <3>2
  <2>6. Timing'
    BY <2>1, <2>2, <2>3, <2>5, <1>a, <1>b, PaidLemma DEF Types, Numbers, Timing
  <2>7. Sending'
    BY <2>1, <1>a, <1>b DEF Sending, Returned
  <2>8. OneSocket'
    BY <2>1, <1>b DEF OneSocket, Returned, Invalid
  <2> QED BY <2>1, <2>2, <2>3, <2>4, <2>6, <2>7, <2>8, <1>b, Frame DEF IInv, Types
<1>12. CASE Tick
  <2>1. /\ pc = "WAIT" /\ pc' = "WAIT" /\ left > 0 /\ left' = left - 1
        /\ elapsed' \in {elapsed, elapsed + 1}
        /\ UNCHANGED <<call, info, mode, link, err, it, intr, room, rc, rest, stream, out, fd, open>>
    BY <1>12, <1>a, <1>b DEF Tick, addrVars, sockVars, timeVars, sendVars, resVars
  <2>2. Names'
    BY <2>1, <1>a, <1>b DEF Types, Names, Places
  <2>3. Numbers'
    BY <2>1, <1>a, <1>b DEF Types, Numbers
  <2>4. Given'
    BY <2>1, <1>a, <1>b DEF Given, Senders
  <2>5. Units' = Units
    BY <2>1, <1>a, <1>b DEF Units
  <2>6. Timing'
    BY <2>1, <2>2, <2>3, <2>5, <1>a, <1>b, PaidLemma DEF Types, Numbers, Timing
  <2>7. Sending'
    BY <2>1, <1>a, <1>b DEF Sending, Returned
  <2>8. OneSocket'
    BY <2>1, <1>b DEF OneSocket, Returned, Invalid
  <2> QED BY <2>1, <2>2, <2>3, <2>4, <2>6, <2>7, <2>8, <1>b, Frame DEF IInv, Types
<1>13. CASE PeerMoves
  <2>1. /\ pc' = pc /\ pc # "RETURNED"
        /\ \/ room' = Room /\ UNCHANGED link
           \/ link' = "lost" /\ UNCHANGED room
        /\ UNCHANGED <<call, info, mode, err, it, left, elapsed, intr, rc, rest, stream, out, fd, open>>
    BY <1>13, <1>a, <1>b DEF PeerMoves, addrVars, sockVars, timeVars, sendVars, resVars
  <2>2. Names'
    BY <2>1, <1>a, <1>b DEF Types, Names, Places
  <2>3. Numbers'
    BY <2>1, <1>a, <1>b DEF Types, Numbers
  <2>4. Given'
    BY <2>1, <1>a, <1>b DEF Given, Senders
  <2>5. Units' = Units
    BY <2>1, <1>a, <1>b DEF Units
  <2>6. Timing'
    BY <2>1, <2>2, <2>3, <2>5, <1>a, <1>b, PaidLemma DEF Types, Numbers, Timing
  <2>7. Sending'
    BY <2>1, <1>a, <1>b DEF Sending, Returned
  <2>8. OneSocket'
    BY <2>1, <1>b DEF OneSocket, Returned, Invalid
  <2> QED BY <2>1, <2>2, <2>3, <2>4, <2>6, <2>7, <2>8, <1>b, Frame DEF IInv, Types
<1> QED
  <2>1. ~(Resolve \/ Accept \/ Answer)
    BY <1>b DEF Resolve, Accept, Answer, Openers
  <2>2. ~(OpenSocket \/ OpenSocketFails \/ OutOfAddresses \/ SetNonblocking
            \/ ConnectBlocking \/ ConnectNonblocking \/ CheckConnect \/ SetBlocking
            \/ BindListen \/ Finish)
    BY <1>b DEF OpenSocket, OpenSocketFails, OutOfAddresses, SetNonblocking,
                ConnectBlocking, ConnectNonblocking, CheckConnect, SetBlocking,
                BindListen, Finish
  <2> QED BY <2>1, <2>2, <1>1, <1>2, <1>3, <1>4, <1>5, <1>6, <1>7, <1>8, <1>9, <1>10, <1>11,
             <1>12, <1>13 DEF Next, Step, Environment

-----------------------------------------------------------------------------
(* The first state satisfies IInv. *)
LEMMA Start == Init => IInv
<1> SUFFICES ASSUME Init PROVE IInv
  OBVIOUS
<1>1. /\ call \in Calls /\ pc = "START" /\ it = 0 /\ info = "none" /\ mode = call.mode
      /\ left = 0 /\ elapsed = 0 /\ intr = 0 /\ rest = <<>> /\ stream = <<>>
      /\ room \in {0, Room} /\ out = Untouched /\ err = "nothing" /\ rc = 0
      /\ call.op \in Openers => fd = Invalid /\ open = {} /\ link = "none"
      /\ call.op \notin Openers => fd = 1 /\ open = {1} /\ link = "up"
  BY DEF Init
<1>2. /\ call.mode \in Modes /\ call.size \in Nat /\ Full \in Nat
      /\ call.op \in Openers => call.mode = "blocking"
  BY <1>1, CallLemma
<1>3. Names
  BY <1>1, <1>2 DEF Names, Places
<1>4. Numbers
  BY <1>1, SizeAssumption DEF Numbers
<1>5. Opening
  BY <1>1, <1>2 DEF Opening, Holding, Connecting, Trying
<1>6. Given
  BY <1>1 DEF Given
<1>7. Sending
  BY <1>1 DEF Sending, Returned
<1>8. Timing
  <2>1. Paid + Full >= 0
    <3>1. Units \in Nat
      BY <1>1 DEF Units
    <3> QED BY <1>2, <3>1, Product DEF Paid
  <2> QED BY <1>1, <2>1 DEF Timing
<1>9. OneSocket
  BY <1>1 DEF OneSocket, Returned, Invalid
<1> QED BY <1>3, <1>4, <1>5, <1>6, <1>7, <1>8, <1>9 DEF IInv, Types

(* So does a step of any call, and a stuttering step. *)
LEMMA StepKeeps == IInv /\ [Next]_vars => IInv'
<1> SUFFICES ASSUME IInv, [Next]_vars PROVE IInv'
  OBVIOUS
<1>1. CASE Next
  BY <1>1, OpenersKeep, OthersKeep
<1>2. CASE UNCHANGED vars
  <2>1. UNCHANGED <<call, pc, it, info, fd, open, mode, link, left, elapsed, intr, rest,
                    stream, room, out, err, rc>>
    BY <1>2 DEF vars, addrVars, sockVars, timeVars, sendVars, resVars
  <2>2. Types' /\ Given'
    BY <2>1 DEF IInv, Types, Names, Numbers, Given
  <2>3. Opening'
    BY <2>1 DEF IInv, Opening, Holding, Connecting
  <2>4. Sending'
    BY <2>1 DEF IInv, Sending, Returned
  <2>5. Full' = Full /\ Paid' = Paid /\ Unlimited' = Unlimited
    BY <2>1 DEF Full, Paid, Units, Unlimited
  <2>6. Timing'
    BY <2>1, <2>5 DEF IInv, Timing
  <2>7. OneSocket'
    BY <2>1 DEF IInv, OneSocket, Returned
  <2> QED BY <2>2, <2>3, <2>4, <2>6, <2>7 DEF IInv
<1> QED BY <1>1, <1>2

(* IInv holds in every reachable state. *)
THEOREM Inductive == Spec => []IInv
<1> QED BY Start, StepKeeps, PTL DEF Spec

(* OneSocket, of net.c's address loops: whichever calls of the system fail,  *)
(* on whichever address, a call never holds a second socket, and hands over  *)
(* the one that is open, connected and blocking, or leaves none.             *)
THEOREM SocketsNeverLeak == Spec => []OneSocket
<1>1. IInv => OneSocket
  BY DEF IInv
<1> QED BY <1>1, Inductive, PTL

(* Two sequences of the same bytes, and the beginning of one. *)
LEMMA SameBytes ==
    ASSUME NEW s \in Seq(Nat), NEW t \in Seq(Nat), Len(s) = Len(t),
           \A i \in 1 .. Len(s) : s[i] = t[i]
    PROVE  s = t
OBVIOUS

LEMMA Beginning ==
    ASSUME NEW m \in Seq(Nat), NEW n \in 0 .. Len(m)
    PROVE  /\ SubSeq(m, 1, n) \in Seq(Nat) /\ Len(SubSeq(m, 1, n)) = n
           /\ \A i \in 1 .. n : SubSeq(m, 1, n)[i] = m[i]
OBVIOUS

(* With its first bytes in order and no more of them than the message has,  *)
(* the stream is a beginning of the message.                                 *)
LEMMA InOrder == IInv => SendsInOrder
<1> SUFFICES ASSUME IInv, call.op \in Senders PROVE SendsInOrder
  BY DEF SendsInOrder
<1>1. /\ call.size \in Nat /\ HeaderSize \in Nat /\ call.op \notin Openers
      /\ pc \in {"START", "SEND", "WAIT", "RETURNED"}
  BY CallLemma, SizeAssumption DEF IInv, Types, Names, Given, Senders, Openers
<1>2. /\ stream \in Seq(Nat) /\ Len(stream) \in Nat /\ Len(rest) \in Nat
      /\ \A i \in 1 .. Len(stream) : stream[i] = i
  BY DEF IInv, Types, Numbers, Sending
<1>3. Len(stream) <= HeaderSize + call.size
  <2>1. CASE pc = "START"
    BY <1>1, <2>1 DEF IInv, Sending
  <2>2. CASE pc \in {"SEND", "WAIT"}
    <3>1. \/ Len(stream) + Len(rest) = HeaderSize
          \/ Len(stream) + Len(rest) = HeaderSize + call.size
      BY <2>2 DEF IInv, Sending
    <3> QED BY <1>1, <1>2, <3>1
  <2>3. CASE pc = "RETURNED"
    BY <2>3 DEF IInv, Sending, Returned
  <2> QED BY <1>1, <2>1, <2>2, <2>3
<1> DEFINE m == Message(call.size)
<1>4. /\ m \in Seq(Nat) /\ Len(m) = HeaderSize + call.size
      /\ \A i \in 1 .. HeaderSize + call.size : m[i] = i
  BY <1>1, MessageLemma
<1> HIDE DEF m
<1>5. /\ SubSeq(m, 1, Len(stream)) \in Seq(Nat)
      /\ Len(SubSeq(m, 1, Len(stream))) = Len(stream)
      /\ \A i \in 1 .. Len(stream) : SubSeq(m, 1, Len(stream))[i] = i
  <2>1. Len(stream) \in 0 .. Len(m) /\ \A i \in 1 .. Len(stream) : m[i] = i
    BY <1>1, <1>2, <1>3, <1>4
  <2> QED BY <1>4, <2>1, Beginning
<1>6. stream = SubSeq(m, 1, Len(stream))
  BY <1>2, <1>5, SameBytes
<1>7. Len(stream) = HeaderSize + call.size => stream = m
  <2> SUFFICES ASSUME Len(stream) = HeaderSize + call.size PROVE stream = m
    OBVIOUS
  <2>1. Len(stream) = Len(m) /\ \A i \in 1 .. Len(stream) : stream[i] = m[i]
    BY <1>2, <1>4
  <2> QED BY <1>2, <1>4, <2>1, SameBytes
<1>8. Returned => (rc = 0 <=> Len(stream) = HeaderSize + call.size)
  BY DEF IInv, Sending
<1>9. Returned => (rc = 0 <=> stream = m)
  BY <1>4, <1>7, <1>8
<1> QED BY <1>6, <1>9 DEF SendsInOrder, m

(* SendsInOrder, of ntap_send_all and ntap_send_all_timeout: short sends,    *)
(* full buffers and signals neither drop, repeat nor reorder a byte, and 0   *)
(* is returned exactly when the system has the whole message.                *)
THEOREM BytesInOrder == Spec => []SendsInOrder
<1> QED BY InOrder, Inductive, PTL

(* One more unit of time. *)
LEMMA OneMore == ASSUME NEW t \in Nat, NEW n \in Nat PROVE t * (1 + n) = t * n + t
OBVIOUS

(* The sum of IInv is the product of TimeBounded. *)
LEMMA Waiting == IInv => TimeBounded
<1> SUFFICES ASSUME IInv, ~Unlimited PROVE TimeBounded
  BY DEF TimeBounded
<1>1. Full \in Nat
  BY CallLemma DEF IInv, Types, Names
<1> DEFINE k == IF call.op \in Senders THEN Len(stream) ELSE IF it > 0 THEN it - 1 ELSE 0
<1>2. k \in Nat /\ intr \in Nat
  BY DEF IInv, Types, Numbers
<1>3. Units = intr + k
  BY DEF Units
<1>4. elapsed <= Paid + Full
  BY DEF IInv, Timing
<1>5. TimeBounded <=> elapsed <= Full * (1 + intr + k)
  BY DEF TimeBounded, Full
<1> HIDE DEF k
<1>6. 1 + intr + k = 1 + (intr + k) /\ intr + k \in Nat
  BY <1>2
<1>7. Full * (1 + (intr + k)) = Full * (intr + k) + Full
  BY <1>1, <1>6, OneMore
<1> QED BY <1>3, <1>4, <1>5, <1>6, <1>7 DEF Paid

(* TimeBounded, of wait_socket_ready and its callers: what a call may wait   *)
(* is its timeout for every address, for every byte and for every signal,    *)
(* which start the timeout anew, and no more.                                *)
THEOREM WaitsAreBounded == Spec => []TimeBounded
<1> QED BY Waiting, Inductive, PTL
=============================================================================
