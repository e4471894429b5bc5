-------------------------- MODULE LinuxPumpProofs --------------------------
(***************************************************************************)
(* Proofs about LinuxPump, for every MTU and every size of its buffers.    *)
(***************************************************************************)
EXTENDS LinuxPump, WellFoundedInduction, SequenceTheorems, TLAPS

(* The last piece that the peer sent is a header whose payload is missing. *)
MidFrame == IF in = <<>> THEN pc = "BODY" ELSE in[Len(in)].type = "TAP_FRAME"

(* Every payload follows its header, in the connection and in what the peer *)
(* has left to send; the first one is received in recv_msg's second call.   *)
Framed ==
    pc # "END" =>
        /\ \A i \in 1 .. Len(in) :
             in[i].type = "PAYLOAD"
               <=> IF i = 1 THEN pc = "BODY" ELSE in[i - 1].type = "TAP_FRAME"
        /\ peer = "good" /\ peerTx = <<>> => ~MidFrame
        /\ peerTx # <<>> =>
             /\ peerTx[1].type = "PAYLOAD" <=> MidFrame
             /\ Len(peerTx) = IF peerTx[1].type = "TAP_FRAME" THEN 2 ELSE 1
             /\ peerTx[1].type = "TAP_FRAME" => peerTx[2].type = "PAYLOAD"

(* Nothing is on its way from a good peer that the loop would not know. *)
Known(piece) ==
    \/ piece.type \in {"TAP_FRAME", "PAYLOAD"}
    \/ piece.type = "PONG" /\ loop = "relay"

Obeys ==
    peer = "good" =>
        /\ \A i \in 1 .. Len(in) : Known(in[i])
        /\ \A i \in 1 .. Len(peerTx) : Known(peerTx[i])

(* The direct loop sends no PING, so that nobody owes it a PONG. *)
Calm ==
    loop = "direct" =>
        /\ pongs = 0
        /\ \A i \in 1 .. Len(out) : out[i].type # "PING"
        /\ \A i \in 1 .. Len(cur) : cur[i].type # "PING"

(* The parts of TypeOK. *)
Queues ==
    /\ tapIn \in Seq(Frames) /\ Len(tapIn) <= TapRoom
    /\ cur \in Seq(Pieces) /\ peerTx \in Seq(Pieces)
    /\ out \in Seq(Pieces) /\ Len(out) <= SendRoom
    /\ in \in Seq(Pieces) /\ Len(in) <= RecvRoom
Places ==
    /\ loop \in {"relay", "direct"}
    /\ pc \in {"SELECT", "TAP", "SEND", "SOCK", "BODY", "END"}
    /\ ready \subseteq {"tap", "sock"}
    /\ pc = "TAP" => tapIn # <<>>
    /\ cur # <<>> <=> pc = "SEND"
    /\ pongs \in {0, 1} /\ peer \in {"good", "bad", "closed"} /\ failed \in BOOLEAN
Puts == put \in (Frames \union {0}) \X {0, 1}

IInv == TypeOK /\ Framed /\ Obeys /\ Calm

-----------------------------------------------------------------------------
(* Sequences, and the messages the loop and the peer send. *)
LEMMA TailFacts ==
    ASSUME NEW S, NEW s \in Seq(S), s # <<>>
    PROVE  /\ Tail(s) \in Seq(S) /\ Head(s) = s[1] /\ Head(s) \in S
           /\ Len(s) > 0 /\ Len(Tail(s)) = Len(s) - 1
           /\ \A i \in 1 .. Len(s) - 1 : Tail(s)[i] = s[i + 1]
  OBVIOUS

LEMMA EmptyFacts ==
    ASSUME NEW S, NEW s \in Seq(S)
    PROVE  Len(s) \in Nat /\ (s = <<>> <=> Len(s) = 0)
  OBVIOUS

LEMMA AppendFacts ==
    ASSUME NEW S, NEW s \in Seq(S), NEW e \in S
    PROVE  /\ Append(s, e) \in Seq(S) /\ Len(Append(s, e)) = Len(s) + 1
           /\ Append(s, e)[Len(s) + 1] = e
           /\ \A i \in 1 .. Len(s) : Append(s, e)[i] = s[i]
  OBVIOUS

LEMMA FrameMsgFacts ==
    ASSUME NEW f \in Carried
    PROVE  /\ FrameMsg(f) \in Seq(Pieces) /\ FrameMsg(f) # <<>> /\ Len(FrameMsg(f)) = 2
           /\ FrameMsg(f)[1].type = "TAP_FRAME" /\ FrameMsg(f)[2].type = "PAYLOAD"
           /\ \A i \in 1 .. Len(FrameMsg(f)) : FrameMsg(f)[i].type # "PING"
  BY DEF FrameMsg, Header, Payload, Pieces

LEMMA PingFacts == Ping \in Seq(Pieces) /\ Ping # <<>>
  BY DEF Ping, Header, Pieces

LEMMA PongFacts ==
    /\ Pong \in Seq(Pieces) /\ Pong # <<>> /\ Len(Pong) = 1 /\ Pong[1].type = "PONG"
    /\ LET e == <<Header("ERROR", 0)>>
       IN  e \in Seq(Pieces) /\ e # <<>> /\ Len(e) = 1 /\ e[1].type = "ERROR"
  BY DEF Pong, Header, Pieces

LEMMA FramedKept ==
    ASSUME Framed, pc # "END", UNCHANGED <<in, peerTx, peer>>,
           pc' = "END" \/ (pc = "BODY" <=> pc' = "BODY")
    PROVE  Framed'
  BY DEF Framed, MidFrame

(* A piece is received: the next one is a payload exactly after a header. *)
LEMMA FramedTail ==
    ASSUME Framed, in \in Seq(Pieces), in # <<>>, pc # "END", in' = Tail(in),
           peerTx' = peerTx, peer' = peer,
           pc' = "BODY" <=> in[1].type = "TAP_FRAME"
    PROVE  Framed'
<1>1. /\ Len(in) \in Nat /\ Len(in) > 0 /\ Len(in') = Len(in) - 1
      /\ \A i \in 1 .. Len(in) - 1 : in'[i] = in[i + 1]
      /\ in' = <<>> <=> Len(in) - 1 = 0
  BY TailFacts, EmptyFacts
<1>2. MidFrame' <=> MidFrame
  <2>1. CASE Len(in) = 1
    <3>1. in' = <<>>
      BY <1>1, <2>1
    <3> QED BY <2>1, <3>1 DEF MidFrame
  <2>2. CASE Len(in) > 1
    <3>1. in' # <<>> /\ Len(in') = Len(in) - 1 /\ Len(in) - 1 \in 1 .. Len(in) - 1
      BY <1>1, <2>2
    <3>2. in'[Len(in')] = in[Len(in)]
      BY <1>1, <3>1
    <3> QED BY <3>1, <3>2 DEF MidFrame
  <2> QED BY <1>1, <2>1, <2>2
<1>3. \A i \in 1 .. Len(in') :
        in'[i].type = "PAYLOAD"
          <=> IF i = 1 THEN pc' = "BODY" ELSE in'[i - 1].type = "TAP_FRAME"
  <2> SUFFICES ASSUME NEW i \in 1 .. Len(in) - 1
               PROVE  in'[i].type = "PAYLOAD"
                        <=> IF i = 1 THEN pc' = "BODY" ELSE in'[i - 1].type = "TAP_FRAME"
    BY <1>1
  <2>1. i + 1 \in 1 .. Len(in) /\ i + 1 # 1 /\ (i + 1) - 1 = i
    BY <1>1
  <2>2. in'[i].type = "PAYLOAD" <=> in[i].type = "TAP_FRAME"
    BY <1>1, <2>1 DEF Framed
  <2>3. i # 1 => i - 1 \in 1 .. Len(in) - 1 /\ (i - 1) + 1 = i
    BY <1>1
  <2>4. i # 1 => in'[i - 1] = in[i]
    BY <1>1, <2>3
  <2> QED BY <2>2, <2>4
<1> QED BY <1>2, <1>3 DEF Framed

(* The peer sends the next piece of its message. *)
LEMMA FramedAppend ==
    ASSUME Framed, in \in Seq(Pieces), peerTx \in Seq(Pieces), peerTx # <<>>,
           pc # "END", in' = Append(in, peerTx[1]), peerTx' = Tail(peerTx),
           peer' = peer, pc' = pc
    PROVE  Framed'
<1>1. /\ peerTx[1] \in Pieces /\ Len(in) \in Nat
      /\ Len(in') = Len(in) + 1 /\ in'[Len(in) + 1] = peerTx[1] /\ in' # <<>>
      /\ \A i \in 1 .. Len(in) : in'[i] = in[i]
  BY TailFacts, AppendFacts
<1>2. /\ Len(peerTx') = Len(peerTx) - 1 /\ Len(peerTx) \in Nat
      /\ peerTx' = <<>> <=> Len(peerTx) - 1 = 0
      /\ \A i \in 1 .. Len(peerTx) - 1 : peerTx'[i] = peerTx[i + 1]
  BY TailFacts, EmptyFacts
<1>3. MidFrame' <=> peerTx[1].type = "TAP_FRAME"
  BY <1>1 DEF MidFrame
<1>4. \A i \in 1 .. Len(in') :
        in'[i].type = "PAYLOAD"
          <=> IF i = 1 THEN pc' = "BODY" ELSE in'[i - 1].type = "TAP_FRAME"
  <2> SUFFICES ASSUME NEW i \in 1 .. Len(in) + 1
               PROVE  in'[i].type = "PAYLOAD"
                        <=> IF i = 1 THEN pc' = "BODY" ELSE in'[i - 1].type = "TAP_FRAME"
    BY <1>1
  <2>1. CASE i \in 1 .. Len(in)
    <3>1. i # 1 => i - 1 \in 1 .. Len(in)
      BY <1>1
    <3> QED BY <1>1, <2>1, <3>1 DEF Framed
  <2>2. CASE i = Len(in) + 1
    <3>1. peerTx[1].type = "PAYLOAD" <=> MidFrame
      BY DEF Framed
    <3>2. CASE in = <<>>
      <4>1. i = 1
        BY <2>2, <3>2
      <4> QED BY <1>1, <2>2, <3>1, <3>2, <4>1 DEF MidFrame
    <3>3. CASE in # <<>>
      <4>1. i # 1 /\ i - 1 = Len(in) /\ Len(in) \in 1 .. Len(in)
        BY <1>1, <2>2, <3>3, TailFacts
      <4> QED BY <1>1, <2>2, <3>1, <3>3, <4>1 DEF MidFrame
    <3> QED BY <3>2, <3>3
  <2> QED BY <1>1, <2>1, <2>2
<1>5. CASE peerTx[1].type = "TAP_FRAME"
  <2>1. Len(peerTx) = 2 /\ peerTx[2].type = "PAYLOAD"
    BY <1>5 DEF Framed
  <2>2. Len(peerTx') = 1 /\ peerTx' # <<>> /\ peerTx'[1] = peerTx[2]
    BY <1>2, <2>1
  <2> QED BY <1>3, <1>4, <1>5, <2>1, <2>2 DEF Framed
<1>6. CASE peerTx[1].type # "TAP_FRAME"
  <2>1. Len(peerTx') = 0 /\ peerTx' = <<>>
    <3>1. Len(peerTx) = 1
      BY <1>6 DEF Framed
    <3> QED BY <1>2, <3>1
  <2> QED BY <1>3, <1>4, <1>6, <2>1 DEF Framed
<1> QED BY <1>5, <1>6

(* The peer, with nothing left to send, begins a message. *)
LEMMA FramedStart ==
    ASSUME Framed, in' = in, pc' = pc, pc # "END", peer = "good", peerTx = <<>>,
           peerTx' # <<>>, peerTx'[1].type # "PAYLOAD",
           Len(peerTx') = IF peerTx'[1].type = "TAP_FRAME" THEN 2 ELSE 1,
           peerTx'[1].type = "TAP_FRAME" => peerTx'[2].type = "PAYLOAD"
    PROVE  Framed'
  BY DEF Framed, MidFrame

-----------------------------------------------------------------------------
(* Every step of the loop, the LAN or the peer keeps IInv. *)
LEMMA NextKeeps == IInv /\ Next => IInv'
<1> SUFFICES ASSUME IInv, Next PROVE IInv'
  OBVIOUS
<1>a. Queues /\ Places /\ Puts /\ Framed /\ Obeys /\ Calm
  BY DEF IInv, TypeOK, Queues, Places, Puts
<1>b. /\ tapIn \in Seq(Frames) /\ cur \in Seq(Pieces) /\ out \in Seq(Pieces)
      /\ in \in Seq(Pieces) /\ peerTx \in Seq(Pieces)
  BY <1>a DEF Queues
<1>c. TapRoom \in Nat /\ SendRoom \in Nat /\ RecvRoom \in Nat
  BY RoomAssumption
<1>1. CASE SelectReady
  <2>1. Queues'
    BY <1>1, <1>a DEF Queues, wire, SelectReady
  <2>2. Places'
    BY <1>1, <1>a DEF Places, wire, SelectReady, FirstServed, Readable
  <2>3. Puts'
    BY <1>1, <1>a DEF Puts, SelectReady
  <2>4. Framed'
    BY <1>1, <1>a, FramedKept DEF wire, SelectReady, FirstServed
  <2>5. Obeys'
    BY <1>1, <1>a DEF Obeys, Known, wire, SelectReady
  <2>6. Calm'
    BY <1>1, <1>a DEF Calm, wire, SelectReady
  <2> QED BY <2>1, <2>2, <2>3, <2>4, <2>5, <2>6 DEF IInv, TypeOK, Queues, Places,
             Puts
<1>2. CASE SelectTimeout
  <2>1. Queues'
    BY <1>2, <1>a, PingFacts DEF Queues, wire, SelectTimeout
  <2>2. Places'
    BY <1>2, <1>a, PingFacts DEF Places, wire, SelectTimeout
  <2>3. Puts'
    BY <1>2, <1>a DEF Puts, SelectTimeout
  <2>4. Framed'
    BY <1>2, <1>a, FramedKept DEF wire, SelectTimeout
  <2>5. Obeys'
    BY <1>2, <1>a DEF Obeys, Known, wire, SelectTimeout
  <2>6. Calm'
    BY <1>2 DEF Calm, SelectTimeout
  <2> QED BY <2>1, <2>2, <2>3, <2>4, <2>5, <2>6 DEF IInv, TypeOK, Queues, Places,
             Puts
<1>3. CASE TapReadFrame
  <2>1. tapIn # <<>>
    BY <1>3, <1>a DEF Places, TapReadFrame
  <2>2. /\ Tail(tapIn) \in Seq(Frames) /\ Head(tapIn) = tapIn[1] /\ Head(tapIn) \in Frames
        /\ Len(tapIn) > 0 /\ Len(Tail(tapIn)) = Len(tapIn) - 1
        /\ \A i \in 1 .. Len(tapIn) - 1 : Tail(tapIn)[i] = tapIn[i + 1]
    BY <2>1, <1>b
  <2>3. Head(tapIn) \in Carried
    BY <2>2, <1>3 DEF TapReadFrame, Carried
  <2>4. /\ FrameMsg(Head(tapIn)) \in Seq(Pieces) /\ FrameMsg(Head(tapIn)) # <<>>
        /\ \A i \in 1 .. Len(FrameMsg(Head(tapIn))) : FrameMsg(Head(tapIn))[i].type # "PING"
    BY <2>3, FrameMsgFacts
  <2>5. Queues'
    BY <1>3, <1>a, <1>c, <2>2, <2>4 DEF Queues, wire, TapReadFrame
  <2>6. Places'
    BY <1>3, <1>a, <2>4 DEF Places, wire, TapReadFrame
  <2>7. Puts'
    BY <1>3, <1>a DEF Puts, TapReadFrame
  <2>8. Framed'
    BY <1>3, <1>a, FramedKept DEF wire, TapReadFrame
  <2>9. Obeys'
    BY <1>3, <1>a DEF Obeys, Known, wire, TapReadFrame
  <2>10. Calm'
    BY <1>3, <1>a, <2>4 DEF Calm, wire, TapReadFrame
  <2> QED BY <2>5, <2>6, <2>7, <2>8, <2>9, <2>10 DEF IInv, TypeOK, Queues, Places,
             Puts
<1>4. CASE TapReadDropped
  <2>1. tapIn # <<>>
    BY <1>4, <1>a DEF Places, TapReadDropped
  <2>2. /\ Tail(tapIn) \in Seq(Frames) /\ Head(tapIn) = tapIn[1] /\ Head(tapIn) \in Frames
        /\ Len(tapIn) > 0 /\ Len(Tail(tapIn)) = Len(tapIn) - 1
        /\ \A i \in 1 .. Len(tapIn) - 1 : Tail(tapIn)[i] = tapIn[i + 1]
    BY <2>1, <1>b
  <2>3. Queues'
    BY <1>4, <1>a, <1>c, <2>2 DEF Queues, wire, TapReadDropped
  <2>4. Places'
    BY <1>4, <1>a DEF Places, wire, TapReadDropped, AfterTap
  <2>5. Puts'
    BY <1>4, <1>a DEF Puts, TapReadDropped
  <2>6. Framed'
    BY <1>4, <1>a, FramedKept DEF wire, TapReadDropped, AfterTap
  <2>7. Obeys'
    BY <1>4, <1>a DEF Obeys, Known, wire, TapReadDropped
  <2>8. Calm'
    BY <1>4, <1>a DEF Calm, wire, TapReadDropped
  <2> QED BY <2>3, <2>4, <2>5, <2>6, <2>7, <2>8 DEF IInv, TypeOK, Queues, Places,
             Puts
<1>5. CASE SendPiece
  <2>1. cur # <<>>
    BY <1>5, <1>a DEF Places, SendPiece
  <2>2. /\ Tail(cur) \in Seq(Pieces) /\ Head(cur) = cur[1] /\ Head(cur) \in Pieces
        /\ Len(cur) > 0 /\ Len(Tail(cur)) = Len(cur) - 1
        /\ \A i \in 1 .. Len(cur) - 1 : Tail(cur)[i] = cur[i + 1]
    BY <2>1, <1>b
  <2>3. /\ Append(out, Head(cur)) \in Seq(Pieces)
        /\ Len(Append(out, Head(cur))) = Len(out) + 1
        /\ Append(out, Head(cur))[Len(out) + 1] = Head(cur)
        /\ \A i \in 1 .. Len(out) : Append(out, Head(cur))[i] = out[i]
    BY <2>2, <1>b
  <2>4. Queues'
    BY <1>5, <1>a, <1>c, <2>2 DEF Queues, SendPiece
  <2>5. Places'
    BY <1>5, <1>a DEF Places, SendPiece, AfterSend, AfterTap
  <2>6. Puts'
    BY <1>5, <1>a DEF Puts, SendPiece
  <2>7. Framed'
    BY <1>5, <1>a, FramedKept DEF SendPiece, AfterSend, AfterTap
  <2>8. Obeys'
    BY <1>5, <1>a DEF Obeys, Known, SendPiece
  <2>9. Calm'
    BY <1>5, <1>a, <2>2 DEF Calm, SendPiece
  <2> QED BY <2>4, <2>5, <2>6, <2>7, <2>8, <2>9 DEF IInv, TypeOK, Queues, Places,
             Puts
<1>6. CASE RecvFrameHeader
  <2>1. in # <<>>
    BY <1>6 DEF RecvFrameHeader
  <2>2. /\ Tail(in) \in Seq(Pieces) /\ Head(in) = in[1] /\ Head(in) \in Pieces
        /\ Len(in) > 0 /\ Len(Tail(in)) = Len(in) - 1
        /\ \A i \in 1 .. Len(in) - 1 : Tail(in)[i] = in[i + 1]
    BY <2>1, <1>b
  <2>3. Queues'
    BY <1>6, <1>a, <1>c DEF Queues, RecvFrameHeader
  <2>4. Places'
    BY <1>6, <1>a DEF Places, RecvFrameHeader
  <2>5. Puts'
    BY <1>6, <1>a DEF Puts, RecvFrameHeader
  <2>6. pc' = "BODY" <=> in[1].type = "TAP_FRAME"
    BY <1>6 DEF RecvFrameHeader
  <2>7. Framed'
    BY <1>6, <1>a, <2>2, FramedTail DEF RecvFrameHeader
  <2>8. Obeys'
    BY <1>6, <1>a DEF Obeys, Known, RecvFrameHeader
  <2>9. Calm'
    BY <1>6, <1>a DEF Calm, RecvFrameHeader
  <2> QED BY <2>3, <2>4, <2>5, <2>7, <2>8, <2>9 DEF IInv, TypeOK, Queues, Places,
             Puts
<1>7. CASE RecvFrame
  <2>1. in # <<>>
    BY <1>7 DEF RecvFrame
  <2>2. /\ Tail(in) \in Seq(Pieces) /\ Head(in) = in[1] /\ Head(in) \in Pieces
        /\ Len(in) > 0 /\ Len(Tail(in)) = Len(in) - 1
        /\ \A i \in 1 .. Len(in) - 1 : Tail(in)[i] = in[i + 1]
    BY <2>1, <1>b
  <2>3. Queues'
    BY <1>7, <1>a, <1>c DEF Queues, RecvFrame
  <2>4. Places'
    BY <1>7, <1>a DEF Places, RecvFrame
  <2>5. Puts'
    BY <1>7, <1>a, <2>2 DEF Puts, RecvFrame, Pieces, Carried
  <2>6. pc' = "BODY" <=> in[1].type = "TAP_FRAME"
    BY <1>7, <1>a DEF Framed, RecvFrame
  <2>7. Framed'
    BY <1>7, <1>a, <2>2, <2>6, FramedTail DEF RecvFrame
  <2>8. Obeys'
    BY <1>7, <1>a DEF Obeys, Known, RecvFrame
  <2>9. Calm'
    BY <1>7, <1>a DEF Calm, RecvFrame
  <2> QED BY <2>3, <2>4, <2>5, <2>7, <2>8, <2>9 DEF IInv, TypeOK, Queues, Places,
             Puts
<1>8. CASE RecvPong
  <2>1. in # <<>>
    BY <1>8 DEF RecvPong
  <2>2. /\ Tail(in) \in Seq(Pieces) /\ Head(in) = in[1] /\ Head(in) \in Pieces
        /\ Len(in) > 0 /\ Len(Tail(in)) = Len(in) - 1
        /\ \A i \in 1 .. Len(in) - 1 : Tail(in)[i] = in[i + 1]
    BY <2>1, <1>b
  <2>3. Queues'
    BY <1>8, <1>a, <1>c DEF Queues, RecvPong
  <2>4. Places'
    BY <1>8, <1>a DEF Places, RecvPong
  <2>5. Puts'
    BY <1>8, <1>a DEF Puts, RecvPong
  <2>6. pc' = "BODY" <=> in[1].type = "TAP_FRAME"
    BY <1>8 DEF RecvPong
  <2>7. Framed'
    BY <1>8, <1>a, <2>2, FramedTail DEF RecvPong
  <2>8. Obeys'
    BY <1>8, <1>a DEF Obeys, Known, RecvPong
  <2>9. Calm'
    BY <1>8 DEF Calm, RecvPong
  <2> QED BY <2>3, <2>4, <2>5, <2>7, <2>8, <2>9 DEF IInv, TypeOK, Queues, Places,
             Puts
<1>9. CASE RecvReject
  <2>1. in # <<>>
    BY <1>9 DEF RecvReject
  <2>2. /\ Tail(in) \in Seq(Pieces) /\ Head(in) = in[1] /\ Head(in) \in Pieces
        /\ Len(in) > 0 /\ Len(Tail(in)) = Len(in) - 1
        /\ \A i \in 1 .. Len(in) - 1 : Tail(in)[i] = in[i + 1]
    BY <2>1, <1>b
  <2>3. Queues'
    BY <1>9, <1>a, <1>c DEF Queues, RecvReject
  <2>4. Places'
    BY <1>9, <1>a DEF Places, RecvReject
  <2>5. Puts'
    BY <1>9, <1>a DEF Puts, RecvReject
  <2>6. Framed'
    BY <1>9 DEF Framed, RecvReject
  <2>7. Obeys'
    BY <1>9, <1>a DEF Obeys, Known, RecvReject
  <2>8. Calm'
    BY <1>9, <1>a DEF Calm, RecvReject
  <2> QED BY <2>3, <2>4, <2>5, <2>6, <2>7, <2>8 DEF IInv, TypeOK, Queues, Places,
             Puts
<1>10. CASE RecvEof
  <2>1. Queues'
    BY <1>10, <1>a DEF Queues, wire, RecvEof
  <2>2. Places'
    BY <1>10, <1>a DEF Places, wire, RecvEof
  <2>3. Puts'
    BY <1>10, <1>a DEF Puts, RecvEof
  <2>4. Framed'
    BY <1>10, <1>a, FramedKept DEF wire, RecvEof
  <2>5. Obeys'
    BY <1>10 DEF Obeys, wire, RecvEof
  <2>6. Calm'
    BY <1>10, <1>a DEF Calm, wire, RecvEof
  <2> QED BY <2>1, <2>2, <2>3, <2>4, <2>5, <2>6 DEF IInv, TypeOK, Queues, Places,
             Puts
<1>11. CASE CallFails
  <2>1. Queues'
    BY <1>11, <1>a DEF Queues, wire, CallFails
  <2>2. Places'
    BY <1>11, <1>a DEF Places, wire, CallFails
  <2>3. Puts'
    BY <1>11, <1>a DEF Puts, CallFails
  <2>4. Framed'
    BY <1>11, <1>a, FramedKept DEF wire, CallFails
  <2>5. Obeys'
    BY <1>11, <1>a DEF Obeys, Known, wire, CallFails
  <2>6. Calm'
    BY <1>11, <1>a DEF Calm, wire, CallFails
  <2> QED BY <2>1, <2>2, <2>3, <2>4, <2>5, <2>6 DEF IInv, TypeOK, Queues, Places,
             Puts
<1>12. CASE PeerReads
  <2>1. out # <<>>
    BY <1>12 DEF PeerReads
  <2>2. /\ Tail(out) \in Seq(Pieces) /\ Head(out) = out[1] /\ Head(out) \in Pieces
        /\ Len(out) > 0 /\ Len(Tail(out)) = Len(out) - 1
        /\ \A i \in 1 .. Len(out) - 1 : Tail(out)[i] = out[i + 1]
    BY <2>1, <1>b
  <2>3. Queues'
    BY <1>12, <1>a, <1>c DEF Queues, PeerReads
  <2>4. Places'
    BY <1>12, <1>a DEF Places, PeerReads
  <2>5. Puts'
    BY <1>12, <1>a DEF Puts, PeerReads
  <2>6. Framed'
    BY <1>12, <1>a, FramedKept DEF PeerReads
  <2>7. Obeys'
    BY <1>12, <1>a DEF Obeys, Known, PeerReads
  <2>8. Calm'
    BY <1>12, <1>a DEF Calm, PeerReads
  <2> QED BY <2>3, <2>4, <2>5, <2>6, <2>7, <2>8 DEF IInv, TypeOK, Queues, Places,
             Puts
<1>13. CASE PeerStartsPong
  <2>1. Queues'
    BY <1>13, <1>a, PongFacts DEF Queues, PeerStartsPong
  <2>2. Places'
    BY <1>13, <1>a DEF Places, PeerStartsPong
  <2>3. Puts'
    BY <1>13, <1>a DEF Puts, PeerStartsPong
  <2>4. Framed'
    BY <1>13, <1>a, PongFacts, FramedStart DEF PeerStartsPong
  <2>5. Obeys'
    BY <1>13, <1>a, PongFacts DEF Obeys, Known, Calm, Places, PeerStartsPong
  <2>6. Calm'
    BY <1>13, <1>a DEF Calm, PeerStartsPong
  <2> QED BY <2>1, <2>2, <2>3, <2>4, <2>5, <2>6 DEF IInv, TypeOK, Queues, Places,
             Puts
<1>14. CASE PeerMisbehaves
  <2>1. Queues'
    BY <1>14, <1>a, PongFacts DEF Queues, PeerMisbehaves
  <2>2. Places'
    BY <1>14, <1>a DEF Places, PeerMisbehaves
  <2>3. Puts'
    BY <1>14, <1>a DEF Puts, PeerMisbehaves
  <2>4. Framed'
    BY <1>14, <1>a, PongFacts DEF Framed, MidFrame, PeerMisbehaves
  <2>5. Obeys'
    BY <1>14 DEF Obeys, PeerMisbehaves
  <2>6. Calm'
    BY <1>14, <1>a DEF Calm, PeerMisbehaves
  <2> QED BY <2>1, <2>2, <2>3, <2>4, <2>5, <2>6 DEF IInv, TypeOK, Queues, Places,
             Puts
<1>15. CASE PeerSends
  <2>1. peerTx # <<>>
    BY <1>15 DEF PeerSends
  <2>2. Head(peerTx) \in Pieces /\ Head(peerTx) = peerTx[1]
    BY <2>1, <1>b
  <2>3. /\ Append(in, Head(peerTx)) \in Seq(Pieces)
        /\ Len(Append(in, Head(peerTx))) = Len(in) + 1
        /\ Append(in, Head(peerTx))[Len(in) + 1] = Head(peerTx)
        /\ \A i \in 1 .. Len(in) : Append(in, Head(peerTx))[i] = in[i]
    BY <2>2, <1>b
  <2>4. peerTx # <<>>
    BY <1>15 DEF PeerSends
  <2>5. /\ Tail(peerTx) \in Seq(Pieces) /\ Head(peerTx) = peerTx[1] /\ Head(peerTx) \in Pieces
        /\ Len(peerTx) > 0 /\ Len(Tail(peerTx)) = Len(peerTx) - 1
        /\ \A i \in 1 .. Len(peerTx) - 1 : Tail(peerTx)[i] = peerTx[i + 1]
    BY <2>4, <1>b
  <2>6. Queues'
    BY <1>15, <1>a, <1>c DEF Queues, PeerSends
  <2>7. Places'
    BY <1>15, <1>a DEF Places, PeerSends
  <2>8. Puts'
    BY <1>15, <1>a DEF Puts, PeerSends
  <2>9. Framed'
    BY <1>15, <1>a, <2>3, <2>5, FramedAppend DEF PeerSends
  <2>10. peer = "good" => \A i \in 1 .. Len(in') : Known(in'[i])
    BY <1>15, <1>a DEF Obeys, PeerSends
  <2>11. peer = "good" => \A i \in 1 .. Len(peerTx') : Known(peerTx'[i])
    BY <1>15, <1>a DEF Obeys, PeerSends
  <2>12. Obeys'
    BY <1>15, <2>10, <2>11 DEF Obeys, Known, PeerSends
  <2>13. Calm'
    BY <1>15, <1>a DEF Calm, PeerSends
  <2> QED BY <2>6, <2>7, <2>8, <2>9, <2>12, <2>13 DEF IInv, TypeOK, Queues,
             Places, Puts
<1>16. CASE PeerCloses
  <2>1. Queues'
    BY <1>16, <1>a, <1>c DEF Queues, PeerCloses
  <2>2. Places'
    BY <1>16, <1>a DEF Places, PeerCloses
  <2>3. Puts'
    BY <1>16, <1>a DEF Puts, PeerCloses
  <2>4. Framed'
    BY <1>16, <1>a DEF Framed, PeerCloses
  <2>5. Obeys'
    BY <1>16 DEF Obeys, PeerCloses
  <2>6. Calm'
    BY <1>16, <1>a DEF Calm, PeerCloses
  <2> QED BY <2>1, <2>2, <2>3, <2>4, <2>5, <2>6 DEF IInv, TypeOK, Queues, Places,
             Puts
<1>17. CASE \E f \in Frames : LanSends(f)
  <2>1. Queues'
    BY <1>17, <1>a, <1>c DEF Queues, wire, LanSends
  <2>2. Places'
    BY <1>17, <1>a DEF Places, wire, LanSends
  <2>3. Puts'
    BY <1>17, <1>a DEF Puts, LanSends
  <2>4. Framed'
    BY <1>17, <1>a, FramedKept DEF wire, LanSends
  <2>5. Obeys'
    BY <1>17, <1>a DEF Obeys, Known, wire, LanSends
  <2>6. Calm'
    BY <1>17, <1>a DEF Calm, wire, LanSends
  <2> QED BY <2>1, <2>2, <2>3, <2>4, <2>5, <2>6 DEF IInv, TypeOK, Queues, Places,
             Puts
<1>18. CASE \E f \in Carried : PeerStartsFrame(f)
  <2>1. PICK f \in Carried : PeerStartsFrame(f)
    BY <1>18
  <2>2. /\ FrameMsg(f) \in Seq(Pieces) /\ FrameMsg(f) # <<>> /\ Len(FrameMsg(f)) = 2
        /\ FrameMsg(f)[1].type = "TAP_FRAME" /\ FrameMsg(f)[2].type = "PAYLOAD"
        /\ \A i \in 1 .. 2 : FrameMsg(f)[i].type \in {"TAP_FRAME", "PAYLOAD"}
    BY FrameMsgFacts
  <2>3. Queues'
    BY <2>1, <2>2, <1>a DEF Queues, PeerStartsFrame
  <2>4. Places' /\ Puts' /\ Calm'
    BY <2>1, <1>a DEF Places, Puts, Calm, PeerStartsFrame
  <2>5. Framed'
    BY <2>1, <2>2, <1>a, FramedStart DEF PeerStartsFrame
  <2>6. Obeys'
    <3>1. /\ peerTx' = FrameMsg(f) /\ Len(peerTx') = 2
          /\ in' = in /\ loop' = loop /\ peer' = "good" /\ peer = "good"
      BY <2>1, <2>2 DEF PeerStartsFrame
    <3>2. \A i \in 1 .. 2 : Known(FrameMsg(f)[i])
      BY <2>2 DEF Known
    <3>3. \A i \in 1 .. Len(peerTx') : Known(peerTx'[i])
      BY <3>1, <3>2
    <3> QED BY <3>1, <3>3, <1>a DEF Obeys, Known
  <2> QED BY <2>3, <2>4, <2>5, <2>6 DEF IInv, TypeOK, Queues, Places, Puts
<1> QED BY <1>1, <1>2, <1>3, <1>4, <1>5, <1>6, <1>7, <1>8, <1>9, <1>10, <1>11,
       <1>12, <1>13, <1>14, <1>15, <1>16, <1>17, <1>18 DEF Next, Pump, External

LEMMA StepKeeps == IInv /\ [Next]_vars => IInv'
<1>1. IInv /\ UNCHANGED vars => IInv'
  BY DEF IInv, TypeOK, Framed, MidFrame, Obeys, Known, Calm, vars
<1> QED BY <1>1, NextKeeps

LEMMA Start == Init => IInv
<1> SUFFICES ASSUME Init PROVE IInv
  OBVIOUS
<1>1. Queues /\ Places /\ Puts
  <2>1. Queues
    BY PingFacts, RoomAssumption DEF Init, Queues
  <2>2. Places
    BY PingFacts DEF Init, Places
  <2> QED BY <2>1, <2>2 DEF Init, Puts
<1>2. Framed /\ Obeys
  BY DEF Init, Framed, MidFrame, Obeys
<1>3. Calm
  BY DEF Init, Calm
<1> QED BY <1>1, <1>2, <1>3 DEF IInv, TypeOK, Queues, Places, Puts

-----------------------------------------------------------------------------
(* IInv holds in every reachable state. *)
THEOREM Inductive == Spec => []IInv
<1> QED BY Start, StepKeeps, PTL DEF Spec

(* TypeOK: in particular ntap_tap_read is called only when there is a frame, *)
(* and a message is being sent exactly while the loop is in ntap_send_all.   *)
THEOREM TypeCorrect == Spec => []TypeOK
<1>1. IInv => TypeOK
  BY DEF IInv
<1> QED BY <1>1, Inductive, PTL

(* ConformingPeerKeepsLoop, of ntap_payload_length_allowed and the frame     *)
(* limit of the loops: for an MTU of up to 1408 neither ends its connection  *)
(* over what a peer sends that keeps to the protocol.  Beyond 1408 that is   *)
(* not so.                                                                   *)
THEOREM SmallMtuKeepsLoop ==
    ASSUME Mtu + 18 + TapOverhead <= DefaultMtu + TapPayloadExtra
    PROVE  Spec => []ConformingPeerKeepsLoop
<1>1. Init => ConformingPeerKeepsLoop
  BY DEF Init, ConformingPeerKeepsLoop
<1>2. IInv /\ ConformingPeerKeepsLoop /\ [Next]_vars => ConformingPeerKeepsLoop'
  <2> SUFFICES ASSUME IInv, ConformingPeerKeepsLoop, Next PROVE ConformingPeerKeepsLoop'
    BY DEF vars, ConformingPeerKeepsLoop
  <2>1. CASE RecvReject
    <3> SUFFICES ASSUME peer = "good" PROVE FALSE
      BY <2>1 DEF RecvReject, ConformingPeerKeepsLoop
    <3>1. in \in Seq(Pieces) /\ in # <<>> /\ pc = "SOCK"
      BY <2>1 DEF RecvReject, IInv, TypeOK
    <3>2. Head(in) = in[1] /\ in[1] \in Pieces /\ 1 \in 1 .. Len(in)
      BY <3>1
    <3>3. in[1].type # "PAYLOAD" /\ Known(in[1])
      BY <3>1 DEF IInv, Framed, Obeys
    <3>4. in[1].type = "TAP_FRAME" => in[1].len \in Carried
      BY <3>2 DEF Pieces
    <3>5. in[1].type = "TAP_FRAME" => Admitted(in[1])
      BY <3>4, MtuAssumption DEF Admitted, Carried, Fits, Frames, TapOverhead,
             DefaultMtu, TapPayloadExtra
    <3> QED BY <2>1, <3>3, <3>5 DEF RecvReject, Known
  <2>2. CASE ~RecvReject
    BY <2>2 DEF ConformingPeerKeepsLoop, Next, Pump, External, wire, SelectReady,
           FirstServed, SelectTimeout, TapReadFrame, TapReadDropped, AfterTap,
           SendPiece, AfterSend, RecvFrameHeader, RecvFrame, RecvPong, RecvEof,
           CallFails, LanSends, PeerStartsFrame, PeerReads, PeerStartsPong,
           PeerMisbehaves, PeerSends, PeerCloses
  <2> QED BY <2>1, <2>2
<1> QED BY <1>1, <1>2, Inductive, PTL DEF Spec

-----------------------------------------------------------------------------
(* Every set of numbers has a least one, and so holds them all once it      *)
(* holds 0 and the successor of each.                                       *)
LEMMA LeastNumber ==
    ASSUME NEW T \in SUBSET Nat, T # {}
    PROVE  \E n \in T : \A m \in T : n <= m
<1> DEFINE R == OpToRel(<, Nat)
<1>1. \A m, n \in Nat : <<m, n>> \in R <=> m < n
  BY DEF OpToRel
<1>2. IsWellFoundedOn(R, Nat)
  BY NatLessThanWellFounded
<1> HIDE DEF R
<1>3. PICK n \in T : \A m \in T : <<m, n>> \notin R
  BY <1>2, WFMin
<1>4. \A m \in T : m \in Nat /\ n \in Nat /\ ~(m < n)
  BY <1>1, <1>3
<1>5. \A m \in T : n <= m
  BY <1>4
<1> QED BY <1>5

LEMMA AllNumbers ==
    ASSUME NEW P \in SUBSET Nat, 0 \in P, \A n \in P : n + 1 \in P
    PROVE  P = Nat
<1> SUFFICES ASSUME P # Nat PROVE FALSE
  OBVIOUS
<1>1. PICK n \in Nat \ P : \A m \in Nat \ P : n <= m
  BY LeastNumber
<1>2. n # 0 /\ n - 1 \in Nat
  BY <1>1
<1>3. n - 1 \in P
  BY <1>1, <1>2
<1> QED BY <1>1, <1>2, <1>3

(* The frame that a piece completes, after those of the pieces before it. *)
Counted(frames, piece) ==
    IF piece.type = "PAYLOAD" THEN Append(frames, piece.len) ELSE frames

CountedUpTo(s, f) ==
    /\ f = [n \in 0 .. Len(s) |-> IF n = 0 THEN <<>> ELSE Counted(f[n - 1], s[n])]

(* FramesIn is defined by recursion. *)
LEMMA FramesRecursion ==
    ASSUME NEW s \in Seq(Pieces)
    PROVE  \E f : CountedUpTo(s, f) /\ FramesIn(s) = f[Len(s)]
<1> DEFINE Upto(k, g) == g = [n \in 0 .. k |-> IF n = 0 THEN <<>> ELSE Counted(g[n - 1], s[n])]
           P == {k \in Nat : \E g : Upto(k, g)}
<1>1. 0 \in P
  <2>1. Upto(0, [n \in 0 .. 0 |-> <<>>])
    OBVIOUS
  <2> QED BY <2>1
<1>2. ASSUME NEW k \in P PROVE k + 1 \in P
  <2>1. PICK g : Upto(k, g)
    OBVIOUS
  <2> DEFINE h == [n \in 0 .. k + 1 |-> IF n = k + 1 THEN Counted(g[k], s[k + 1]) ELSE g[n]]
  <2>2. \A n \in 0 .. k + 1 : h[n] = IF n = 0 THEN <<>> ELSE Counted(h[n - 1], s[n])
    <3> SUFFICES ASSUME NEW n \in 0 .. k + 1
                 PROVE  h[n] = IF n = 0 THEN <<>> ELSE Counted(h[n - 1], s[n])
      OBVIOUS
    <3>1. CASE n = k + 1
      <4>1. n # 0 /\ n - 1 = k /\ k \in 0 .. k + 1 /\ k # k + 1
        BY <3>1
      <4> QED BY <3>1, <4>1
    <3>2. CASE n = 0
      <4>1. 0 \in 0 .. k /\ 0 # k + 1
        OBVIOUS
      <4> QED BY <2>1, <3>2, <4>1
    <3>3. CASE n # 0 /\ n # k + 1
      <4>1. n \in 0 .. k /\ n - 1 \in 0 .. k + 1 /\ n - 1 # k + 1
        BY <3>3
      <4> QED BY <2>1, <3>3, <4>1
    <3> QED BY <3>1, <3>2, <3>3
  <2>3. Upto(k + 1, h)
    BY <2>2
  <2>4. k + 1 \in Nat
    OBVIOUS
  <2>5. \E x : Upto(k + 1, x)
    BY <2>3
  <2> HIDE DEF Upto, h
  <2> QED BY <2>4, <2>5
<1>3. P = Nat
  BY <1>1, <1>2, AllNumbers
<1> DEFINE f == CHOOSE g : Upto(Len(s), g)
<1>4. Upto(Len(s), f)
  <2>1. Len(s) \in P
    BY <1>3
  <2> QED BY <2>1
<1>5. FramesIn(s) = f[Len(s)]
  BY DEF FramesIn, Counted
<1> QED BY <1>4, <1>5 DEF CountedUpTo

(* It takes the payloads of any pieces. *)
LEMMA FramesType ==
    ASSUME NEW s \in Seq(Pieces)
    PROVE  FramesIn(s) \in Seq(Int)
<1>1. PICK f : CountedUpTo(s, f) /\ FramesIn(s) = f[Len(s)]
  BY FramesRecursion
<1> DEFINE P == {n \in Nat : n <= Len(s) => f[n] \in Seq(Int)}
<1>2. 0 \in P
  BY <1>1 DEF CountedUpTo
<1>3. ASSUME NEW n \in P PROVE n + 1 \in P
  <2> SUFFICES ASSUME n + 1 <= Len(s) PROVE f[n + 1] \in Seq(Int)
    OBVIOUS
  <2>1. n \in 0 .. Len(s) /\ n + 1 \in 1 .. Len(s) /\ (n + 1) - 1 = n /\ n + 1 # 0
    OBVIOUS
  <2>2. f[n + 1] = Counted(f[n], s[n + 1])
    BY <1>1, <2>1 DEF CountedUpTo
  <2>3. f[n] \in Seq(Int)
    BY <2>1
  <2>4. s[n + 1] \in Pieces /\ s[n + 1].len \in Int
    <3>1. s[n + 1] \in Pieces
      BY <2>1
    <3> QED BY <3>1, MtuAssumption DEF Pieces, Carried, Frames, MinMtu, MaxMtu
  <2> QED BY <2>2, <2>3, <2>4 DEF Counted
<1>4. P = Nat
  BY <1>2, <1>3, AllNumbers
<1>5. Len(s) \in P
  BY <1>4
<1> QED BY <1>1, <1>5

LEMMA FramesEmpty == FramesIn(<<>>) = <<>>
<1>1. <<>> \in Seq(Pieces) /\ Len(<<>>) = 0
  OBVIOUS
<1>2. PICK f : CountedUpTo(<<>>, f) /\ FramesIn(<<>>) = f[Len(<<>>)]
  BY <1>1, FramesRecursion
<1> QED BY <1>1, <1>2 DEF CountedUpTo

LEMMA FramesAppend ==
    ASSUME NEW s \in Seq(Pieces), NEW e \in Pieces
    PROVE  FramesIn(Append(s, e)) = Counted(FramesIn(s), e)
<1> DEFINE t == Append(s, e)
<1>1. /\ t \in Seq(Pieces) /\ Len(t) = Len(s) + 1 /\ Len(s) \in Nat
      /\ t[Len(s) + 1] = e /\ \A n \in 1 .. Len(s) : t[n] = s[n]
  OBVIOUS
<1> HIDE DEF t
<1>2. PICK f : CountedUpTo(s, f) /\ FramesIn(s) = f[Len(s)]
  BY FramesRecursion
<1>3. PICK g : CountedUpTo(t, g) /\ FramesIn(t) = g[Len(t)]
  BY <1>1, FramesRecursion
<1> DEFINE P == {n \in Nat : n <= Len(s) => f[n] = g[n]}
<1>4. 0 \in P
  BY <1>1, <1>2, <1>3 DEF CountedUpTo
<1>5. ASSUME NEW n \in P PROVE n + 1 \in P
  <2> SUFFICES ASSUME n + 1 <= Len(s) PROVE f[n + 1] = g[n + 1]
    OBVIOUS
  <2>1. /\ n + 1 \in 1 .. Len(s) /\ n + 1 \in 0 .. Len(s) /\ n + 1 \in 0 .. Len(t)
        /\ (n + 1) - 1 = n /\ n + 1 # 0 /\ n <= Len(s)
    BY <1>1
  <2>2. f[n + 1] = Counted(f[n], s[n + 1])
    BY <1>2, <2>1 DEF CountedUpTo
  <2>3. g[n + 1] = Counted(g[n], t[n + 1])
    BY <1>3, <2>1 DEF CountedUpTo
  <2> QED BY <1>1, <2>1, <2>2, <2>3
<1>6. P = Nat
  BY <1>4, <1>5, AllNumbers
<1>7. f[Len(s)] = g[Len(s)]
  <2>1. Len(s) \in P
    BY <1>1, <1>6
  <2> QED BY <1>1, <2>1
<1>8. g[Len(t)] = Counted(g[Len(s)], e)
  <2>1. Len(t) \in 0 .. Len(t) /\ Len(t) # 0 /\ Len(t) - 1 = Len(s) /\ t[Len(t)] = e
    BY <1>1
  <2> QED BY <1>3, <2>1 DEF CountedUpTo
<1> QED BY <1>2, <1>3, <1>7, <1>8 DEF t

LEMMA AppendConcat ==
    ASSUME NEW S, NEW s \in Seq(S), NEW t \in Seq(S), NEW e \in S
    PROVE  s \o Append(t, e) = Append(s \o t, e)
  OBVIOUS

(* The frames in two parts of the wire are those of one, then the other. *)
LEMMA FramesConcat ==
    ASSUME NEW s \in Seq(Pieces), NEW t \in Seq(Pieces)
    PROVE  FramesIn(s \o t) = FramesIn(s) \o FramesIn(t)
<1> DEFINE P == {n \in Nat : \A u \in Seq(Pieces) :
                   Len(u) = n => FramesIn(s \o u) = FramesIn(s) \o FramesIn(u)}
<1>1. 0 \in P
  <2> SUFFICES ASSUME NEW u \in Seq(Pieces), Len(u) = 0
               PROVE  FramesIn(s \o u) = FramesIn(s) \o FramesIn(u)
    OBVIOUS
  <2>1. u = <<>> /\ s \o u = s
    OBVIOUS
  <2>2. FramesIn(s) \o <<>> = FramesIn(s)
    BY FramesType
  <2> QED BY <2>1, <2>2, FramesEmpty
<1>2. ASSUME NEW n \in P PROVE n + 1 \in P
  <2> SUFFICES ASSUME NEW u \in Seq(Pieces), Len(u) = n + 1
               PROVE  FramesIn(s \o u) = FramesIn(s) \o FramesIn(u)
    OBVIOUS
  <2>1. PICK v \in Seq(Pieces), e \in Pieces : u = Append(v, e) /\ Len(v) = n
    <3> DEFINE v == SubSeq(u, 1, n)
    <3>1. v \in Seq(Pieces) /\ Len(v) = n /\ \A i \in 1 .. n : v[i] = u[i]
      OBVIOUS
    <3>2. u[n + 1] \in Pieces
      OBVIOUS
    <3> HIDE DEF v
    <3>3. u = Append(v, u[n + 1])
      <4>1. Append(v, u[n + 1]) \in Seq(Pieces) /\ Len(Append(v, u[n + 1])) = n + 1
        BY <3>1, <3>2
      <4>2. \A i \in 1 .. n + 1 : Append(v, u[n + 1])[i] = u[i]
        BY <3>1, <3>2
      <4> QED BY <4>1, <4>2, SeqEqual
    <3> QED BY <3>1, <3>2, <3>3
  <2>2. s \o v \in Seq(Pieces) /\ s \o u = Append(s \o v, e)
    BY <2>1
  <2>3. FramesIn(s \o u) = Counted(FramesIn(s) \o FramesIn(v), e)
    BY <2>1, <2>2, FramesAppend
  <2>4. FramesIn(u) = Counted(FramesIn(v), e)
    BY <2>1, FramesAppend
  <2>5. Counted(FramesIn(s) \o FramesIn(v), e) = FramesIn(s) \o Counted(FramesIn(v), e)
    <3>1. FramesIn(s) \in Seq(Int) /\ FramesIn(v) \in Seq(Int)
      BY FramesType
    <3>2. e.len \in Int
      BY MtuAssumption DEF Pieces, Carried, Frames, MinMtu, MaxMtu
    <3>3. Append(FramesIn(s) \o FramesIn(v), e.len) = FramesIn(s) \o Append(FramesIn(v), e.len)
      <4>1. \A a, b \in Seq(Int), x \in Int : a \o Append(b, x) = Append(a \o b, x)
        BY AppendConcat
      <4> QED BY <3>1, <3>2, <4>1
    <3> QED BY <3>3 DEF Counted
  <2> QED BY <2>3, <2>4, <2>5
<1>3. P = Nat
  BY <1>1, <1>2, AllNumbers
<1>4. Len(t) \in P
  BY <1>3
<1> QED BY <1>4

LEMMA FramesHead ==
    ASSUME NEW s \in Seq(Pieces), s # <<>>
    PROVE  FramesIn(s) = Counted(<<>>, s[1]) \o FramesIn(Tail(s))
<1>1. s[1] \in Pieces /\ Tail(s) \in Seq(Pieces)
  BY TailFacts
<1>2. <<>> \in Seq(Pieces) /\ Append(<<>>, s[1]) = <<s[1]>> /\ <<s[1]>> \in Seq(Pieces)
  BY <1>1
<1>3. FramesIn(<<s[1]>>) = Counted(<<>>, s[1])
  BY <1>1, <1>2, FramesAppend, FramesEmpty
<1>4. s = <<s[1]>> \o Tail(s)
  <2>1. <<s[1]>> \o Tail(s) \in Seq(Pieces) /\ Len(<<s[1]>> \o Tail(s)) = Len(s)
    BY <1>1, <1>2, TailFacts
  <2>2. \A i \in 1 .. Len(s) : (<<s[1]>> \o Tail(s))[i] = s[i]
    BY <1>1, <1>2, TailFacts
  <2> QED BY <2>1, <2>2, SeqEqual
<1> QED BY <1>1, <1>2, <1>3, <1>4, FramesConcat

LEMMA MessageFrames ==
    /\ FramesIn(Ping) = <<>> /\ FramesIn(Pong) = <<>> /\ FramesIn(<<Header("ERROR", 0)>>) = <<>>
    /\ \A f \in Carried : FramesIn(FrameMsg(f)) = <<f>>
<1>1. ASSUME NEW p \in Pieces PROVE FramesIn(<<p>>) = Counted(<<>>, p)
  <2>1. <<>> \in Seq(Pieces) /\ Append(<<>>, p) = <<p>>
    OBVIOUS
  <2> QED BY <2>1, FramesAppend, FramesEmpty
<1>2. /\ Header("PING", 0) \in Pieces /\ Header("PONG", 0) \in Pieces
      /\ Header("ERROR", 0) \in Pieces
  BY DEF Header, Pieces
<1>3. \A t \in {"PING", "PONG", "ERROR"} : Counted(<<>>, Header(t, 0)) = <<>>
  BY DEF Counted, Header
<1>4. ASSUME NEW f \in Carried PROVE FramesIn(FrameMsg(f)) = <<f>>
  <2>1. Header("TAP_FRAME", f) \in Pieces /\ Payload(f) \in Pieces
    BY DEF Header, Payload, Pieces
  <2>2. <<Header("TAP_FRAME", f)>> \in Seq(Pieces)
        /\ FrameMsg(f) = Append(<<Header("TAP_FRAME", f)>>, Payload(f))
    BY <2>1 DEF FrameMsg
  <2>3. FramesIn(FrameMsg(f)) = Counted(FramesIn(<<Header("TAP_FRAME", f)>>), Payload(f))
    BY <2>1, <2>2, FramesAppend
  <2>4. FramesIn(<<Header("TAP_FRAME", f)>>) = <<>>
    BY <1>1, <2>1 DEF Counted, Header
  <2> QED BY <2>3, <2>4 DEF Counted, Payload
<1> QED BY <1>1, <1>2, <1>3, <1>4 DEF Ping, Pong

(* What may be left of two parts of a queue after a break. *)
LEMMA LinkPieces ==
    ASSUME NEW s \in Seq(Int), NEW t \in Seq(Int)
    PROVE  /\ s \in Link!Pieces(s)
           /\ s \in Link!Pieces(s \o t) /\ t \in Link!Pieces(s \o t)
<1>1. ASSUME NEW u \in Seq(Int), NEW v \in Seq(Int)
      PROVE  u \in Link!Pieces(u \o v) /\ v \in Link!Pieces(u \o v)
  <2>1. /\ u \o v \in Seq(Int) /\ Len(u \o v) = Len(u) + Len(v)
        /\ Len(u) \in Nat /\ Len(v) \in Nat
    OBVIOUS
  <2>2. SubSeq(u \o v, 1, Len(u)) = u
    BY SubSeqOfConcat1, SubSeqFull
  <2>5. /\ \A n \in 0 .. Len(u \o v) : SubSeq(u \o v, 1, n) \in Link!Pieces(u \o v)
        /\ \A n \in 1 .. Len(u \o v) :
             SubSeq(u \o v, n, Len(u \o v)) \in Link!Pieces(u \o v)
    BY DEF Link!Pieces
  <2>6. 0 \in 0 .. Len(u \o v) /\ Len(u) \in 0 .. Len(u \o v)
    BY <2>1
  <2>3. CASE v = <<>>
    <3>1. SubSeq(u \o v, 1, 0) = <<>>
      BY <2>1
    <3> QED BY <2>2, <2>3, <2>5, <2>6, <3>1
  <2>4. CASE v # <<>>
    <3>1. SubSeq(u \o v, Len(u) + 1, Len(u \o v)) = v
      BY <2>1, SubSeqOfConcat2, SubSeqFull
    <3>2. Len(u) + 1 \in 1 .. Len(u \o v)
      BY <2>1, <2>4
    <3> QED BY <2>2, <2>5, <2>6, <3>1, <3>2
  <2> QED BY <2>3, <2>4
<1>2. s \o <<>> = s /\ <<>> \in Seq(Int)
  OBVIOUS
<1> QED BY <1>1, <1>2

-----------------------------------------------------------------------------
(* What FrameLink sees of the loop. *)
Up   == FramesIn(out \o cur)
Down == FramesIn(in \o peerTx)
LinkIs == CASE pc = "END" -> "ended"
            [] pc # "END" /\ peer = "good" -> "open"
            [] OTHER -> "broken"

(* A peer that has closed takes nothing more and sends nothing more. *)
Gone == peer = "closed" => out = <<>> /\ peerTx = <<>>

LEMMA GoneStep ==
    ASSUME Gone, [Next]_vars
    PROVE  Gone'
  BY DEF Gone, vars, Next, Pump, External, wire, SelectReady, SelectTimeout, TapReadFrame,
     TapReadDropped, SendPiece, RecvFrameHeader, RecvFrame, RecvPong, RecvReject, RecvEof,
     CallFails, LanSends, PeerStartsFrame, PeerReads, PeerStartsPong, PeerMisbehaves,
     PeerSends, PeerCloses

LEMMA LinkParts ==
    ASSUME TypeOK
    PROVE  /\ out \in Seq(Pieces) /\ cur \in Seq(Pieces)
           /\ in \in Seq(Pieces) /\ peerTx \in Seq(Pieces)
           /\ Up = FramesIn(out) \o FramesIn(cur) /\ Up \in Seq(Int)
           /\ Down = FramesIn(in) \o FramesIn(peerTx) /\ Down \in Seq(Int)
           /\ FramesIn(out) \in Seq(Int) /\ FramesIn(cur) \in Seq(Int)
           /\ FramesIn(in) \in Seq(Int) /\ FramesIn(peerTx) \in Seq(Int)
<1>1. /\ out \in Seq(Pieces) /\ cur \in Seq(Pieces)
      /\ in \in Seq(Pieces) /\ peerTx \in Seq(Pieces)
  BY DEF TypeOK
<1>2. out \o cur \in Seq(Pieces) /\ in \o peerTx \in Seq(Pieces)
  BY <1>1
<1> QED BY <1>1, <1>2, FramesConcat, FramesType DEF Up, Down

(* The steps of FrameLink, in these terms. *)
LEMMA LinkBreaks ==
    ASSUME UNCHANGED <<tapIn, put>>, Up' \in Link!Pieces(Up), Down' \in Link!Pieces(Down),
           LinkIs' \in {"broken", "ended"}, LinkIs = "ended" => LinkIs' = "ended"
    PROVE  Link!LinkNext
<1>1. Link!Break
  BY DEF Link!Break, Up, Down, LinkIs
<1> QED BY <1>1 DEF Link!LinkNext

LEMMA LinkStays ==
    ASSUME UNCHANGED <<tapIn, Up, Down, put, LinkIs>>
    PROVE  UNCHANGED Link!linkVars
  BY DEF Link!linkVars, Up, Down, LinkIs

LEMMA LinkAccepts ==
    ASSUME LinkIs # "ended", tapIn # <<>>, tapIn' = Tail(tapIn),
           Up' = IF Head(tapIn) \in Carried THEN Append(Up, Head(tapIn)) ELSE Up,
           UNCHANGED <<Down, put, LinkIs>>
    PROVE  Link!LinkNext
<1>1. Link!Accept
  BY DEF Link!Accept, Up, Down, LinkIs
<1> QED BY <1>1 DEF Link!LinkNext

LEMMA LinkDelivers ==
    ASSUME Up # <<>>, Up' = Tail(Up), UNCHANGED <<tapIn, Down, put, LinkIs>>
    PROVE  Link!LinkNext
<1>1. Link!Deliver
  BY DEF Link!Deliver, Up, Down, LinkIs
<1> QED BY <1>1 DEF Link!LinkNext

LEMMA LinkWrites ==
    ASSUME LinkIs # "ended", Down # <<>>, Down' = Tail(Down),
           put' = <<Head(Down), 1 - put[2]>>, UNCHANGED <<tapIn, Up, LinkIs>>
    PROVE  Link!LinkNext
<1>1. Link!Write
  BY DEF Link!Write, Up, Down, LinkIs
<1> QED BY <1>1 DEF Link!LinkNext

LEMMA LinkLanSends ==
    ASSUME NEW f \in Frames, tapIn' = Append(tapIn, f), UNCHANGED <<Up, Down, put, LinkIs>>
    PROVE  Link!LinkNext
<1>1. Link!LanSends
  BY DEF Link!LanSends, Up, Down, LinkIs
<1> QED BY <1>1 DEF Link!LinkNext

LEMMA LinkPeerSends ==
    ASSUME NEW f \in Carried, Down' = Append(Down, f), UNCHANGED <<tapIn, Up, put, LinkIs>>
    PROVE  Link!LinkNext
<1>1. Link!PeerSends
  BY DEF Link!PeerSends, Up, Down, LinkIs
<1> QED BY <1>1 DEF Link!LinkNext

(* What the links' queues are in the next state. *)
LEMMA LinkPartsNext ==
    ASSUME TypeOK'
    PROVE  /\ out' \in Seq(Pieces) /\ cur' \in Seq(Pieces)
           /\ in' \in Seq(Pieces) /\ peerTx' \in Seq(Pieces)
           /\ Up' = FramesIn(out') \o FramesIn(cur') /\ Up' \in Seq(Int)
           /\ Down' = FramesIn(in') \o FramesIn(peerTx') /\ Down' \in Seq(Int)
<1>1. /\ out' \in Seq(Pieces) /\ cur' \in Seq(Pieces)
      /\ in' \in Seq(Pieces) /\ peerTx' \in Seq(Pieces)
  BY DEF TypeOK
<1>2. out' \o cur' \in Seq(Pieces) /\ in' \o peerTx' \in Seq(Pieces)
  BY <1>1
<1>3. Up' = FramesIn(out' \o cur') /\ Down' = FramesIn(in' \o peerTx')
  BY DEF Up, Down
<1> QED BY <1>1, <1>2, <1>3, FramesConcat, FramesType

(* Moving the first piece of a part to the end of the other changes nothing. *)
LEMMA PieceMoves ==
    ASSUME NEW s \in Seq(Pieces), NEW t \in Seq(Pieces), t # <<>>
    PROVE  Append(s, Head(t)) \o Tail(t) = s \o t
<1>1. Head(t) \in Pieces /\ Head(t) = t[1] /\ Tail(t) \in Seq(Pieces) /\ Len(Tail(t)) = Len(t) - 1
      /\ Len(t) > 0 /\ \A i \in 1 .. Len(t) - 1 : Tail(t)[i] = t[i + 1]
  BY TailFacts
<1>2. Append(s, Head(t)) \in Seq(Pieces) /\ Len(Append(s, Head(t))) = Len(s) + 1
      /\ Append(s, Head(t))[Len(s) + 1] = Head(t)
      /\ \A i \in 1 .. Len(s) : Append(s, Head(t))[i] = s[i]
  BY <1>1, AppendFacts
<1> DEFINE u == Append(s, Head(t))
           w == Tail(t)
<1> HIDE DEF u, w
<1>3. u \in Seq(Pieces) /\ w \in Seq(Pieces) /\ Len(u) = Len(s) + 1 /\ Len(w) = Len(t) - 1
  BY <1>1, <1>2 DEF u, w
<1>4. u \o w \in Seq(Pieces) /\ s \o t \in Seq(Pieces) /\ Len(u \o w) = Len(s \o t)
  <2>1. Len(u \o w) = Len(u) + Len(w)
    BY <1>3, ConcatProperties
  <2>3. Len(s \o t) = Len(s) + Len(t) /\ s \o t \in Seq(Pieces)
    BY ConcatProperties
  <2>4. u \o w \in Seq(Pieces)
    BY <1>3, ConcatProperties
  <2>2. Len(s) \in Nat /\ Len(t) \in Nat
    OBVIOUS
  <2> QED BY <1>3, <2>1, <2>2, <2>3, <2>4
<1>5. ASSUME NEW i \in 1 .. Len(s \o t) PROVE (u \o w)[i] = (s \o t)[i]
  <2>0. i \in Int /\ Len(s) \in Nat
    OBVIOUS
  <2>1. CASE i <= Len(s)
    <3>1. (u \o w)[i] = u[i] /\ (s \o t)[i] = s[i]
      BY <1>3, <2>1
    <3> QED BY <1>2, <2>1, <3>1 DEF u
  <2>2. CASE i = Len(s) + 1
    <3>1. (u \o w)[i] = u[i] /\ (s \o t)[i] = t[1]
      BY <1>1, <1>3, <2>2
    <3> QED BY <1>1, <1>2, <2>2, <3>1 DEF u
  <2>3. CASE i > Len(s) + 1
    <3>0. i - (Len(s) + 1) \in Nat
      <4>1. \A x, y \in Int : x > y => x - y \in Nat
        OBVIOUS
      <4>2. Len(s) + 1 \in Int
        BY <2>0
      <4> QED BY <2>0, <2>3, <4>1, <4>2
    <3>1. PICK k \in Nat : k = i - (Len(s) + 1)
      BY <3>0
    <3>2. k \in 1 .. Len(t) - 1 /\ k \in 1 .. Len(w) /\ i = Len(u) + k /\ i = Len(s) + (k + 1)
      BY <1>1, <1>3, <1>4, <2>3, <3>1
    <3>3. (u \o w)[i] = w[k]
      BY <1>3, <1>4, <3>2, ConcatProperties
    <3>4. (s \o t)[i] = t[k + 1]
      BY <1>1, <1>4, <3>2, ConcatProperties
    <3>5. w[k] = t[k + 1]
      BY <1>1, <3>2 DEF w
    <3> QED BY <3>3, <3>4, <3>5
  <2>4. i <= Len(s) \/ i = Len(s) + 1 \/ i > Len(s) + 1
    <3>1. \A x, y \in Int : x <= y \/ x = y + 1 \/ x > y + 1
      OBVIOUS
    <3> QED BY <2>0, <3>1
  <2> QED BY <2>1, <2>2, <2>3, <2>4
<1> QED BY <1>4, <1>5, SeqEqual DEF u, w

(* The first piece of a part carries a frame, or it carries none. *)
LEMMA FramesFirst ==
    ASSUME NEW s \in Seq(Pieces), NEW t \in Seq(Pieces), s # <<>>
    PROVE  /\ s[1].type # "PAYLOAD" => FramesIn(s \o t) = FramesIn(Tail(s) \o t)
           /\ s[1].type = "PAYLOAD" =>
                /\ FramesIn(s \o t) # <<>> /\ Head(FramesIn(s \o t)) = s[1].len
                /\ Tail(FramesIn(s \o t)) = FramesIn(Tail(s) \o t)
<1>1. s[1] \in Pieces /\ Tail(s) \in Seq(Pieces) /\ s[1].len \in Int
  <2>1. s[1] \in Pieces /\ Tail(s) \in Seq(Pieces)
    BY TailFacts
  <2> QED BY <2>1, MtuAssumption DEF Pieces, Carried, Frames, MinMtu, MaxMtu
<1> DEFINE a == FramesIn(Tail(s))
           b == FramesIn(t)
<1>2. /\ FramesIn(s \o t) = (Counted(<<>>, s[1]) \o a) \o b
      /\ FramesIn(Tail(s) \o t) = a \o b /\ a \in Seq(Int) /\ b \in Seq(Int)
  BY <1>1, FramesHead, FramesConcat, FramesType
<1> HIDE DEF a, b
<1>3. <<>> \o a = a
  BY <1>2
<1>4. \A x \in Int, c, d \in Seq(Int) :
        /\ (<<x>> \o c) \o d # <<>> /\ Head((<<x>> \o c) \o d) = x
        /\ Tail((<<x>> \o c) \o d) = c \o d
  <2> SUFFICES ASSUME NEW x \in Int, NEW c \in Seq(Int), NEW d \in Seq(Int)
               PROVE  /\ (<<x>> \o c) \o d # <<>> /\ Head((<<x>> \o c) \o d) = x
                      /\ Tail((<<x>> \o c) \o d) = c \o d
    OBVIOUS
  <2> DEFINE e == (<<x>> \o c) \o d
  <2>1. e \in Seq(Int) /\ Len(e) = 1 + Len(c) + Len(d) /\ e # <<>> /\ e[1] = x
    OBVIOUS
  <2>2. c \o d \in Seq(Int) /\ Len(c \o d) = Len(c) + Len(d)
    OBVIOUS
  <2>3. \A i \in 1 .. Len(c) + Len(d) : e[i + 1] = (c \o d)[i]
    OBVIOUS
  <2> HIDE DEF e
  <2>4. Tail(e) \in Seq(Int) /\ Len(Tail(e)) = Len(e) - 1
        /\ \A i \in 1 .. Len(e) - 1 : Tail(e)[i] = e[i + 1]
    BY <2>1, TailFacts
  <2> DEFINE g == Tail(e)
             h == c \o d
  <2>7. /\ g \in Seq(Int) /\ h \in Seq(Int) /\ Len(g) = Len(h)
        /\ \A i \in 1 .. Len(g) : g[i] = h[i]
    <3>1. Len(e) - 1 = Len(c) + Len(d) /\ Len(c) \in Nat /\ Len(d) \in Nat
      BY <2>1
    <3> QED BY <2>2, <2>3, <2>4, <3>1
  <2> HIDE DEF g, h
  <2>5. g = h
    BY <2>7, SeqEqual
  <2>6. Head(e) = x
    BY <2>1
  <2> QED BY <2>1, <2>5, <2>6 DEF e, g, h
<1>5. CASE s[1].type # "PAYLOAD"
  BY <1>2, <1>3, <1>5 DEF Counted
<1>6. CASE s[1].type = "PAYLOAD"
  <2>1. Counted(<<>>, s[1]) = <<s[1].len>>
    BY <1>1, <1>6 DEF Counted
  <2>2. FramesIn(s \o t) = (<<s[1].len>> \o a) \o b
    BY <1>2, <2>1
  <2>3. /\ (<<s[1].len>> \o a) \o b # <<>> /\ Head((<<s[1].len>> \o a) \o b) = s[1].len
        /\ Tail((<<s[1].len>> \o a) \o b) = a \o b
    BY <1>1, <1>2, <1>4
  <2> QED BY <1>2, <1>6, <2>2, <2>3
<1> QED BY <1>5, <1>6
(* Every step of the loop, the LAN or the peer is one of FrameLink, or none. *)
LEMMA LinkStep ==
    ASSUME IInv, Gone, Next
    PROVE  Link!LinkNext \/ UNCHANGED Link!linkVars
<1>1. TypeOK /\ Framed /\ TypeOK'
  BY NextKeeps DEF IInv
<1>2. /\ out \in Seq(Pieces) /\ cur \in Seq(Pieces) /\ in \in Seq(Pieces)
      /\ peerTx \in Seq(Pieces) /\ tapIn \in Seq(Frames)
  BY <1>1 DEF TypeOK
<1>3. /\ Up = FramesIn(out) \o FramesIn(cur) /\ Up \in Seq(Int)
      /\ Down = FramesIn(in) \o FramesIn(peerTx) /\ Down \in Seq(Int)
      /\ FramesIn(out) \in Seq(Int) /\ FramesIn(cur) \in Seq(Int)
      /\ FramesIn(in) \in Seq(Int) /\ FramesIn(peerTx) \in Seq(Int)
  BY <1>1, LinkParts
<1>4. /\ Up' = FramesIn(out') \o FramesIn(cur') /\ Up' \in Seq(Int)
      /\ Down' = FramesIn(in') \o FramesIn(peerTx') /\ Down' \in Seq(Int)
  BY <1>1, LinkPartsNext
<1>5. \A s \in Seq(Int) : s \o <<>> = s /\ <<>> \o s = s
  OBVIOUS
<1>6. UNCHANGED <<out, cur>> => UNCHANGED Up
  BY DEF Up
<1>7. UNCHANGED <<in, peerTx>> => UNCHANGED Down
  BY DEF Down
<1>8. Up \in Link!Pieces(Up) /\ Down \in Link!Pieces(Down)
  BY <1>3, LinkPieces
<1>9. pc # "END" /\ pc' # "END" /\ peer' = peer => UNCHANGED LinkIs
  BY DEF LinkIs
<1>10. pc # "BODY" /\ pc # "END" /\ in # <<>> => in[1].type # "PAYLOAD"
  <2>1. in # <<>> => 1 \in 1 .. Len(in)
    BY <1>2
  <2> QED BY <1>1, <2>1 DEF Framed
(* A piece without a frame is received or read. *)
<1>11. /\ in # <<>> /\ in' = Tail(in) /\ peerTx' = peerTx /\ in[1].type # "PAYLOAD"
          => UNCHANGED Down
       /\ out # <<>> /\ out' = Tail(out) /\ cur' = cur /\ out[1].type # "PAYLOAD"
          => UNCHANGED Up
  BY <1>2, FramesFirst DEF Down, Up
<1>12. CASE SelectReady
  <2>1. UNCHANGED <<tapIn, Up, Down, put, LinkIs>>
    BY <1>6, <1>7, <1>9, <1>12 DEF SelectReady, FirstServed, wire
  <2> QED BY <2>1, LinkStays
<1>13. CASE SelectTimeout
  <2>1. UNCHANGED <<tapIn, Down, put, LinkIs>>
    BY <1>7, <1>9, <1>13 DEF SelectTimeout, wire
  <2>2. cur = <<>> /\ cur' = Ping /\ out' = out
    BY <1>1, <1>13 DEF SelectTimeout, wire, TypeOK
  <2>3. Up' = Up
    BY <1>3, <1>4, <2>2, FramesEmpty, MessageFrames
  <2> QED BY <2>1, <2>3, LinkStays
<1>14. CASE TapReadFrame
  <2>1. /\ pc = "TAP" /\ tapIn # <<>> /\ cur = <<>> /\ tapIn' = Tail(tapIn)
        /\ cur' = FrameMsg(Head(tapIn)) /\ out' = out
    BY <1>1, <1>14 DEF TapReadFrame, wire, TypeOK
  <2>2. Head(tapIn) \in Carried
    <3>1. Head(tapIn) \in Frames
      BY <1>2, <2>1
    <3> QED BY <1>14, <3>1 DEF TapReadFrame, Carried
  <2>3. Head(tapIn) \in Int
    BY <2>2, MtuAssumption DEF Carried, Frames, MinMtu, MaxMtu
  <2>4. Up' = Append(Up, Head(tapIn))
    <3>1. Up = FramesIn(out)
      BY <1>3, <1>5, <2>1, FramesEmpty
    <3>2. Up' = FramesIn(out) \o <<Head(tapIn)>>
      BY <1>4, <2>1, <2>2, MessageFrames
    <3>3. \A s \in Seq(Int), x \in Int : s \o <<x>> = Append(s, x)
      OBVIOUS
    <3> QED BY <1>3, <2>3, <3>1, <3>2, <3>3
  <2>5. UNCHANGED <<Down, put, LinkIs>> /\ LinkIs # "ended"
    BY <1>7, <1>9, <1>14 DEF TapReadFrame, wire, LinkIs
  <2> QED BY <2>1, <2>2, <2>4, <2>5, LinkAccepts
<1>15. CASE TapReadDropped
  <2>1. pc = "TAP" /\ tapIn # <<>> /\ tapIn' = Tail(tapIn) /\ UNCHANGED <<out, cur>>
    BY <1>1, <1>15 DEF TapReadDropped, wire, TypeOK
  <2>2. Head(tapIn) \notin Carried
    BY <1>15 DEF TapReadDropped, Carried
  <2>3. UNCHANGED <<Up, Down, put, LinkIs>> /\ LinkIs # "ended"
    BY <1>6, <1>7, <1>9, <1>15 DEF TapReadDropped, AfterTap, wire, LinkIs
  <2> QED BY <2>1, <2>2, <2>3, LinkAccepts
<1>16. CASE SendPiece
  <2>1. /\ pc = "SEND" /\ cur # <<>> /\ cur' = Tail(cur) /\ UNCHANGED <<tapIn, put>>
        /\ out' = IF peer = "closed" THEN out ELSE Append(out, Head(cur))
    BY <1>1, <1>16 DEF SendPiece, TypeOK
  <2>2. UNCHANGED <<Down, LinkIs>> /\ LinkIs # "ended"
    BY <1>7, <1>9, <1>16 DEF SendPiece, AfterSend, AfterTap, LinkIs
  <2>3. CASE peer # "closed"
    <3>1. Up' = Up
      BY <1>2, <2>1, <2>3, PieceMoves DEF Up
    <3> QED BY <2>1, <2>2, <3>1, LinkStays
  <2>4. CASE peer = "closed"
    <3>1. out = <<>> /\ out' = <<>>
      BY <2>1, <2>4 DEF Gone
    <3>2. LinkIs = "broken"
      BY <2>1, <2>4 DEF LinkIs
    <3>3. Up = FramesIn(cur) /\ Up' = FramesIn(cur')
      <4>1. FramesIn(cur') \in Seq(Int)
        BY <1>1, LinkPartsNext, FramesType
      <4> QED BY <1>3, <1>4, <1>5, <3>1, <4>1, FramesEmpty
    <3>4. Up' \in Link!Pieces(Up)
      <4>1. /\ FramesIn(cur) = Counted(<<>>, cur[1]) \o FramesIn(cur')
            /\ FramesIn(cur') \in Seq(Int)
        BY <1>2, <2>1, FramesHead, FramesType, TailFacts
      <4>2. Counted(<<>>, cur[1]) \in Seq(Int)
        <5>1. cur[1] \in Pieces
          BY <1>2, <2>1, TailFacts
        <5>2. cur[1].len \in Int
          BY <5>1, MtuAssumption DEF Pieces, Carried, Frames, MinMtu, MaxMtu
        <5> QED BY <5>2 DEF Counted
      <4> QED BY <3>3, <4>1, <4>2, LinkPieces
    <3> QED BY <1>8, <2>1, <2>2, <3>2, <3>4, LinkBreaks
  <2> QED BY <2>3, <2>4
<1>17. CASE RecvFrameHeader
  <2>1. /\ in # <<>> /\ in' = Tail(in) /\ peerTx' = peerTx /\ in[1].type # "PAYLOAD"
    BY <1>10, <1>17 DEF RecvFrameHeader
  <2>2. UNCHANGED <<tapIn, Up, put, LinkIs>>
    BY <1>6, <1>9, <1>17 DEF RecvFrameHeader
  <2> QED BY <1>11, <2>1, <2>2, LinkStays
<1>18. CASE RecvFrame
  <2>1. /\ pc = "BODY" /\ in # <<>> /\ in' = Tail(in) /\ peerTx' = peerTx
        /\ put' = <<Head(in).len, 1 - put[2]>>
    BY <1>18 DEF RecvFrame
  <2>2. in[1].type = "PAYLOAD" /\ Head(in) = in[1]
    <3>1. 1 \in 1 .. Len(in)
      BY <1>2, <2>1
    <3> QED BY <1>1, <1>2, <2>1, <3>1 DEF Framed
  <2>3. Down # <<>> /\ Head(Down) = in[1].len /\ Down' = Tail(Down)
    BY <1>2, <2>1, <2>2, FramesFirst DEF Down
  <2>4. UNCHANGED <<tapIn, Up, LinkIs>> /\ LinkIs # "ended"
    BY <1>6, <1>9, <1>18 DEF RecvFrame, LinkIs
  <2> QED BY <2>1, <2>2, <2>3, <2>4, LinkWrites
<1>19. CASE RecvPong
  <2>1. /\ in # <<>> /\ in' = Tail(in) /\ peerTx' = peerTx /\ in[1].type # "PAYLOAD"
    BY <1>10, <1>19 DEF RecvPong
  <2>2. UNCHANGED <<tapIn, Up, put, LinkIs>>
    BY <1>6, <1>9, <1>19 DEF RecvPong
  <2> QED BY <1>11, <2>1, <2>2, LinkStays
<1>20. CASE RecvReject
  <2>1. /\ in # <<>> /\ in' = Tail(in) /\ peerTx' = peerTx /\ in[1].type # "PAYLOAD"
    BY <1>10, <1>20 DEF RecvReject
  <2>2. UNCHANGED <<tapIn, Up, put>> /\ LinkIs' = "ended"
    BY <1>6, <1>20 DEF RecvReject, LinkIs
  <2> QED BY <1>8, <1>11, <2>1, <2>2, LinkBreaks
<1>21. CASE RecvEof
  <2>1. UNCHANGED <<tapIn, Up, Down, put>> /\ LinkIs' = "ended"
    BY <1>6, <1>7, <1>21 DEF RecvEof, LinkIs, wire
  <2> QED BY <1>8, <2>1, LinkBreaks
<1>22. CASE CallFails
  <2>1. UNCHANGED <<tapIn, Down, put>> /\ LinkIs' = "ended" /\ out' = out /\ cur' = <<>>
    BY <1>7, <1>22 DEF CallFails, LinkIs, wire
  <2>2. Up' = FramesIn(out)
    BY <1>3, <1>4, <1>5, <2>1, FramesEmpty
  <2>3. Up' \in Link!Pieces(Up)
    BY <1>3, <2>2, LinkPieces
  <2> QED BY <1>8, <2>1, <2>3, LinkBreaks
<1>23. CASE \E f \in Frames : LanSends(f)
  <2>1. PICK f \in Frames : LanSends(f)
    BY <1>23
  <2>2. tapIn' = Append(tapIn, f) /\ UNCHANGED <<Up, Down, put, LinkIs>>
    BY <1>6, <1>7, <1>9, <2>1 DEF LanSends, wire
  <2> QED BY <2>2, LinkLanSends
<1>24. CASE \E f \in Carried : PeerStartsFrame(f)
  <2>1. PICK f \in Carried : PeerStartsFrame(f)
    BY <1>24
  <2>2. peerTx = <<>> /\ peerTx' = FrameMsg(f) /\ in' = in
    BY <2>1 DEF PeerStartsFrame
  <2>3. f \in Int
    BY MtuAssumption DEF Carried, Frames, MinMtu, MaxMtu
  <2>4. Down' = Append(Down, f)
    <3>1. Down = FramesIn(in)
      BY <1>3, <1>5, <2>2, FramesEmpty
    <3>2. Down' = FramesIn(in) \o <<f>>
      BY <1>4, <2>2, MessageFrames
    <3>3. \A s \in Seq(Int), x \in Int : s \o <<x>> = Append(s, x)
      OBVIOUS
    <3> QED BY <1>3, <2>3, <3>1, <3>2, <3>3
  <2>5. UNCHANGED <<tapIn, Up, put, LinkIs>>
    BY <1>6, <1>9, <2>1 DEF PeerStartsFrame
  <2> QED BY <2>4, <2>5, LinkPeerSends
<1>25. CASE PeerReads
  <2>1. out # <<>> /\ out' = Tail(out) /\ cur' = cur
    BY <1>25 DEF PeerReads
  <2>2. UNCHANGED <<tapIn, Down, put, LinkIs>>
    BY <1>7, <1>9, <1>25 DEF PeerReads
  <2>3. CASE out[1].type # "PAYLOAD"
    BY <1>11, <2>1, <2>2, <2>3, LinkStays
  <2>4. CASE out[1].type = "PAYLOAD"
    <3>1. Up # <<>> /\ Up' = Tail(Up)
      BY <1>2, <2>1, <2>4, FramesFirst DEF Up
    <3> QED BY <2>2, <3>1, LinkDelivers
  <2> QED BY <2>3, <2>4
<1>26. CASE PeerStartsPong
  <2>1. peerTx = <<>> /\ peerTx' = Pong /\ in' = in
    BY <1>26 DEF PeerStartsPong
  <2>2. Down' = Down
    BY <1>3, <1>4, <2>1, FramesEmpty, MessageFrames
  <2>3. UNCHANGED <<tapIn, Up, put, LinkIs>>
    BY <1>6, <1>9, <1>26 DEF PeerStartsPong
  <2> QED BY <2>2, <2>3, LinkStays
<1>27. CASE PeerMisbehaves
  <2>1. peerTx = <<>> /\ peerTx' \in {<<Header("ERROR", 0)>>, Pong} /\ in' = in
    BY <1>27 DEF PeerMisbehaves
  <2>2. Down' = Down
    BY <1>3, <1>4, <2>1, FramesEmpty, MessageFrames
  <2>3. UNCHANGED <<tapIn, Up, put>> /\ LinkIs = "open" /\ LinkIs' = "broken"
    BY <1>6, <1>27 DEF PeerMisbehaves, LinkIs
  <2> QED BY <1>8, <2>2, <2>3, LinkBreaks
<1>28. CASE PeerSends
  <2>1. Down' = Down
    BY <1>2, <1>28, PieceMoves DEF PeerSends, Down
  <2>2. UNCHANGED <<tapIn, Up, put, LinkIs>>
    BY <1>6, <1>9, <1>28 DEF PeerSends
  <2> QED BY <2>1, <2>2, LinkStays
<1>29. CASE PeerCloses
  <2>1. /\ peerTx' = <<>> /\ out' = <<>> /\ UNCHANGED <<in, cur, tapIn, put>>
        /\ LinkIs # "ended" /\ LinkIs' = "broken"
    BY <1>29 DEF PeerCloses, LinkIs
  <2>2. Up' = FramesIn(cur) /\ Down' = FramesIn(in)
    BY <1>3, <1>4, <1>5, <2>1, FramesEmpty
  <2>3. Up' \in Link!Pieces(Up) /\ Down' \in Link!Pieces(Down)
    BY <1>3, <2>2, LinkPieces
  <2> QED BY <2>1, <2>3, LinkBreaks
<1> QED BY <1>12, <1>13, <1>14, <1>15, <1>16, <1>17, <1>18, <1>19, <1>20, <1>21, <1>22,
       <1>23, <1>24, <1>25, <1>26, <1>27, <1>28, <1>29 DEF Next, Pump, External

(* CarriesFrames, of run_tap_loop and run_direct_tap_loop: either loop is a  *)
(* link that carries frames both ways in order, each once, and loses none    *)
(* while the connection lasts, for every MTU and every size of the buffers.  *)
THEOREM CarriesFramesToPeer == Spec => CarriesFrames
<1>1. Init => Link!LinkInit
  <2> SUFFICES ASSUME Init PROVE Link!LinkInit
    OBVIOUS
  <2>1. FramesIn(out \o cur) = <<>> /\ FramesIn(in \o peerTx) = <<>>
    <3>1. out = <<>> /\ in = <<>> /\ peerTx = <<>> /\ cur \in {<<>>, Ping}
      BY DEF Init
    <3>2. <<>> \o <<>> = <<>> /\ <<>> \o Ping = Ping
      BY PingFacts
    <3> QED BY <3>1, <3>2, FramesEmpty, MessageFrames
  <2> QED BY <2>1 DEF Init, Link!LinkInit
<1>2. Init => Gone
  BY DEF Init, Gone
<1>3. IInv /\ Gone /\ [Next]_vars => [Link!LinkNext]_(Link!linkVars)
  <2>1. UNCHANGED vars => UNCHANGED Link!linkVars
    BY DEF vars, wire, Link!linkVars, FramesIn
  <2> QED BY <2>1, LinkStep
<1>4. Gone /\ [Next]_vars => Gone'
  BY GoneStep
<1> QED BY <1>1, <1>2, <1>3, <1>4, Inductive, PTL DEF Spec, CarriesFrames, Link!LinkSpec
=============================================================================
