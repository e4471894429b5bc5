----------------------------- MODULE LinuxPump -----------------------------
(***************************************************************************)
(* The frame loops of the client where it is not Windows: run_tap_loop     *)
(* (relay) and run_direct_tap_loop (direct) of tap_client.c, with the      *)
(* message layer of net.c and the TAP calls of tap_linux.c they use.       *)
(*                                                                         *)
(* One thread selects on the TAP and the socket, serves first the TAP,     *)
(* then the socket, with blocking calls: a send waits for the peer to      *)
(* read, a receive waits for the rest of a message.  A message is sent as  *)
(* one or two pieces, its header and its payload; a frame is known by its  *)
(* length.  The LAN and the peer are external and do what they like, the   *)
(* peer within the protocol unless it is said to misbehave.                *)
(***************************************************************************)
EXTENDS Integers, Sequences, SequencesExt

CONSTANTS
    Mtu,        \* the MTU of the network, from CONFIG_PUSH or the options
    TapRoom,    \* bound: frames that wait in the TAP
    SendRoom,   \* bound: pieces between the client's send and the peer's recv
    RecvRoom    \* bound: pieces between the peer's send and the client's recv

MinMtu     == 576
MaxMtu     == 1500
DefaultMtu == 1400
TapPayloadExtra == 32     \* NTAP_TAP_PAYLOAD_EXTRA
TapOverhead     == 6      \* network id and length before the frame

ASSUME MtuAssumption == Mtu \in MinMtu .. MaxMtu
ASSUME RoomAssumption == {TapRoom, SendRoom, RecvRoom} \subseteq Nat \ {0}

(* What the loops forward from the TAP, with the limits and just beyond. *)
Fits(len)  == len >= 14 /\ len <= Mtu + 18
Frames     == {13, 14, Mtu + 18, Mtu + 19}
Carried    == {f \in Frames : Fits(f)}

(* The pieces on the wire.  ERROR stands for every message that neither loop *)
(* knows.  len is 0 for a message without payload, else the frame's length.  *)
Header(type, len) == [type |-> type, len |-> len]
Payload(len)      == [type |-> "PAYLOAD", len |-> len]
FrameMsg(f) == <<Header("TAP_FRAME", f), Payload(f)>>
Ping        == <<Header("PING", 0)>>
Pong        == <<Header("PONG", 0)>>
Pieces == [type : {"PING", "PONG", "ERROR"}, len : {0}]
          \union [type : {"TAP_FRAME", "PAYLOAD"}, len : Carried]

VARIABLES
    loop,     \* which of the two loops runs: "relay" or "direct"
    pc,       \* the call the thread is about to make or is blocked in
    ready,    \* what select reported: a subset of {"tap", "sock"}
    tapIn,    \* frames the kernel holds for ntap_tap_read
    cur,      \* what is left to send of the message being sent
    out,      \* sent and not yet read by the peer
    in,       \* sent by the peer and not yet received
    peerTx,   \* what the peer has left to send of its message
    pongs,    \* PINGs the peer has not answered yet
    peer,     \* "good", "bad" (it broke the protocol) or "closed"
    failed,   \* history: whether a call of the loop failed
    put       \* history: the last frame written to the TAP, and a turning bit

vars == <<loop, pc, ready, tapIn, cur, out, in, peerTx, pongs, peer, failed,
          put>>
wire == <<out, in, peerTx, pongs, peer>>

Init ==
    /\ loop \in {"relay", "direct"}
    /\ pc = IF loop = "relay" THEN "SEND" ELSE "SELECT"
    /\ cur = IF loop = "relay" THEN Ping ELSE <<>>
    /\ ready = {} /\ tapIn = <<>> /\ out = <<>> /\ in = <<>>
    /\ peerTx = <<>> /\ pongs = 0 /\ peer = "good" /\ failed = FALSE
    /\ put = <<0, 0>>

-----------------------------------------------------------------------------
(* A closed connection is readable: recv returns 0. *)
Readable ==
    (IF tapIn # <<>> THEN {"tap"} ELSE {})
    \union (IF in # <<>> \/ peer = "closed" THEN {"sock"} ELSE {})

(* Fault: an iteration that served the TAP starts over. *)
AfterTapSelects == "SELECT"

(* The TAP's half of an iteration is over: the socket's is next. *)
AfterTap == IF "sock" \in ready THEN "SOCK" ELSE "SELECT"

(* Fault: the socket is served first. *)
FirstServedSock(fds) == IF "sock" \in fds THEN "SOCK" ELSE "TAP"

FirstServed(fds) == IF "tap" \in fds THEN "TAP" ELSE "SOCK"

SelectReady ==
    /\ pc = "SELECT" /\ Readable # {}
    /\ ready' = Readable
    /\ pc' = FirstServed(ready')
    /\ UNCHANGED <<loop, tapIn, cur, wire, failed, put>>

(* A second went by: the relay loop sends a PING, the direct loop nothing. *)
SelectTimeout ==
    /\ pc = "SELECT" /\ Readable = {} /\ loop = "relay"
    /\ ready' = {} /\ cur' = Ping /\ pc' = "SEND"
    /\ UNCHANGED <<loop, tapIn, wire, failed, put>>

TapReadFrame ==
    /\ pc = "TAP" /\ Fits(Head(tapIn))
    /\ tapIn' = Tail(tapIn)
    /\ cur' = FrameMsg(Head(tapIn)) /\ pc' = "SEND"
    /\ UNCHANGED <<loop, ready, wire, failed, put>>

TapReadDropped ==
    /\ pc = "TAP" /\ ~Fits(Head(tapIn))
    /\ tapIn' = Tail(tapIn)
    /\ pc' = AfterTap
    /\ UNCHANGED <<loop, ready, cur, wire, failed, put>>

(* Fault: a message counts as sent when the buffer is full. *)
AfterSendShort(left) == IF left = <<>> \/ Len(out) + 1 = SendRoom THEN AfterTap ELSE "SEND"

AfterSend(left) == IF left = <<>> THEN AfterTap ELSE "SEND"

(* One ntap_send_all.  It waits for room; a connection that the peer closed *)
(* takes what is sent and loses it, until a send fails.                     *)
SendPiece ==
    /\ pc = "SEND" /\ (peer = "closed" \/ Len(out) < SendRoom)
    /\ out' = IF peer = "closed" THEN out ELSE Append(out, Head(cur))
    /\ cur' = Tail(cur)
    /\ pc' = AfterSend(cur')
    /\ UNCHANGED <<loop, ready, tapIn, in, peerTx, pongs, peer, failed, put>>

(* Fault: the limit allows nothing beyond the MTU. *)
AdmittedTight(h) == h.len + TapOverhead <= DefaultMtu

(* ntap_payload_length_allowed as ntap_recv_msg calls it. *)
Admitted(h) == h.len + TapOverhead <= DefaultMtu + TapPayloadExtra

RecvFrameHeader ==
    /\ pc = "SOCK" /\ in # <<>>
    /\ Head(in).type = "TAP_FRAME" /\ Admitted(Head(in))
    /\ in' = Tail(in) /\ pc' = "BODY"
    /\ UNCHANGED <<loop, ready, tapIn, cur, out, peerTx, pongs, peer, failed, put>>

(* The rest of the frame, which goes to the TAP. *)
RecvFrame ==
    /\ pc = "BODY" /\ in # <<>>
    /\ put' = <<Head(in).len, 1 - put[2]>>
    /\ in' = Tail(in) /\ pc' = "SELECT"
    /\ UNCHANGED <<loop, ready, tapIn, cur, out, peerTx, pongs, peer, failed>>

RecvPong ==
    /\ pc = "SOCK" /\ in # <<>>
    /\ Head(in).type = "PONG" /\ loop = "relay"
    /\ in' = Tail(in) /\ pc' = "SELECT"
    /\ UNCHANGED <<loop, ready, tapIn, cur, out, peerTx, pongs, peer, failed, put>>

(* Too large, or a type that the loop does not know: the loop ends. *)
RecvReject ==
    /\ pc = "SOCK" /\ in # <<>>
    /\ CASE Head(in).type = "TAP_FRAME" -> ~Admitted(Head(in))
         [] Head(in).type = "PONG"      -> loop = "direct"
         [] OTHER                       -> TRUE
    /\ in' = Tail(in) /\ pc' = "END"
    /\ UNCHANGED <<loop, ready, tapIn, cur, out, peerTx, pongs, peer, failed, put>>

(* Fault: a recv that returns 0 counts as nothing to do. *)
RecvEofIgnored ==
    /\ pc \in {"SOCK", "BODY"} /\ in = <<>> /\ peer = "closed"
    /\ pc' = "SELECT"
    /\ UNCHANGED <<loop, ready, tapIn, cur, wire, failed, put>>

(* recv returns 0, before or inside a message: "connection closed". *)
RecvEof ==
    /\ pc \in {"SOCK", "BODY"} /\ in = <<>> /\ peer = "closed"
    /\ pc' = "END"
    /\ UNCHANGED <<loop, ready, tapIn, cur, wire, failed, put>>

(* select, a TAP call, a send or a receive fails: the loop closes the TAP  *)
(* and returns.                                                            *)
CallFails ==
    /\ pc # "END"
    /\ pc' = "END" /\ failed' = TRUE /\ cur' = <<>>
    /\ UNCHANGED <<loop, ready, tapIn, wire, put>>

Pump ==
    \/ SelectReady \/ SelectTimeout \/ TapReadFrame \/ TapReadDropped
    \/ SendPiece \/ RecvFrameHeader \/ RecvFrame \/ RecvPong \/ RecvReject
    \/ RecvEof

-----------------------------------------------------------------------------
(* External: the LAN and the peer, for as long as the loop runs. *)
LanSends(f) ==
    /\ pc # "END" /\ Len(tapIn) < TapRoom
    /\ tapIn' = Append(tapIn, f)
    /\ UNCHANGED <<loop, pc, ready, cur, wire, failed, put>>

(* The peer reads.  It may leave a PING without an answer. *)
PeerReads ==
    /\ pc # "END" /\ out # <<>>
    /\ out' = Tail(out)
    /\ pongs' \in (IF Head(out).type = "PING" /\ pongs = 0 THEN {0, 1} ELSE {pongs})
    /\ UNCHANGED <<loop, pc, ready, tapIn, cur, in, peerTx, peer, failed, put>>

PeerStartsFrame(f) ==
    /\ pc # "END" /\ peer = "good" /\ peerTx = <<>>
    /\ peerTx' = FrameMsg(f)
    /\ UNCHANGED <<loop, pc, ready, tapIn, cur, out, in, pongs, peer, failed, put>>

PeerStartsPong ==
    /\ pc # "END" /\ peer = "good" /\ peerTx = <<>> /\ pongs > 0
    /\ peerTx' = Pong /\ pongs' = pongs - 1
    /\ UNCHANGED <<loop, pc, ready, tapIn, cur, out, in, peer, failed, put>>

PeerMisbehaves ==
    /\ pc # "END" /\ peer = "good" /\ peerTx = <<>>
    /\ peerTx' \in {<<Header("ERROR", 0)>>, Pong} /\ peer' = "bad"
    /\ UNCHANGED <<loop, pc, ready, tapIn, cur, out, in, pongs, failed, put>>

PeerSends ==
    /\ pc # "END" /\ peerTx # <<>> /\ Len(in) < RecvRoom
    /\ in' = Append(in, Head(peerTx)) /\ peerTx' = Tail(peerTx)
    /\ UNCHANGED <<loop, pc, ready, tapIn, cur, out, pongs, peer, failed, put>>

PeerCloses ==
    /\ pc # "END" /\ peer # "closed"
    /\ peer' = "closed" /\ peerTx' = <<>> /\ out' = <<>> /\ pongs' = 0
    /\ UNCHANGED <<loop, pc, ready, tapIn, cur, in, failed, put>>

External ==
    \/ \E f \in Frames : LanSends(f)
    \/ \E f \in Carried : PeerStartsFrame(f)
    \/ PeerReads \/ PeerStartsPong \/ PeerMisbehaves \/ PeerSends \/ PeerCloses

Next == Pump \/ CallFails \/ External

Spec == Init /\ [][Next]_vars

(* The thread is scheduled.  The peer reads what it is sent, even while it  *)
(* sends, and completes a message it has begun; it need not begin any, nor  *)
(* answer a PING, nor stay.                                                 *)
FairSpec == Spec /\ WF_vars(Pump) /\ WF_vars(PeerReads) /\ WF_vars(PeerSends)

-----------------------------------------------------------------------------
(* Every variable keeps its range; the loop holds something to send exactly *)
(* while it sends.                                                          *)
TypeOK ==
    /\ loop \in {"relay", "direct"}
    /\ pc \in {"SELECT", "TAP", "SEND", "SOCK", "BODY", "END"}
    /\ ready \subseteq {"tap", "sock"}
    /\ pc = "TAP" => tapIn # <<>>
    /\ tapIn \in Seq(Frames) /\ Len(tapIn) <= TapRoom
    /\ {cur, out, in, peerTx} \subseteq Seq(Pieces)
    /\ cur # <<>> <=> pc = "SEND"
    /\ Len(out) <= SendRoom /\ Len(in) <= RecvRoom
    /\ pongs \in {0, 1} /\ peer \in {"good", "bad", "closed"} /\ failed \in BOOLEAN
    /\ put \in (Frames \union {0}) \X {0, 1}

(* A peer that keeps to the protocol, frames of every length that this      *)
(* client itself would send included, never makes the loop end: it ends     *)
(* only after a failed call, a broken protocol or a closed connection.      *)
ConformingPeerKeepsLoop == pc = "END" => failed \/ peer # "good"

(* The loop implements FrameLink: frames cross both ways in order, once     *)
(* each, none lost while the connection lasts, though a header and its      *)
(* payload go by separate blocking calls and PINGs and PONGs come between.  *)
FramesIn(pieces) ==
    LET upTo[n \in 0 .. Len(pieces)] ==
            IF n = 0 THEN <<>>
            ELSE IF pieces[n].type = "PAYLOAD" THEN Append(upTo[n - 1], pieces[n].len)
            ELSE upTo[n - 1]
    IN  upTo[Len(pieces)]
Link == INSTANCE FrameLink WITH
    lan <- tapIn, up <- FramesIn(out \o cur), down <- FramesIn(in \o peerTx),
    link <- CASE pc = "END" -> "ended"
              [] pc # "END" /\ peer = "good" -> "open"
              [] OTHER -> "broken"
CarriesFrames == Link!LinkSpec

(* A frame at the TAP is always read in the end, however busy the socket    *)
(* is, unless the loop ends.                                                *)
TapServed == tapIn # <<>> ~> pc \in {"TAP", "END"}

(* What the peer sends is always looked at in the end, however busy the TAP *)
(* is, unless the loop ends.                                                *)
SocketServed == in # <<>> ~> pc \in {"SOCK", "BODY", "END"}

(* A connection that the peer closes ends the loop, wherever the thread was *)
(* (selecting, sending, in the middle of a message) and however busy the    *)
(* TAP stays.                                                               *)
CloseEndsLoop == peer = "closed" ~> pc = "END"
=============================================================================
