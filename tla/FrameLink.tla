------------------------------ MODULE FrameLink ------------------------------
(***************************************************************************)
(* What a frame loop promises, whatever it is built of: a link between the *)
(* LAN behind the TAP and a peer that carries frames both ways in order,   *)
(* each once, and loses none until it breaks.  Frames that are too short   *)
(* or too long for the network are dropped on their way in.                *)
(***************************************************************************)
EXTENDS Integers, Sequences

CONSTANTS
    Frames,   \* the frames the LAN and the peer may send
    Carried   \* those of them that fit the network

VARIABLES
    lan,      \* frames waiting at the TAP
    up,       \* frames accepted and on their way to the peer
    down,     \* frames on their way from the peer
    put,      \* the last frame written to the TAP, and a bit that turns with it
    link      \* "open", "broken" (frames may be lost) or "ended"

linkVars == <<lan, up, down, put, link>>

LinkInit ==
    /\ lan = <<>> /\ up = <<>> /\ down = <<>>
    /\ put = <<0, 0>>
    /\ link = "open"

LanSends ==
    /\ \E f \in Frames : lan' = Append(lan, f)
    /\ UNCHANGED <<up, down, put, link>>

PeerSends ==
    /\ \E f \in Carried : down' = Append(down, f)
    /\ UNCHANGED <<lan, up, put, link>>

Accept ==
    /\ link # "ended" /\ lan # <<>>
    /\ lan' = Tail(lan)
    /\ up' = IF Head(lan) \in Carried THEN Append(up, Head(lan)) ELSE up
    /\ UNCHANGED <<down, put, link>>

Deliver ==
    /\ up # <<>>
    /\ up' = Tail(up)
    /\ UNCHANGED <<lan, down, put, link>>

Write ==
    /\ link # "ended" /\ down # <<>>
    /\ down' = Tail(down) /\ put' = <<Head(down), 1 - put[2]>>
    /\ UNCHANGED <<lan, up, link>>

(* A break loses the newest frames of a queue (not sent) or the oldest ones *)
(* (sent and not received); it never reorders the others.                   *)
Pieces(s) == {SubSeq(s, 1, n) : n \in 0 .. Len(s)}
             \union {SubSeq(s, n, Len(s)) : n \in 1 .. Len(s)}

Break ==
    /\ link' \in (IF link = "ended" THEN {"ended"} ELSE {"broken", "ended"})
    /\ up' \in Pieces(up) /\ down' \in Pieces(down)
    /\ UNCHANGED <<lan, put>>

LinkNext == LanSends \/ PeerSends \/ Accept \/ Deliver \/ Write \/ Break

LinkSpec == LinkInit /\ [][LinkNext]_linkVars
=============================================================================
