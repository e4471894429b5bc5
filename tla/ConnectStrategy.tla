-------------------------- MODULE ConnectStrategy --------------------------
(***************************************************************************)
(* What `ntap-c run` promises of the paths it tries, without the messages: *)
(* one path at a time; a direct path first when the options or the server  *)
(* name one; a direct path that fails or breaks is followed by the relay,  *)
(* never by the end of the run (unless the options allow nothing else);    *)
(* once a relay path has carried traffic, its loss ends the run.           *)
(***************************************************************************)
EXTENDS Naturals, Sequences

VARIABLES
    mode,    \* the options of `run`
    tries,   \* the paths tried so far, oldest first
    stage    \* what becomes of the last of them

avars == <<mode, tries, stage>>

Stages == {"idle", "trying", "up", "over"}

(* The whole plan of a run, and the prefixes it may stop at.  A direct path *)
(* may be left out of the middle when the network cannot be restarted.      *)
Plans ==
    [plain       |-> {<<"relay", "direct", "relay">>, <<"relay", "relay">>},
     direct_only |-> {<<"direct">>},
     direct_first |-> {<<"direct", "relay", "direct", "relay">>,
                       <<"direct", "relay", "relay">>,
                       <<"relay", "direct", "relay">>, <<"relay", "relay">>}]

Planned(s) ==
    \E p \in Plans[mode] : Len(s) <= Len(p) /\ s = SubSeq(p, 1, Len(s))

MayEnd(s) == mode = "direct_only" \/ (s # <<>> /\ s[Len(s)] = "relay")

Init ==
    /\ mode \in DOMAIN Plans
    /\ tries = <<>>
    /\ stage = "idle"

(* A path is tried; the try may fail at once. *)
Try(path) ==
    /\ stage = "idle"
    /\ tries' = Append(tries, path)
    /\ Planned(tries')
    /\ \/ stage' = "trying"
       \/ stage' = "idle" /\ path = "direct" /\ mode # "direct_only"
       \/ stage' = "over" /\ MayEnd(tries')
    /\ UNCHANGED mode

Establish ==
    /\ stage = "trying"
    /\ stage' = "up"
    /\ UNCHANGED <<mode, tries>>

(* A relay that is only being tried may be left for the direct path that it *)
(* names; a relay that was up may not.                                      *)
Lose ==
    /\ stage \in {"trying", "up"}
    /\ \/ stage' = "over" /\ MayEnd(tries)
       \/ stage' = "idle" /\ ~(stage = "up" /\ MayEnd(tries))
    /\ UNCHANGED <<mode, tries>>

(* The run ends between two paths: the network cannot be started. *)
GiveUp ==
    /\ stage = "idle"
    /\ stage' = "over"
    /\ UNCHANGED <<mode, tries>>

Next == (\E path \in {"direct", "relay"} : Try(path)) \/ Establish \/ Lose \/ GiveUp

StrategySpec == Init /\ [][Next]_avars
=============================================================================
