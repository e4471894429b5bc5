---------------------------- MODULE DirectToken -----------------------------
(***************************************************************************)
(* The token of a direct connection (direct_token.c).  NTAP-A makes one    *)
(* for a user, a node and a network, the client carries it in the          *)
(* direct_token field of CONFIG_PUSH, NTAP-B checks it against its own     *)
(* name, network and clock.                                                *)
(*                                                                         *)
(* A text is a sequence of characters; "ntap1" counts as one, and so does  *)
(* the nonce.  HMAC-SHA256 is external and taken as injective; signatures  *)
(* are compared without regard to case, so they have no case here.         *)
(***************************************************************************)
EXTENDS Integers, Sequences, FiniteSets, SequencesExt

CONSTANTS
    Grants,     \* what ntap_direct_token_make is called with
    MaxMade,    \* bound: tokens made
    Keys, NodeIds, Networks,
    Times,      \* readings of the clock
    Chars,      \* characters a changed token may hold
    NodeIdMax,  \* NTAP_CONFIG_VALUE_MAX
    Wide        \* 2^64

ASSUME GrantsAssumption ==
    Grants \subseteq [key : STRING, user : Int, node : Seq(STRING), network : Int,
                      expire : Nat, nonce : Seq(STRING)]
ASSUME WideAssumption == Wide \in Nat
ASSUME ClockAssumption == Times \subseteq Int

VARIABLES
    made,       \* the grants made so far, each with its token
    token,      \* the token that is presented
    step,
    ctx,        \* what the checking side expects
    verdict     \* what ntap_direct_token_verify returned and stored

tokenVars == <<made, token, step, ctx, verdict>>

-----------------------------------------------------------------------------
Digit == <<"1", "2", "3", "4", "5", "6", "7", "8", "9">>

(* PRId64: numbers without leading zeros. *)
DigitOf(d) == IF d = 0 THEN "0" ELSE Digit[d]
Decimal(n) ==
    LET text[m \in 0 .. n] == IF m < 10 THEN <<DigitOf(m)>>
                              ELSE Append(text[m \div 10], DigitOf(m % 10))
    IN  text[n]

Digits == {"0"} \union Range(Digit)
DigitValue(c) == IF c = "0" THEN 0 ELSE CHOOSE d \in 1 .. 9 : Digit[d] = c

Blank(c) == c \in {" ", "nl"}
Skip(s) ==                      \* %jd and %ju skip blanks first
    LET first == {i \in DOMAIN s : ~Blank(s[i])}
    IN  IF first = {} THEN <<>>
        ELSE SubSeq(s, CHOOSE i \in first : \A j \in first : i <= j, Len(s))

Signed(s) == s # <<>> /\ s[1] \in {"+", "-"}
Magnitude(s) == IF Signed(s) THEN Tail(s) ELSE s
IsDecimal(s) == s # <<>> /\ \A i \in DOMAIN s : s[i] \in Digits
ValueOf(s) == LET upTo[i \in 0 .. Len(s)] ==
                      IF i = 0 THEN 0 ELSE upTo[i - 1] * 10 + DigitValue(s[i])
              IN  upTo[Len(s)]

(* The number a field stands for, 0 for one that is refused: sscanf must    *)
(* find a number and nothing behind it.  %ju takes -n for 2^64 - n.         *)
Parsed(s, unsigned) ==
    LET t == Skip(s)
    IN  IF ~IsDecimal(Magnitude(t)) THEN 0
        ELSE IF t[1] # "-" THEN ValueOf(Magnitude(t))
        ELSE IF unsigned /\ ValueOf(Magnitude(t)) # 0 THEN Wide - ValueOf(Magnitude(t))
        ELSE 0

NodeIdOk(s) == s # <<>> /\ Len(s) < NodeIdMax /\ ~Contains(s, "|")
IsNonce(s) == Len(s) = 1 /\ s[1] \in {"n", "N"}

-----------------------------------------------------------------------------
(* direct_token_sign refuses what it is not meant to sign. *)
Signable(g) ==
    g.user > 0 /\ NodeIdOk(g.node) /\ g.network > 0 /\ g.expire > 0 /\ IsNonce(g.nonce)

(* Fault: the expiry is not part of what is signed. *)
SigningWithoutExpiry(g) ==
    Decimal(g.user) \o <<"nl">> \o g.node \o <<"nl">> \o Decimal(g.network)
    \o <<"nl">> \o g.nonce

Signing(g) ==
    Decimal(g.user) \o <<"nl">> \o g.node \o <<"nl">> \o Decimal(g.network)
    \o <<"nl">> \o Decimal(g.expire) \o <<"nl">> \o g.nonce

Hmac(key, text) == [key |-> key, text |-> text]
Garbage == [key |-> "none", text |-> <<>>]

Body(g) ==
    <<"ntap1", "|">> \o Decimal(g.user) \o <<"|">> \o g.node \o <<"|">>
    \o Decimal(g.network) \o <<"|">> \o Decimal(g.expire) \o <<"|">> \o g.nonce

TokenOf(g) == [body |-> Body(g), sign |-> Hmac(g.key, Signing(g))]

(* make refuses, and leaves no token, for a grant that is not signable. *)
Make(g) ==
    /\ step = "MAKE"
    /\ Signable(g) /\ Cardinality(made \union {g}) <= MaxMade
    /\ made' = made \union {g}
    /\ UNCHANGED <<token, step, ctx, verdict>>

(* One character put in, taken out or replaced. *)
Edited(s) ==
    {s} \union {InsertAt(s, i, c) : i \in 1 .. Len(s) + 1, c \in Chars}
        \union {RemoveAt(s, i) : i \in DOMAIN s}
        \union {[s EXCEPT ![i] = c] : i \in DOMAIN s, c \in Chars}

(* The client presents a token it has, or parts of several, or its own. *)
Present ==
    /\ step = "MAKE" /\ made # {}
    /\ \E g, h \in made : \E body \in Edited(Body(g)) :
         \E sign \in {Hmac(h.key, Signing(h)), Garbage} :
            token' = [body |-> body, sign |-> sign]
    /\ step' = "VERIFY"
    /\ UNCHANGED <<made, ctx, verdict>>

-----------------------------------------------------------------------------
(* direct_token_next_field, six times for the body; the rest is the sign. *)
Bars(s) == {i \in DOMAIN s : s[i] = "|"} \union {0, Len(s) + 1}
FieldOf(s, k) ==
    LET bar(n) == CHOOSE i \in Bars(s) : Cardinality({j \in Bars(s) : j < i}) = n
    IN  SubSeq(s, bar(k - 1) + 1, bar(k) - 1)

Claimed(s) ==
    [user |-> Parsed(FieldOf(s, 2), FALSE), node |-> FieldOf(s, 3),
     network |-> Parsed(FieldOf(s, 4), FALSE), expire |-> Parsed(FieldOf(s, 5), TRUE),
     nonce |-> FieldOf(s, 6)]

Current(expire, now) == expire > now

Genuine(t, c) ==
    /\ Cardinality(Bars(t.body)) = 7
    /\ FieldOf(t.body, 1) = <<"ntap1">>
    /\ LET g == Claimed(t.body)
       IN  /\ g.user > 0
           /\ NodeIdOk(g.node) /\ g.node = c.node
           /\ g.network > 0 /\ g.network = c.network
           /\ g.expire > 0 /\ Current(g.expire, c.now)
           /\ IsNonce(g.nonce)
           /\ Signable(g) /\ t.sign = Hmac(c.key, Signing(g))

Verify ==
    /\ step = "VERIFY"
    /\ \E key \in Keys, node \in NodeIds, network \in Networks, now \in Times :
         /\ ctx' = [key |-> key, node |-> node, network |-> network, now |-> now]
         /\ verdict' = IF Genuine(token, ctx') THEN Claimed(token.body)
                       ELSE [user |-> 0]
    /\ step' = "DONE"
    /\ UNCHANGED <<made, token>>

TokenInit ==
    /\ made = {} /\ token = [body |-> <<>>, sign |-> Garbage]
    /\ step = "MAKE" /\ ctx = [now |-> 0] /\ verdict = [user |-> 0]

TokenNext ==
    \/ \E g \in Grants : Make(g)
    \/ Present \/ Verify

TokenSpec == TokenInit /\ [][TokenNext]_tokenVars

-----------------------------------------------------------------------------
Accepted == step = "DONE" /\ verdict.user # 0

(* A token is accepted only for a grant that was made with the checking     *)
(* side's key, node and network and has not expired, and it yields that     *)
(* grant, however the fields were rewritten, shifted or taken from several  *)
(* tokens; and a token that was left alone is accepted until it expires.    *)
OnlyMadeTokens ==
    /\ Accepted =>
        \E g \in made :
            /\ g.key = ctx.key /\ g.node = ctx.node /\ g.network = ctx.network
            /\ ctx.now < g.expire
            /\ \A f \in {"user", "node", "network", "expire", "nonce"} : verdict[f] = g[f]
    /\ step = "DONE" =>
        \A g \in made :
            /\ token = TokenOf(g)
            /\ ctx = [key |-> g.key, node |-> g.node, network |-> g.network, now |-> ctx.now]
            /\ ctx.now < g.expire
            => Accepted
=============================================================================
