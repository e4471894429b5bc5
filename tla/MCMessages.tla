---------------------------- MODULE MCMessages ------------------------------
(* The two codecs of the common library, one job at a time: they share no   *)
(* state.  Messages lie at the edges of every limit, one or two fields at a *)
(* time.                                                                    *)
EXTENDS WireCodec, DirectToken

NodeIdSet == {<<"a">>, <<"a", "nl", "2">>, <<"1">>}

LimitRec == [f \in LimitNames |->
    CASE f = "minMtu" -> 3 [] f = "maxMtu" -> 6 [] f = "defaultMtu" -> 5
      [] f = "tapExtra" -> 16 [] f = "minFrame" -> 14
      [] f = "control" -> 270 [] f = "socks" -> 12
      [] f \in {"nonce", "sign"} -> 2
      [] f = "version_text" -> 257
      [] f = "host" -> 5
      [] OTHER -> 3]

Letters(n) == [i \in 1 .. n |-> 1 + (i % 3)]
Edge(f) == {Letters(n) : n \in {0, LimitRec[f] - 1, LimitRec[f]}}

Rec(k, f) == [kind |-> k, field |-> f]
Nonce == <<5, 9>>

Hellos == {Rec("HELLO", [role |-> 2, version_text |-> t, feature_bits |-> 65535,
                         nonce |-> Nonce]) :
             t \in {Letters(n) : n \in {0, 3, 255, 256}}}
AuthNodes == {Rec("AUTH_NODE", [node_id |-> t, client_nonce |-> Nonce, sign |-> <<1, 2>>]) :
                t \in Edge("node_id")}
AuthTaps == {Rec("AUTH_TAP", [username |-> u, password |-> p, network_id |-> 300,
                              client_nonce |-> Nonce]) :
               u \in Edge("username"), p \in Edge("password")}
            \union {Rec("AUTH_TAP", [username |-> Letters(n), password |-> Letters(255),
                                     network_id |-> 300, client_nonce |-> Nonce]) :
                      n \in {2, 8, 12, 20}}
AuthOks == {Rec("AUTH_OK", [session_id |-> 1, network_id |-> 65535,
                            server_time |-> 70000, feature_bits |-> 0])}

Push == [config_version |-> 1, network_id |-> 300, tap_enabled |-> 1,
         socks_enabled |-> 0, direct_enabled |-> 1, tap_name |-> Letters(1),
         bridge_name |-> <<>>, mtu |-> 6, direct_port |-> 200, flags |-> 7,
         direct_mode |-> Letters(1), direct_addr |-> Letters(2), direct_token |-> <<>>]
Pushes ==
    {Rec("CONFIG_PUSH", p) :
        p \in {[Push EXCEPT !.network_id = n, !.mtu = u] : n \in {0, 65535}, u \in {2, 3, 6, 7}}
          \union UNION {{[Push EXCEPT ![f] = t] : t \in Edge(f)} :
                   f \in {"tap_name", "bridge_name", "direct_mode", "direct_addr",
                          "direct_token"}}}
Frames == {Rec("TAP_FRAME", [network_id |-> 300, frame_len |-> n, frame |-> Letters(n)]) :
             n \in {13, 14, 15, 16}}
Opens == {Rec("SOCKS_OPEN", [stream_id |-> i, host |-> h, port |-> p]) :
            i \in {0, 9}, h \in Edge("host"), p \in {0, 80}}
Datas == {Rec("SOCKS_DATA", [stream_id |-> i, data |-> Letters(n)]) :
            i \in {0, 9}, n \in {0, 1, 8, 9}}
Closes == {Rec("SOCKS_CLOSE", [stream_id |-> i]) : i \in {0, 9}}
          \union {Rec("SOCKS_CLOSE_REASON", [stream_id |-> i, reason_code |-> 5, flags |-> 1]) :
                    i \in {0, 9}}

MessageSet == Hellos \union AuthNodes \union AuthTaps \union AuthOks \union Pushes
              \union Frames \union Opens \union Datas \union Closes

-----------------------------------------------------------------------------
Grant(u, v, n, e) ==
    [key |-> "k1", user |-> u, node |-> v, network |-> n, expire |-> e, nonce |-> <<"n">>]

GrantSet ==
    {Grant(1, <<"a">>, 2, 2), Grant(12, <<"a">>, 2, 1), Grant(1, <<"a", "nl", "2">>, 1, 2),
     Grant(1, <<"1">>, 1, 2), [Grant(1, <<"a">>, 1, 2) EXCEPT !.key = "k2"],
     Grant(0, <<"a">>, 1, 2), Grant(1, <<"a", "|">>, 1, 2), Grant(1, <<>>, 1, 2),
     Grant(1, <<"a", "a", "a", "a">>, 1, 2), Grant(1, <<"a">>, 1, 0)}

MCInit == Init /\ TokenInit
MCNext ==
    \/ step = "MAKE" /\ made = {} /\ Next /\ UNCHANGED tokenVars
    \/ pc = "IDLE" /\ TokenNext /\ UNCHANGED vars
MCSpec == MCInit /\ [][MCNext]_<<vars, tokenVars>>
=============================================================================
