--------------------------- MODULE MCSecurityProxy ---------------------------
(* One small configuration for each kind of route and of certificate: Init   *)
(* chooses one of them.  The last three are none that main() would start     *)
(* with: a name twice, prefixes out of order, a window that never closes.    *)
EXTENDS ProxyCommands

CONSTANTS a, b, d, c1, c2

None == [s \in {} |-> 0]

Path(name, prefix) ==
    [name |-> name, prefix |-> prefix, auth_header |-> "", websocket |-> FALSE, ingest |-> <<>>,
     s3 |-> None, sign |-> NoSlot, refresh |-> NoSlot, secret |-> NoSlot, store |-> FALSE]
Header(name, header, slots) == [Path(name, <<>>) EXCEPT !.auth_header = header, !.ingest = slots]
Sign(name, prefix, slot) == [Path(name, prefix) EXCEPT !.sign = slot]
S3(name, pairs) == [Path(name, <<>>) EXCEPT !.s3 = pairs]
OAuth(secret, stored) ==
    [Path("mail", <<"mail">>) EXCEPT !.refresh = a, !.secret = secret, !.store = stored]

Limits(ttl, uses) == [ttl |-> ttl, max_uses |-> uses]
Config(routes, attended, clients) ==
    [routes |-> routes, attended |-> attended, cert |-> NoSlot, key |-> NoSlot, alien |-> FALSE,
     sources |-> <<>>, clients |-> clients, slots |-> {a, b}, unlockers |-> {}]

MCPaths == {<<"b1", "x">>, <<"ccdb", "x">>, <<"ccdb", "qc">>, <<"ccdb", "qc", "x">>, <<"mail", "me">>,
            <<"sign">>, <<"sign", "x">>, <<"sign", "ac">>, <<"sign", "ac", "pubkey">>}

\* nomad-rw sends slot b in two of its headers.
Nomad == <<Header("nomad", "X-Nomad-Token", <<a>>),
           [Header("nomad-rw", "X-Nomad-Token", <<b, a, b>>) EXCEPT !.websocket = TRUE]>>
Vault == Header("vault", "X-Vault-Token", <<a>>)
Nested == <<Sign("sign-ac", <<"sign", "ac">>, a), [Path("qc", <<"ccdb", "qc">>) EXCEPT !.ingest = <<b>>],
              Sign("sign", <<"sign">>, b), Path("signs", <<"sign">>), Path("ccdb", <<"ccdb">>),
              Path("ccdb-2", <<"ccdb">>), Path("web", <<>>)>>
Buckets == <<S3("s3", ("b1" :> <<a, b>>) @@ (AnyBucket :> <<d, b>>)), S3("s3-2", "b1" :> <<a, a>>)>>

MCConfigs == {
    Config(Nomad, (a :> Limits(1, NoLimit)) @@ (b :> Limits(2, 2)), {c1}),
    Config(Nested, (a :> Limits(NoLimit, 1)), {c1}),
    [Config(Buckets, (a :> Limits(NoLimit, 1)) @@ (b :> Limits(2, 2)), {c1}) EXCEPT !.slots = Slots],
    [Config(<<OAuth(NoSlot, TRUE)>>, None, {c1, c2}) EXCEPT !.slots = {a}],
    Config(<<OAuth(b, FALSE)>>, (a :> Limits(1, NoLimit)), {c1}),
    [Config(<<Sign("sign", <<"sign">>, a)>>, (a :> Limits(1, 1)), {c1})
        EXCEPT !.cert = b, !.unlockers = Unlockers],
    [Config(<<>>, None, {}) EXCEPT !.cert = a, !.key = b],
    [Config(<<>>, None, {}) EXCEPT !.alien = TRUE],
    [Config(<<>>, (a :> Limits(2, NoLimit)), {}) EXCEPT !.cert = a, !.key = b, !.alien = TRUE],
    [Config(<<Vault>>, None, {})
        EXCEPT !.cert = b, !.alien = TRUE,
               !.sources = <<[slot |-> d, kind |-> "vault"], [slot |-> a, kind |-> "local"],
                             [slot |-> b, kind |-> "local"]>>],
    Config(<<Nomad[1], Nomad[1]>>, None, {}),
    Config(<<Nested[5], Nested[2]>>, None, {c1}),
    Config(Nomad, (b :> Limits(NoLimit, NoLimit)), {})}
=============================================================================
