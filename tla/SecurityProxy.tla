----------------------------- MODULE SecurityProxy -----------------------------
(***************************************************************************)
(* The credential proxy (src/security-proxy/security_proxy.py): the server *)
(* that holds the secrets.  Clients present a gate token; the proxy finds  *)
(* the route, by a header or by the path, reads the secrets of the route   *)
(* from its slots (ProxySlots) and sends the request on.                   *)
(*                                                                         *)
(* asyncio runs one handler at a time and switches only at an await, so    *)
(* everything between two awaits is one action.  Three things wait: the    *)
(* minting of a JAliEn token, the refresh of an OAuth token, and the       *)
(* forwarding itself, after which nothing is read any more.  A request     *)
(* that is refused before it reads a slot (404, 401, 503 without TLS)      *)
(* changes nothing and is no action.                                       *)
(*                                                                         *)
(* Values: cert and key slots hold versions of a pair that fit each other  *)
(* when they are equal; an OAuth slot and the refresh store hold refresh   *)
(* tokens; every other slot holds Secret.                                  *)
(*                                                                         *)
(* Paths are sequences of the segments between slashes.  A route's prefix  *)
(* is kept without its last slash.  ROUTES is the list after main() has    *)
(* sorted it.                                                              *)
(***************************************************************************)
EXTENDS ProxySlots, SequencesExt

CONSTANTS
    Configs,      \* what main() may be started with
    Clients, NoToken,
    Paths,        \* what clients ask for
    AnyBucket,    \* an S3 route's keypair for buckets without one of their own
    MaxMasters,   \* bound: master secrets drawn, numbered in the order they are
    Handlers,     \* what can wait for a rebuild of the TLS client
    Versions, Files, RefreshTokens, Seed, Secret, Rejected

ASSUME ValuesAssumption ==
    /\ Versions \subseteq Values /\ RefreshTokens \subseteq Values
    /\ Files \in Versions /\ Secret \in Values /\ Seed \in RefreshTokens
    /\ Versions \intersect RefreshTokens = {} /\ Secret \notin Versions \union RefreshTokens
    /\ Rejected \notin Values /\ NoValue # Rejected
ASSUME MastersAssumption == MaxMasters \in Nat /\ NoToken \notin Nat
ASSUME PathsAssumption == \A path \in Paths : path \in Seq(STRING) /\ path # <<>>
ASSUME ConfigsAssumption == \A c \in Configs :
    /\ c.routes \in Seq(ToSet(c.routes)) /\ {c.cert, c.key} \subseteq Slots \union {NoSlot}
    /\ \A r \in ToSet(c.routes) :
          /\ r.prefix \in Seq(STRING)
          \* A sign route at "/" answers what begins with another slash: its prefix is <<"">>.
          /\ r.sign # NoSlot => r.prefix # <<>>
          \* The header of bearer and S3 tokens is no route's own.
          /\ r.auth_header # "Authorization"
          \* The vault route, if there is one, is what bootstrap takes it for.
          /\ r.name = "vault" => DOMAIN r.s3 = {} /\ r.sign = NoSlot /\ r.refresh = NoSlot
    \* There is one refresh store and one provider, so at most one OAuth account.
    /\ \A i, j \in DOMAIN c.routes :
          c.routes[i].refresh # NoSlot /\ c.routes[j].refresh # NoSlot => i = j
ASSUME HandlersAssumption == {"lifespan", "loop"} \subseteq Handlers

VARIABLES
    MASTER,       \* [current, previous]
    token,        \* client -> the gate token it fetched, and how many rotations ago
    http_client,  \* the version the TLS client was built from; NoValue while there is none
    minting,      \* handler -> the version it is minting a token with, or NoValue
    refreshing,   \* client -> the OAuth refresh that waits for the provider
    store,        \* the account's refresh_store file
    live,         \* the provider: the refresh tokens it accepts
    lost          \* an answer of the provider never arrived, or not in the file

gateVars == <<MASTER, token>>
tlsVars == <<http_client, minting>>
oauthVars == <<refreshing, store, live, lost>>
serverVars == <<config, slotVars, gateVars, tlsVars, oauthVars>>

ROUTES == config.routes
Routes == {ROUTES[i] : i \in DOMAIN ROUTES}
NotRefreshing == [sent |-> NoValue, reply |-> NoValue]

\* What main() makes of a route: the slots of its headers, of its S3 keypairs, of its signing
\* seed, and of its OAuth account, a client secret being optional.
ValidRoute(r) ==
    /\ r.ingest \in Seq(Slots)
    /\ \A b \in DOMAIN r.s3 : r.s3[b] \in Seq(Slots) /\ Len(r.s3[b]) = 2   \* access, secret
    /\ {r.sign, r.refresh, r.secret} \subseteq Slots \union {NoSlot}
    /\ r.secret # NoSlot => r.refresh # NoSlot

\* Mutant: routes stay in the order of the configuration file.
ValidUnsorted(c) ==
    /\ \A i \in DOMAIN c.routes : ValidRoute(c.routes[i])
    /\ \A i, j \in DOMAIN c.routes : c.routes[i].name = c.routes[j].name => i = j
    /\ DOMAIN c.attended \subseteq Slots /\ \A s \in DOMAIN c.attended : c.attended[s] \in Policy

\* ... and of all of them: names are unique, a window closes some day, and as longer prefixes
\* are sorted first, none comes after one that it extends.
ValidConfig(c) ==
    /\ \A i \in DOMAIN c.routes : ValidRoute(c.routes[i])
    /\ \A i, j \in DOMAIN c.routes : c.routes[i].name = c.routes[j].name => i = j
    /\ \A i, j \in DOMAIN c.routes :
          i < j /\ (c.routes[i].sign = NoSlot <=> c.routes[j].sign = NoSlot)
              => ~IsStrictPrefix(c.routes[i].prefix, c.routes[j].prefix)
    /\ DOMAIN c.attended \subseteq Slots /\ \A s \in DOMAIN c.attended : c.attended[s] \in Policy

\* How a route is found, and what is done for it.
IsS3(r) == DOMAIN r.s3 # {}
ByHeader(r) == ~IsS3(r) /\ r.auth_header # ""
ByPath(r) == ~IsS3(r) /\ r.auth_header = "" /\ r.sign = NoSlot
Plain(r) == r.sign = NoSlot /\ ~IsS3(r) /\ r.refresh = NoSlot

-----------------------------------------------------------------------------
(* The gate *)

rotate_master(fresh) == MASTER' = [current |-> fresh, previous |-> MASTER.current]

Fresh == MASTER.current + 1

\* rotate_loop
Rotate ==
    /\ Fresh <= MaxMasters
    /\ rotate_master(Fresh)
    /\ token' = [c \in Clients |-> IF token[c] = NoToken \/ token[c].age = 2 THEN token[c]
                                   ELSE [token[c] EXCEPT !.age = @ + 1]]
    /\ UNCHANGED <<config, slotVars, tlsVars, oauthVars>>

\* derive_token is injective: a token is its master secret and its service.
gate_ok(t, r) == t.service = r.name /\ t.master \in {MASTER.current, MASTER.previous}

\* A sign route answers at its bare prefix, too.
Covers(r, path) ==
    IF r.sign # NoSlot THEN IsPrefix(r.prefix, path) ELSE IsStrictPrefix(r.prefix, path)

\* The first of the routes in S, if there is one.
First(S) == {ROUTES[i] : i \in {k \in S : \A m \in S : k <= m}}

\* Mutant: the first route with the header answers, whoever's the token is.
MatchFirst(t, path) ==
    LET mine == CHOOSE r \in Routes : r.name = t.service
        signing == {i \in DOMAIN ROUTES : ROUTES[i].sign # NoSlot /\ Covers(ROUTES[i], path)}
    IN First(CASE IsS3(mine) -> {i \in DOMAIN ROUTES : IsS3(ROUTES[i])}
               [] ByHeader(mine) -> {i \in DOMAIN ROUTES : ROUTES[i].auth_header = mine.auth_header}
               [] OTHER -> IF signing # {} THEN signing
                           ELSE {i \in DOMAIN ROUTES : ByPath(ROUTES[i]) /\ Covers(ROUTES[i], path)})

\* The route that answers a request with token t for path, which comes with the header that
\* the token's own route wants.  S3 clients sign, and the first S3 route answers.  Routes that
\* share an auth header are told apart by the token; without a valid one the first of them
\* answers.  Without a header it is the first sign route that covers the path, or else the
\* first other one.
match_route(t, path) ==
    LET mine == CHOOSE r \in Routes : r.name = t.service
        candidates == {i \in DOMAIN ROUTES : ROUTES[i].auth_header = mine.auth_header}
        valid == {i \in candidates : gate_ok(t, ROUTES[i])}
        signing == {i \in DOMAIN ROUTES : ROUTES[i].sign # NoSlot /\ Covers(ROUTES[i], path)}
    IN First(CASE IsS3(mine) -> {i \in DOMAIN ROUTES : IsS3(ROUTES[i])}
               [] ByHeader(mine) -> IF valid # {} THEN valid ELSE candidates
               [] OTHER -> IF signing # {} THEN signing
                           ELSE {i \in DOMAIN ROUTES : ByPath(ROUTES[i]) /\ Covers(ROUTES[i], path)})

\* run_agent, and the client's side of it: fetch_from_agent.
FetchToken(c, r) ==
    /\ c \in config.clients
    /\ token' = [token EXCEPT ![c] = [service |-> r.name, master |-> MASTER.current, age |-> 0]]
    /\ UNCHANGED <<config, slotVars, MASTER, tlsVars, oauthVars>>

-----------------------------------------------------------------------------
(* TLS *)

CertSlots == {config.cert, config.key} \ {NoSlot}

\* build_ssl_context: the slots it reads, in order, and what it finds.
TlsReads(slots, state) ==
    IF config.cert = NoSlot THEN {}
    ELSE IF slots[config.cert] = NoValue \/ Dead(config.cert, slots, state) THEN {config.cert}
    ELSE CertSlots
DeadForTls(slots, state) == {s \in TlsReads(slots, state) : Dead(s, slots, state)}

\* load_cert_chain refuses a certificate and a key that do not fit.
TlsReady(slots, state) ==
    /\ \A s \in CertSlots : slots[s] # NoValue /\ ~Dead(s, slots, state)
    /\ config.key # NoSlot => slots[config.key] = slots[config.cert]

Certificate(slots) == IF config.cert = NoSlot THEN Files ELSE slots[config.cert]

\* rebuild_tls up to the await: at once, or by way of a token minted with the certificate.
RebuildTls(h, slots, state) ==
    IF ~TlsReady(slots, state) THEN UNCHANGED tlsVars
    ELSE IF config.alien THEN minting' = [minting EXCEPT ![h] = Certificate(slots)] /\ UNCHANGED http_client
    ELSE http_client' = Certificate(slots) /\ UNCHANGED minting

\* mint_alien_token returns: the client becomes the token's, whatever was minted meanwhile.
MintReturns(h) ==
    /\ minting[h] # NoValue
    /\ http_client' = minting[h]
    /\ minting' = [minting EXCEPT ![h] = NoValue]
    /\ UNCHANGED <<config, slotVars, gateVars, oauthVars>>

\* It fails: the client stays what it is.
MintFails(h) ==
    /\ minting[h] # NoValue
    /\ minting' = [minting EXCEPT ![h] = NoValue]
    /\ UNCHANGED <<config, slotVars, gateVars, http_client, oauthVars>>

\* Mutant: a client that exists is good enough.
RefreshIfMissing ==
    /\ config.alien /\ minting["loop"] = NoValue
    /\ http_client = NoValue
    /\ Wipe(DeadForTls(SLOTS, SLOT_STATE))
    /\ RebuildTls("loop", SLOTS, SLOT_STATE)
    /\ UNCHANGED <<config, gateVars, oauthVars>>

\* alien_token_loop
RefreshAlienToken ==
    /\ config.alien /\ minting["loop"] = NoValue
    /\ Wipe(DeadForTls(SLOTS, SLOT_STATE))
    /\ RebuildTls("loop", SLOTS, SLOT_STATE)
    /\ UNCHANGED <<config, gateVars, oauthVars>>

\* lifespan serves no request before its first rebuild_tls is over.
Serving == minting["lifespan"] = NoValue

-----------------------------------------------------------------------------
(* The ingest socket *)

\* run_ingest: a value for slot s arrives, pushed by h.
Ingest(s, v, h) ==
    LET slots == PushedSlots(s, v)
        state == PushedState(s)
    IN /\ minting[h] = NoValue
       /\ Push(s, v, IF s \in CertSlots THEN DeadForTls(slots, state) ELSE {})
       /\ IF s \in CertSlots THEN RebuildTls(h, slots, state) ELSE UNCHANGED tlsVars
       /\ UNCHANGED <<config, gateVars, oauthVars>>

\* What a human or a script may have for slot s.
ValuesFor(s) ==
    IF s \in CertSlots THEN Versions \ {Files}
    ELSE IF \E r \in Routes : r.refresh = s THEN {Seed} ELSE {Secret}

Sweep == sweep_attended_slots /\ UNCHANGED <<config, gateVars, tlsVars, oauthVars>>
TimePasses == Tick /\ UNCHANGED <<config, gateVars, tlsVars, oauthVars>>

-----------------------------------------------------------------------------
(* Requests *)

\* A request of client c for path gets past the gate and is answered by route r.
Admitted(c, r, path) ==
    /\ Serving
    /\ token[c] # NoToken
    /\ r \in match_route(token[c], path)
    /\ gate_ok(token[c], r)

\* proxy: the secrets of the headers are read in order until one is missing; the path's
\* scope is checked only then, so a refused request may have spent uses.
ProxyRequest(c, r, path) ==
    /\ Admitted(c, r, path)
    /\ Plain(r)
    /\ http_client # NoValue
    /\ Get(r.ingest, InOrder(r.ingest))
    /\ UNCHANGED <<config, gateVars, tlsVars, oauthVars>>

\* ws_proxy reads them the same way, before it accepts the connection.
WsRequest(c, r, path) ==
    /\ Admitted(c, r, path)
    /\ r.websocket
    /\ http_client # NoValue
    /\ Get(r.ingest, InOrder(r.ingest))
    /\ UNCHANGED <<config, gateVars, tlsVars, oauthVars>>

\* proxy_s3: the keypair of the bucket, or the route's own; without one nothing is read.
\* Both halves are read, then both are looked at.
S3Request(c, r, path) ==
    LET bucket == IF Head(path) \in DOMAIN r.s3 THEN Head(path) ELSE AnyBucket
    IN /\ Admitted(c, r, path)
       /\ r.sign = NoSlot /\ bucket \in DOMAIN r.s3
       /\ http_client # NoValue
       /\ Get(r.s3[bucket], DOMAIN r.s3[bucket])
       /\ UNCHANGED <<config, gateVars, tlsVars, oauthVars>>

\* proxy_sign needs no TLS; the public key, or a path that is neither, costs a use like a
\* signature does.
SignRequest(c, r, path) ==
    /\ Admitted(c, r, path)
    /\ r.sign # NoSlot
    /\ Get(<<r.sign>>, {1})
    /\ UNCHANGED <<config, gateVars, tlsVars, oauthVars>>

\* Mutant: the slot wins over the file.
SlotFirst(r) == IF SLOTS[r.refresh] # NoValue THEN SLOTS[r.refresh] ELSE store

\* Whether the refresh token comes from the file, which wins; else slot_get is asked.
FromStore(r) == r.store /\ store # NoValue
oauth_current_refresh(r) == IF FromStore(r) THEN store ELSE SLOTS[r.refresh]

\* What proxy_oauth reads: the client secret, if the account has one, then the refresh token.
OAuthReads(r) == (IF r.secret = NoSlot THEN <<>> ELSE <<r.secret>>)
                 \o (IF FromStore(r) THEN <<>> ELSE <<r.refresh>>)

\* proxy_oauth up to the await.  (A path that names no account is refused before.)
OAuthRequest(c, r, path) ==
    LET reads == OAuthReads(r)
    IN /\ Admitted(c, r, path)
       /\ r.sign = NoSlot /\ ~IsS3(r) /\ r.refresh # NoSlot
       /\ http_client # NoValue
       /\ refreshing[c] = NotRefreshing
       /\ Get(reads, InOrder(reads))
       /\ refreshing' = IF AllGet(reads)
                        THEN [refreshing EXCEPT ![c].sent = oauth_current_refresh(r)] ELSE refreshing
       /\ UNCHANGED <<config, gateVars, tlsVars, store, live, lost>>

\* Refresh tokens the provider may still issue.
Unissued ==
    RefreshTokens \ ({Seed, store} \union live \union {SLOTS[s] : s \in Slots} \union
                     UNION {{refreshing[c].sent, refreshing[c].reply} : c \in Clients})

\* The provider rotates refresh tokens: each is good for one refresh.  (External.)
\* Bound: Unissued # {}.
ProviderAnswers(c) ==
    LET sent == refreshing[c].sent
        fresh == CHOOSE t \in Unissued : TRUE
    IN /\ sent # NoValue /\ refreshing[c].reply = NoValue /\ Unissued # {}
       /\ IF sent \in live
          THEN /\ live' = (live \ {sent}) \union {fresh}
               /\ refreshing' = [refreshing EXCEPT ![c].reply = fresh]
          ELSE /\ refreshing' = [refreshing EXCEPT ![c].reply = Rejected]
               /\ UNCHANGED live
       /\ UNCHANGED <<config, slotVars, gateVars, tlsVars, store, lost>>

\* Mutant: whatever the provider sends back is stored.
ReplyUnchecked(c, r) ==
    /\ r.refresh # NoSlot
    /\ refreshing[c].reply # NoValue
    /\ refreshing' = [refreshing EXCEPT ![c] = NotRefreshing]
    /\ SLOTS' = [SLOTS EXCEPT ![r.refresh] = refreshing[c].reply]
    /\ UNCHANGED <<config, SLOT_STATE, window, gateVars, tlsVars, store, live, lost>>

\* proxy_oauth after the await: a rotated token goes to the slot and to the file.
OAuthReply(c, r) ==
    /\ r.refresh # NoSlot
    /\ refreshing[c].reply # NoValue
    /\ refreshing' = [refreshing EXCEPT ![c] = NotRefreshing]
    /\ IF refreshing[c].reply = Rejected THEN UNCHANGED <<SLOTS, store>>
       ELSE /\ SLOTS' = [SLOTS EXCEPT ![r.refresh] = refreshing[c].reply]
            /\ store' = IF r.store THEN refreshing[c].reply ELSE store
    /\ UNCHANGED <<config, SLOT_STATE, window, gateVars, tlsVars, live, lost>>

\* _file_set_token fails: the token is in the slot, and the file is as it was, or empty.
OAuthStoreFails(c, r) ==
    /\ r.refresh # NoSlot /\ r.store
    /\ refreshing[c].reply \notin {NoValue, Rejected}
    /\ refreshing' = [refreshing EXCEPT ![c] = NotRefreshing]
    /\ SLOTS' = [SLOTS EXCEPT ![r.refresh] = refreshing[c].reply]
    /\ store' \in {store, NoValue}
    /\ lost' = TRUE
    /\ UNCHANGED <<config, SLOT_STATE, window, gateVars, tlsVars, live>>

\* The connection fails or times out, before or after the provider acted.
OAuthFails(c) ==
    /\ refreshing[c].sent # NoValue
    /\ refreshing' = [refreshing EXCEPT ![c] = NotRefreshing]
    /\ lost' = TRUE
    /\ UNCHANGED <<config, slotVars, gateVars, tlsVars, store, live>>

-----------------------------------------------------------------------------
(* Starting *)

\* lifespan: without a cert slot the client is built, or its token minted, at once.
FirstClient == IF config.cert = NoSlot /\ ~config.alien THEN Files ELSE NoValue
FirstMint == [h \in Handlers |->
    IF h = "lifespan" /\ config.alien /\ config.cert = NoSlot THEN Files ELSE NoValue]

ServerInit ==
    /\ config \in {c \in Configs : ValidConfig(c)}
    /\ SlotsInit
    /\ MASTER = [current |-> 1, previous |-> NoToken]
    /\ token = [c \in Clients |-> NoToken]
    /\ http_client = FirstClient
    /\ minting = FirstMint
    /\ refreshing = [c \in Clients |-> NotRefreshing]
    /\ store = NoValue
    /\ live = {Seed}
    /\ lost = FALSE

\* The proxy is restarted: only the refresh store is left.
Restart ==
    /\ Fresh <= MaxMasters
    /\ Wipe(Slots)
    /\ MASTER' = [current |-> Fresh, previous |-> NoToken]
    /\ token' = [c \in Clients |-> IF token[c] = NoToken THEN NoToken ELSE [token[c] EXCEPT !.age = 2]]
    /\ http_client' = FirstClient
    /\ minting' = FirstMint
    /\ refreshing' = [c \in Clients |-> NotRefreshing]
    /\ lost' = (lost \/ \E c \in Clients : refreshing[c] # NotRefreshing)
    /\ UNCHANGED <<config, store, live>>
=============================================================================
