----------------------------- MODULE ProxyCommands -----------------------------
(***************************************************************************)
(* The security proxy with the commands that fill its slots:               *)
(* security-proxy-push, -bootstrap and -unlock.  Each command is a process *)
(* of its own that talks to the server over the ingest socket, and over    *)
(* the proxy's own vault route.                                            *)
(***************************************************************************)
EXTENDS SecurityProxy

CONSTANTS Unlockers   \* runs of security-proxy-unlock that may overlap

ASSUME CommandHandlersAssumption ==
    /\ Unlockers \union {"push", "bootstrap"} \subseteq Handlers
    /\ Unlockers \intersect {"lifespan", "loop", "push", "bootstrap"} = {}
ASSUME SourcesAssumption ==
    \A c \in Configs : c.sources \in Seq([slot : Slots, kind : {"local", "vault"}])

VARIABLES
    boot,        \* the bootstrap run: which sources are still to do, what went wrong
    keychain,    \* the keychain file of the attended sources: "locked" or "unlocked"
    unlocking    \* unlock run -> what it is doing, whether a human answered since it locked

commandVars == <<boot, keychain, unlocking>>
vars == <<serverVars, commandVars>>

\* trouble: a source of its own failed, or somebody else interfered with the proxy.
\* missed: a vault source could not be read through the proxy.
NoBoot == [todo |-> {}, got |-> FALSE, trouble |-> FALSE, missed |-> FALSE]
NoUnlock == [pc |-> "idle", slot |-> NoSlot, answered |-> FALSE]

TypeOK ==
    /\ ValidConfig(config)
    /\ SlotsTypeOK
    /\ MASTER \in [current : Nat, previous : Nat \union {NoToken}]
    /\ \A c \in Clients : token[c] = NoToken \/
           token[c] \in [service : {r.name : r \in Routes}, master : Nat, age : 0..2]
    /\ http_client \in Values \union {NoValue}
    /\ minting \in [Handlers -> Values \union {NoValue}]
    /\ refreshing \in [Clients -> [sent : Values \union {NoValue},
                                   reply : RefreshTokens \union {NoValue, Rejected}]]
    /\ store \in RefreshTokens \union {NoValue}
    /\ live \subseteq RefreshTokens
    /\ lost \in BOOLEAN
    /\ boot \in [todo : SUBSET DOMAIN config.sources, got : BOOLEAN, trouble : BOOLEAN, missed : BOOLEAN]
    /\ keychain \in {"locked", "unlocked"}
    /\ unlocking \in [Unlockers -> [pc : {"idle", "locked", "read"},
                                    slot : Slots \union {NoSlot}, answered : BOOLEAN]]

Init ==
    /\ ServerInit
    /\ boot = NoBoot
    /\ keychain = "locked"
    /\ unlocking = [u \in Unlockers |-> NoUnlock]

-----------------------------------------------------------------------------
(* security-proxy-push *)

PushMain(s) ==
    /\ s \in config.slots
    /\ \E v \in ValuesFor(s) : Ingest(s, v, "push")
    /\ UNCHANGED commandVars

-----------------------------------------------------------------------------
(* security-proxy-bootstrap *)

\* Mutant: sources are worked through as the file lists them.
TurnAsListed == Min(boot.todo)

\* The source whose turn it is: local ones come first, for the vault is read through a
\* route that they provision.
Turn ==
    LET local == {i \in boot.todo : config.sources[i].kind = "local"}
    IN Min(IF local # {} THEN local ELSE boot.todo)
Source == config.sources[Turn]

BootstrapStart ==
    /\ boot.todo = {} /\ config.sources # <<>>
    /\ boot' = [NoBoot EXCEPT !.todo = DOMAIN config.sources]
    /\ UNCHANGED <<serverVars, keychain, unlocking>>

\* push_slot returns when the server has answered, so after the rebuild it waited for.
BootstrapReady == boot.todo # {} /\ minting["bootstrap"] = NoValue

\* The source has no value, or reading it fails: the run goes on with the next.
BootstrapSourceFails ==
    /\ BootstrapReady
    /\ boot' = [boot EXCEPT !.todo = @ \ {Turn}, !.got = FALSE, !.trouble = TRUE]
    /\ UNCHANGED <<serverVars, keychain, unlocking>>

\* What _vault_get asks for, with a gate token fetched for the occasion.
VaultRoutes == {r \in Routes : r.name = "vault" /\ r.auth_header = "X-Vault-Token"}

\* _vault_get: through the proxy.
BootstrapReadsVault(r) ==
    /\ BootstrapReady /\ Source.kind = "vault" /\ ~boot.got
    /\ r \in VaultRoutes
    /\ Serving /\ http_client # NoValue
    /\ Get(r.ingest, InOrder(r.ingest))
    /\ boot' = IF AllGet(r.ingest) THEN [boot EXCEPT !.got = TRUE]
               ELSE [boot EXCEPT !.todo = @ \ {Turn}, !.missed = TRUE]
    /\ UNCHANGED <<config, gateVars, tlsVars, oauthVars, keychain, unlocking>>

\* No such route, no answer yet, or no TLS client: 503.
BootstrapMissesVault ==
    /\ BootstrapReady /\ Source.kind = "vault" /\ ~boot.got
    /\ VaultRoutes = {} \/ ~Serving \/ http_client = NoValue
    /\ boot' = [boot EXCEPT !.todo = @ \ {Turn}, !.missed = TRUE]
    /\ UNCHANGED <<serverVars, keychain, unlocking>>

BootstrapPushes ==
    /\ BootstrapReady
    /\ Source.kind = "local" \/ boot.got
    /\ \E v \in ValuesFor(Source.slot) : Ingest(Source.slot, v, "bootstrap")
    /\ boot' = [boot EXCEPT !.todo = @ \ {Turn}, !.got = FALSE]
    /\ UNCHANGED <<keychain, unlocking>>

-----------------------------------------------------------------------------
(* security-proxy-unlock *)

\* Mutant: the keychain is read as it is found.
StartWithoutLocking(u, s) ==
    /\ u \in config.unlockers
    /\ unlocking[u].pc = "idle" /\ s \in Attended
    /\ unlocking' = [unlocking EXCEPT ![u] = [pc |-> "locked", slot |-> s, answered |-> FALSE]]
    /\ UNCHANGED <<serverVars, boot, keychain>>

\* unlock_main locks the keychain before anything else; if that fails it gives up.
UnlockStarts(u, s) ==
    /\ u \in config.unlockers
    /\ unlocking[u].pc = "idle" /\ s \in Attended
    /\ keychain' = "locked"
    /\ unlocking' = [unlocking EXCEPT ![u] = [pc |-> "locked", slot |-> s, answered |-> FALSE]]
    /\ UNCHANGED <<serverVars, boot>>

\* A human answers the prompt of some reader of the keychain, which opens it for all.
Answered == [u \in Unlockers |->
    IF unlocking[u].pc = "idle" THEN unlocking[u] ELSE [unlocking[u] EXCEPT !.answered = TRUE]]

\* _resolve_source: prompts if the keychain is locked.
UnlockReads(u) ==
    /\ unlocking[u].pc = "locked"
    /\ keychain' = "unlocked"
    /\ unlocking' = [(IF keychain = "locked" THEN Answered ELSE unlocking) EXCEPT ![u].pc = "read"]
    /\ UNCHANGED <<serverVars, boot>>

\* The prompt is cancelled, or the source has no value.
UnlockCancelled(u) ==
    /\ unlocking[u].pc = "locked"
    /\ unlocking' = [unlocking EXCEPT ![u] = NoUnlock]
    /\ UNCHANGED <<serverVars, boot, keychain>>

UnlockPushes(u) ==
    /\ unlocking[u].pc = "read"
    /\ \E v \in ValuesFor(unlocking[u].slot) : Ingest(unlocking[u].slot, v, u)
    /\ unlocking' = [unlocking EXCEPT ![u] = NoUnlock]
    /\ UNCHANGED <<boot, keychain>>

\* unlock_main --lock
LockEarly(s) ==
    /\ s \in Attended
    /\ Wipe({s})
    /\ UNCHANGED <<config, gateVars, tlsVars, oauthVars, commandVars>>

\* The keychain locks itself, or a human opens it for something else.  (External.)
KeychainLocksItself ==
    /\ keychain' = "locked"
    /\ UNCHANGED <<serverVars, boot, unlocking>>
HumanOpensKeychain ==
    /\ keychain = "locked" /\ config.unlockers # {}
    /\ keychain' = "unlocked"
    /\ unlocking' = Answered
    /\ UNCHANGED <<serverVars, boot>>

-----------------------------------------------------------------------------
\* The server's own actions leave the commands alone.
Server ==
    \/ Rotate /\ UNCHANGED commandVars
    \/ RefreshAlienToken /\ UNCHANGED commandVars
    \/ Sweep /\ UNCHANGED commandVars
    \/ TimePasses /\ UNCHANGED commandVars
    \/ \E h \in Handlers : MintReturns(h) /\ UNCHANGED commandVars
    \/ \E c \in Clients :
          \/ ProviderAnswers(c) /\ UNCHANGED commandVars
          \/ OAuthFails(c) /\ UNCHANGED commandVars
          \/ \E r \in Routes :
                \/ FetchToken(c, r) /\ UNCHANGED commandVars
                \/ OAuthReply(c, r) /\ UNCHANGED commandVars
                \/ OAuthStoreFails(c, r) /\ UNCHANGED commandVars
                \/ \E path \in Paths :
                      \/ ProxyRequest(c, r, path) /\ UNCHANGED commandVars
                      \/ WsRequest(c, r, path) /\ UNCHANGED commandVars
                      \/ S3Request(c, r, path) /\ UNCHANGED commandVars
                      \/ SignRequest(c, r, path) /\ UNCHANGED commandVars
                      \/ OAuthRequest(c, r, path) /\ UNCHANGED commandVars

\* A restart or a failed minting is trouble for a bootstrap that is under way.
Troubled ==
    /\ boot' = [boot EXCEPT !.trouble = @ \/ boot.todo # {}]
    /\ UNCHANGED <<keychain, unlocking>>
Disturbance ==
    \/ Restart /\ Troubled
    \/ \E h \in Handlers : MintFails(h) /\ Troubled

Commands ==
    \/ \E s \in Slots : PushMain(s) \/ LockEarly(s)
    \/ BootstrapStart \/ BootstrapSourceFails \/ BootstrapMissesVault \/ BootstrapPushes
    \/ \E r \in Routes : BootstrapReadsVault(r)
    \/ \E u \in Unlockers : UnlockReads(u) \/ UnlockCancelled(u) \/ UnlockPushes(u)
                            \/ \E s \in Slots : UnlockStarts(u, s)
    \/ KeychainLocksItself \/ HumanOpensKeychain

Next == Server \/ Disturbance \/ Commands

Spec == Init /\ [][Next]_vars

\* Time passes, the server's loops run, the proxy answers, and minting succeeds now and then.
Fairness ==
    /\ WF_vars(TimePasses /\ UNCHANGED commandVars)
    /\ WF_vars(Sweep /\ UNCHANGED commandVars)
    /\ WF_vars(RefreshAlienToken /\ UNCHANGED commandVars)
    /\ SF_vars(MintReturns("loop") /\ UNCHANGED commandVars)
    /\ WF_vars(MintReturns("lifespan") /\ UNCHANGED commandVars)

FairSpec == Spec /\ Fairness

-----------------------------------------------------------------------------
(* Properties *)

\* A secret of an attended slot leaves the proxy only inside a window that a push opened:
\* before its ttl is over, and max_uses times at most, whatever else happens meanwhile.  The
\* history shows each time that it leaves, also where max_uses does not limit how often.
WindowsKept == Abstract!Spec

\* Outside a window an attended secret is not even in memory, and no window is left open
\* without one.  The exception is a refresh token that the provider's reply brings back
\* after the window has closed: proxy_oauth stores it without looking at the window.
AbsentOutsideWindow ==
    \A s \in Attended :
        /\ SLOTS[s] # NoValue /\ SLOT_STATE[s] = NoWindow => \E r \in Routes : r.refresh = s
        /\ SLOT_STATE[s] # NoWindow => SLOTS[s] # NoValue

\* A window with a ttl closes even if nobody uses the slot any more, unless it is opened
\* anew: the sweeper's job.
WindowsClose ==
    \A s \in Slots :
        []<>(SLOT_STATE[s] = NoWindow \/ SLOT_STATE[s].expires \in {NoLimit, ATTENDED[s].ttl})

\* The clients of route r ask for these paths, which are theirs to ask for.
Asks(r, path) == IsS3(r) \/ ByHeader(r) \/ Covers(r, path)

\* Route r gives way to route q where both cover a path: q's prefix is longer, or q comes first.
GivesWay(i, j, path) ==
    /\ Covers(ROUTES[j], path)
    /\ \/ IsStrictPrefix(ROUTES[i].prefix, ROUTES[j].prefix)
       \/ ROUTES[i].prefix = ROUTES[j].prefix /\ j < i

\* Another route takes what the clients of the i-th one ask for: an earlier S3 route from an S3
\* route, no route from one with an auth header, a more specific sign route from a sign route,
\* any sign route or a more specific path from the others.
Taken(i, path) ==
    CASE IsS3(ROUTES[i]) -> \E j \in DOMAIN ROUTES : IsS3(ROUTES[j]) /\ j < i
      [] ByHeader(ROUTES[i]) -> FALSE
      [] ByPath(ROUTES[i]) ->
            \E j \in DOMAIN ROUTES : IF ROUTES[j].sign # NoSlot THEN Covers(ROUTES[j], path)
                                     ELSE ByPath(ROUTES[j]) /\ GivesWay(i, j, path)
      [] OTHER -> \E j \in DOMAIN ROUTES : ROUTES[j].sign # NoSlot /\ GivesWay(i, j, path)

Opens(t, path) == \E r \in match_route(t, path) : gate_ok(t, r)

\* A gate token opens the route it was fetched for until the second rotation after that, for
\* every path that is not taken by another route, and for no other; from then on it opens
\* nothing.  In particular a route with a shorter prefix never comes in the way of one with a
\* longer prefix, nor do routes that share an auth header in each other's.
TokenOpensItsRoute ==
    \A c \in Clients, path \in Paths : token[c] # NoToken =>
        \A i \in DOMAIN ROUTES : ROUTES[i].name = token[c].service /\ Asks(ROUTES[i], path) =>
            (Opens(token[c], path) <=> token[c].age < 2 /\ ~Taken(i, path))

\* A certificate that stays in its slots is eventually the one in use, although an older
\* minting may finish after a newer one, and any minting may fail.
FreshCertificateUsed ==
    \A v \in Versions :
        (TlsReady(SLOTS, SLOT_STATE) /\ Certificate(SLOTS) = v) ~>
        (http_client = v \/ ~TlsReady(SLOTS, SLOT_STATE) \/ Certificate(SLOTS) # v)

\* Once a rotated token is in the refresh store, the next refresh uses one the provider
\* accepts, or the reply with it is on its way: through concurrent refreshes, restarts,
\* and bootstraps that push the old seed again.  Unless an answer of the provider got
\* lost, or the file could not be written, with the only token that was still good.
LiveTokenNext ==
    \A r \in Routes : r.refresh # NoSlot /\ r.store /\ store # NoValue /\ ~lost =>
        \/ oauth_current_refresh(r) \in live
        \/ \E c \in Clients : refreshing[c].reply \in live

\* There is a vault route, and what it needs comes from local sources: the slots of its own
\* secrets and the one of the TLS certificate, key included.  None of them closes by itself.
SelfSufficient ==
    LET own == {config.sources[i].slot :
                    i \in {k \in DOMAIN config.sources : config.sources[k].kind = "local"}} \ Attended
    IN /\ config.cert \in own /\ config.key = NoSlot
       /\ VaultRoutes # {} /\ \A r \in VaultRoutes : ToSet(r.ingest) \subseteq own

\* Bootstrap never fails to read a vault source for want of what it was going to provision
\* itself, the vault route's own slots and the TLS certificate.
VaultAfterItsRoute == SelfSufficient /\ boot.missed => boot.trouble

\* No unlock gets at an attended secret without a human having answered a prompt after it
\* started, however many of them run and whatever state the keychain was left in.
AnsweredBeforeUnlock ==
    \A u \in Unlockers : unlocking[u].pc = "read" => unlocking[u].answered
=============================================================================
