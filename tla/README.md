# TLA+ models of ali-bot

ali-bot is the collection of services and scripts behind ALICE's continuous
integration: a bot that collects approvals and merges pull requests, builders
that test them, publishers that install what was built, and the helpers around
them. This directory holds TLA+ models of its core, the TLC configurations
that check them on small instances, and proofs checked by TLAPS.

Paths below are relative to the root of the repository. `PROJECT.json` maps
every definition of the modules to the lines it models and lists the hazards
the properties are for.

## 1. Inventory

### Pull request bot (`ci/process-pull-request-http.py`, `metagit`)

One process. Twisted's reactor thread serves GitHub's callbacks and a periodic
scan; one worker thread visits pull requests.

| part | state | operations |
|---|---|---|
| queue (`PrRPC`) | `items`, `must_exit`, the worker's `unprocessed` | `github_callback`, `add_all_open_prs` under a `LoopingCall`, `schedule_process_pull_requests`, `process_pull_requests`, shutdown |
| permissions (`load_perms`, `Perms`, `Approvers`) | rules, the groups that must still approve | resolve, push, approve, write to a comment, read from a comment |
| state machine (`State`, `Transition`) | none: replayed from the comments on every visit | one action per state |
| `MetaGit_GitHub` | cached pulls and commits | `get_pull(s)`, statuses, comments, merge |

Interactions: reactor and worker share `items` and the cache of pulls; the bot's
own comments carry its state from one visit to the next; `ci/run-http.sh`
rewrites `perms.yml`, `groups.yml` and `mapusers.yml` underneath it; builders
set the statuses it waits for; its statuses (`review`, and the required tests
reset to pending) are what builders look for.

Hard: callbacks during a batch, in-memory queue lost at a restart, a periodic
call that stops at an uncaught exception, partial failures in the middle of a
visit, pushes and comments in the middle of a visit, votes counted over several
visits. Correct when nothing is forgotten, nothing is merged without its quorum,
what can be merged is, and nobody is told the same thing twice.

### Builders

| part | state | operations |
|---|---|---|
| listing (`list-branch-pr`) | none | groups what can be built by its last verdict; one group chosen, or all in order |
| sharded builders (`ci/continuous-builder.sh`, `ci/build-loop.sh`, `ci/build-helpers.sh`) | worker index, pool size, a batch of hashes | list, announce the queue, build, report |
| claiming builders (`ci/claim-builder.sh`, `ci/claims.sh`, `ci/build-one.sh`) | a listing, a Nomad lock per check and commit | list, claim, build one, list again |
| clean-up (`ci/cleanup.py`) | disk | delete symlinks and builds, oldest first, until there is room |
| monitoring (`ci/queue-metrics.sh`, `ci-status-overview`, `nomad_matrix.py`, ...) | none | read and format |
| GitHub client (`alibot_helpers/github_utilities.py`, `set-github-status`, `report-pr-errors`) | pickled cache | cached pagination, set a status if it differs, report logs |

Hard: workers act on stale listings, die with locks held, lose Nomad but not
GitHub, change shards between rounds. Correct when one worker builds a check at a
time, only the builder of a check reports on it, and every check gets a verdict.

### Publishers (`publish/`)

`aliPublishS3` compares a store with what is installed (CVMFS, directories, RPM
repositories, AliEn), installs what is missing in dependency order inside a
transaction, and publishes or aborts; `get-and-run.sh` runs it from cron and
mails after repeated failures; `publish-data.sh`, `publish-cert.sh` and
`cache-ccdb.py` publish data. State: pidfile, open transaction, what is
installed, the notification file. Hard: kills in a transaction, partial
installations, limits per run, concurrent runs. Correct when no run publishes a
partial package, and every package that can be installed eventually is.

### Security proxy (`security-proxy/security_proxy.py`)

An asyncio service that keeps credentials (slots pushed in by their owner, some
with a budget of uses and time) and lends them through gate tokens.

| part | state | operations |
|---|---|---|
| slots | `SLOTS`, `SLOT_STATE` (windows of the attended ones) | push, arm, read, wipe, sweep |
| gate | `MASTER` (current and previous secret) | `rotate_loop`, `run_agent`, `match_route`, `gate_ok` |
| TLS client | `http_client`, JAliEn tokens being minted | `rebuild_tls`, `alien_token_loop`, `lifespan` |
| OAuth | refresh token in a slot and in a file per account | `proxy_oauth`, the provider's rotation |
| requests | none of their own | `proxy`, `ws_proxy`, `proxy_s3`, `proxy_sign`, `proxy_oauth` |
| commands | the keychain file | `push`, `bootstrap`, `unlock`, `token` |

Hard: state used across `await` (refreshes, certificate rebuilds), rotations under
way, commands of several users that share a keychain, restarts that keep only the
refresh store. Correct when a budget is never exceeded, an attended secret is in
memory only while it may be used, a rotation never loses the newest secret, and a
certificate that arrived is used in the end.

### Store maintenance

`update-symlink-manifests`, `repo-s3-cleanup`, `cleanup/repo-s3-cleanup` and
`repo-s3-mirror` list, index and prune the binary store while others write to it.

### The rest

`daily-tags.sh`, `build-any-ib.sh`, `build-package`, `build-rpm-sync.sh` and
`alidist-override-tags` (sequential release scripts), `cvmfs/` (user
environment), `jenkins/`, `utils/`, `analytics/`, `rpms/`, the one-off scripts of
`ci/`. They have little state of their own, or keep it in git or Jenkins.

## 2. Plan

| step | modules | abstract specification | state |
|---|---|---|---|
| 1 | `PrQueue`, `Approvers`, `Voting`, `PrApproval` | `Agreed`: the quorum as a formula | done |
| 2 | `Checks`, `ClaimedBuilders` | `Checks`: one builder, its reports | done |
| 3 | `GithubClient`, `ShardedBuilders`: batches, queued statuses, the client's requests | none: hashing promises less than `Checks` | done |
| 4 | `ProxySlots`, `SecurityProxy`, `ProxyCommands` | `AttendedSlots`: a slot's budget | done |
| 5 | `DiskCleanup` | none | done |
| 6 | proofs of `ShardedBuilders`, `DiskCleanup` and the proxy's slots | `AttendedSlots` | done |
| 7 | proofs of `PrApproval` (quorum, verdicts, silence), of the proxy's gate, refresh tokens and bootstrap, of the statuses of `ShardedBuilders` | | done |

`GithubClient` has no behaviour of its own: `ShardedBuilders` composes it with the
loops that call it. `ProxyCommands` composes `SecurityProxy` with the processes that
talk to it, and `SecurityProxy` is built on `ProxySlots`, which is shown to implement
`AttendedSlots`. The bot and the claiming builders meet in `Checks`: `Approve` is the
bot, everything else the builders.

Every safety invariant and every action property that a run checks is now a theorem.
What the plan has left is out of the prover's reach (section 5).

## 3. Modules

### PrQueue

Reactor thread, worker thread and GitHub as one state machine over sets of pull
requests. `items`, `unprocessed` and `mustExit` are the variables of the same
names; `batch` is what the worker's loop has yet to reach, `current` the pull
request in `pull_state_machine`; `hooks` are callbacks under way.

- `Callback`, `AddAllOpenPrs`, `ScheduleProcessPullRequests`, `SetMustExit` run in
  the reactor; each is one step because the reactor runs it without yielding.
- `LoadPerms`, `SkipUnconfigured`, `StartVisit`, `VisitDone`, `EndOfBatch` are the
  worker; `WorkerReturns` is the callback that requeues what it returned.
- What fails: `CallbackUnhandled` (lost, or the sha is not cached),
  `AddAllOpenPrs` with `Fault` (a repository that cannot be listed),
  `AddAllOpenPrsRaises` (any other exception: the `LoopingCall` stays stopped),
  `LoadPermsUnreadable`, `LoadPermsRaises`, `VisitFails` (`MetaGitException`:
  removed from the list), `VisitAgain` (any other exception, or mergeability
  unknown: retried), `Restart`.
- `owed` and `dropped` are history: changes that no completed visit has seen, and
  what left the queue on one of the paths that drop it.

With an unreadable `perms.yml` the worker skips its batch, or what it gets to before the
process must exit, which is one step here. `/health` and the listing pages only read and are
left out; `/process` adds to the queue as a callback does.

### Approvers, Voting

`Approvers` holds the pure part: how a rule is resolved (`Resolved`), what a changed
file asks for (`FileApprovers`, with the catch-all rule), how files combine
(`CheckPermissions`, `Pushed`), what a vote leaves (`Approve`), and the round trip
through a comment (`Reparsed`). A list of groups is a set of records `[u, n]`.
`Agreed` is the reference: an admin, or for every file that is not free enough of its
approvers. `Voting` is an `Approvers` object under any sequence of votes and round
trips.

### PrApproval

One pull request. GitHub's side: head, comments, statuses, mergeability. The worker's
side: `pc`, the sha of the visit (`pull`), the head of the cached object (`cached`,
which the reactor's `get_pulls` may replace at any moment: `RefreshCache`), the state
replayed from the comments, and `todo`, the API calls the action still has to make.
`ApprovalPending`, `ApprovalRequired`, `WhenTestsPass`, `RequestApproval` compute the
calls of an action in the order of the code; a call whose outcome depends on what
GitHub says then (`CallGetTest`, `CallRestoreReview`, `CallAskAgain`,
`CallAskAgainForMerge`, `CallComplain`) reads it in its own step and may put further
calls in front. Between any two calls users vote, authors push, checks finish, the
target moves; `CallFails` ends a visit before or after any call.

A comment is a record: who, what kind, the sha it names and the approvers it lists.
Its wording and the regular expressions that recognise it are abstracted; users only
vote, they do not imitate the bot. `since[s]` is how many comments are older than the
commit date of head `s`, chosen when it is pushed. The review status keeps the
description where the code compares it (`empty`, `conflicts`).

### Checks, ClaimedBuilders

`Checks` says what a pool of builders promises, whatever its mechanism: one worker
per check of a commit, one check per worker, and only that worker or the bot changes
its status. `ClaimedBuilders` is the mechanism of `ci/claim-builder.sh`: `List` is a
round's `list-branch-pr --all-groups`, `Claim` and `NextRow` the walk over it,
`ReportStart`, `ReportVerdict`, `Exit` the child, `GiveUp`, `Crash`, `Partition`,
`LoseClaim` what goes wrong. `rows` is `$hashes`, a listing that ages while it is
walked; `job` is the row of the child.

Nomad is external and modelled from how `ci/claims.sh` uses it: a lock has a holder and
an age in ticks since it was renewed. It is renewed at each `Tick` its holder can reach
Nomad, lapses `TTL` ticks later, and is free `Delay` ticks after that. `nomad var lock`
kills its child at the latest `Notice` ticks after the last renewal, which the guard of
`Tick` expresses; `DelayAssumption` (`Notice < TTL + Delay`) is what `-delay` is for.
That `nomad var lock` keeps to it, and that the build dies with it, is assumed. The
listing is one atomic read of GitHub, of at most `MaxListed` open pull requests: the
query's `last: 75` of those ordered by their last update, newest first. Which ones these
are is left open (`Pages`); `Crowded` says that there are more. An item is a check of a
pull request of its own.

### GithubClient, ShardedBuilders

`GithubClient` is `setGithubStatus` as the requests it is made of. `SetStatus` is a call
up to its first page; `GetPage` reads a further page, `Post` posts, `GetPageFails` and
`PostFails` are what a refused request or a broken connection leads to. GitHub is
`statuses`: a list per commit, newest first, handed out in pages, with a limit of
statuses after which `post` gets a 422 that nobody looks at. Others set statuses of
other contexts meanwhile (`OthersPost`) and shift the pages. The cache of
`github_utilities.py` is transparent: a 304 stands for a page equal to the cached one.
A later page that is refused (403, 404, 422) is taken for the end of the list; a first
page that is refused raises.

`ShardedBuilders` is a worker of `ci/continuous-builder.sh`: `List` is a round, with what
`list-branch-pr` selects (everything untested, else one red or green item at random, from at
most `MaxListed` open pull requests, as above); `NextRow` and `SkipRow` go over the batch;
`Announce` sets "queued" on the rest of the batch; `Start` and `Verdict` are the statuses of
`ci/build-loop.sh`. `Reconfigure` is the operator who rewrites `worker-index` and
`workers-pool-size`, worker by worker, while they run; the two files change together.
`listed` is the configuration that the current batch was listed with. `mixed` and the field
`whole` of a call are history: a worker that was at work together with one of another pool,
a call whose pages were all answered.

Abstracted: verdicts without a log (merge conflict, skipped) count with the others; the
failing `get` of `report-pr-errors` is `SetStatus`'s failing alternative; the "Security:
approval needed" statuses of untrusted authors and `force-hashes` are left out; the random
choice is nondeterminism. A commit that reaches GitHub's limit while its check is pending
stays untested for ever and keeps its builder from rebuilding anything else;
`UntestedGetsVerdict` leaves it out (`AtLimit`), and the hazard list says so. It is also
stated short of more open pull requests than the query returns (`Crowded`), like its
namesake in `ClaimedBuilders`: the ones left out are in no listing.

### AttendedSlots, ProxySlots, SecurityProxy, ProxyCommands

`AttendedSlots` is what the proxy's README promises of an attended slot: its secret
leaves only inside a window that a push opened, before its `ttl` and `max_uses` times at
most. `ProxySlots` is the mechanism: `Get` is `slot_get` for the slots a handler reads,
one after the other and possibly the same one twice, `Push` stores and arms, `Wipe` and
`sweep_attended_slots` close. Its history `window` says what really leaves, not what the
code counts. Every hand-out changes it, so none can pass for a stutter of
`AttendedSlots`: where `max_uses` is set, `given` is the number of hand-outs; where it is
not (the default policy), it is the parity of the number of requests served, which keeps
the state finite and still makes each of them a step that needs `MayGive`.

`SecurityProxy` is the server. asyncio switches only at an `await`, so everything between
two awaits is one action. Three things wait: minting a JAliEn token (`RebuildTls` ...
`MintReturns`, `MintFails`), refreshing an OAuth token (`OAuthRequest`, `ProviderAnswers`,
`OAuthReply`, `OAuthStoreFails`, `OAuthFails`), and forwarding, after which nothing is read
any more. The provider is external and accepts each refresh token once. Requests that are
refused before a slot is read change nothing and are no action. A gate token is its master
secret and its service; `Rotate` ages it.

A client presents its token the way its own route wants it, for any path of `Paths`, and
`match_route` finds the route as the code does: the first S3 route for a signed request; by
an auth header, and among the routes that share it by the token; else the first sign route
whose prefix covers the path, then the first other route whose prefix does. A path is the
sequence of its segments, a prefix the sequence of its own; `ROUTES` is sorted by the length
of the prefix, of which `ValidConfig` keeps what matters: no route comes after one whose
prefix it extends. Routes may have equal prefixes, extend each other's, or lie behind a sign
route, so one may answer for another and refuse its token. An S3 route has a keypair per
bucket and perhaps one for `AnyBucket`; `S3Request` takes the one of the path's first
segment, reads both halves, whatever the first gives, and refuses the request if either is
missing.

`ProxyCommands` adds `security-proxy-push` (`PushMain`), `-bootstrap` (local sources
first, then those read through the proxy's own vault route: `Turn`) and `-unlock` (lock
the keychain, read, which prompts, push).

`ValidConfig` and `ValidRoute` are what `main()` sees to: the slots of a route's headers,
keypairs, seed and account, unique names, the order of the routes, windows that close.
What is assumed of a configuration beyond that (`ConfigsAssumption`, `SourcesAssumption`):
prefixes and slots have their types; a sign route at "/" is given the prefix `<<"">>`, for
it covers what begins with another slash; no route uses `Authorization`, where bearer and
S3 tokens are, for its auth header; a route called `vault` is an ordinary one, as
bootstrap takes it to be; and, an abstraction, there is at most one OAuth account; in the
code each account may have a store of its own, and its refreshes touch no other. Certificates,
refresh tokens and other secrets are different values (`ValuesAssumption`). The provider
never issues a token twice; the bound on its tokens is the guard `Unissued # {}`.

What the model shows of the code besides its properties: building the TLS context reads
slots without spending uses, so an attended certificate is used by the TLS client after
its window; a request may spend uses of slots and be refused afterwards, for a later
slot that is missing or for its path; one half of an S3 keypair may be spent without the
other; among S3 routes only the first can be reached, of routes with
one prefix the first, and no path route where a sign route covers the path;
`proxy_oauth` stores the provider's reply in an attended slot whose window has closed
meanwhile, the exception in `AbsentOutsideWindow`; a refresh store
that cannot be written may be left empty, with the good token in memory only.

Not modelled: the SSO log-in at start and the device-code flow, path scopes, headers and
bodies, S3 signatures.

### DiskCleanup

`ci/cleanup.py`, run after every build: `Gather`, `DeleteOld` for `maximum_age`, a doClean
per environment (`CleanFirst`), then `DeleteOldest` with a doClean each until there is
`minimum_disk_space`. `doClean` is external: it removes what no symlink leads to, or
fails, which is only logged. A run may be killed between any two steps or end with the
`ValueError` of a symlink that leads out of its environment (`Abort`); `RunAgain` is the
next build. Space is counted in builds. How `.env` files say which packages are under
development is abstracted (`dev`); the age limit stays where it is over several runs and
no builds are added.

Two texts are off: the comment at `ci/cleanup.py:42-45` has the newest entry popped, the
code pops the oldest, as `OldestGoFirst` asks; and the docstring of the gathering speaks
of development packages only, while every symlink below `BUILD` is a candidate.

## 4. Runs

| run | instance | checks |
|---|---|---|
| `queue` | 3 pull requests, one of an unconfigured repository; 2 events, 2 failures | `TypeOK`, `NothingForgotten`, `HandledWhileScanning` |
| `voting` | any two rules over 2 files, 3 users, an admin, an author who may own rules | `QuorumExact`, `QuorumReachable` |
| `approval_votes` | one head, 2 files of 2 owners, 4 votes, 1 required test, 1 trouble | `TypeOK`, `QuorumBeforeMerge`, `OneVerdict`, `QuietWhenNothingNew` |
| `approval_heads` | 2 heads, the first empty, 2 votes, 1 trouble | `QuorumBeforeMerge`, `ReadyGetsMerged` |
| `claimed_builders` | 2 workers, 2 items (one yet to be reviewed), lease, delay and notice of one tick, 1 failure | `TypeOK`, `OneBuilder`, `KeepsPromise`, `UntestedGetsVerdict` |
| `proxy_commands` | ten configurations, one or more per kind of route and certificate; 9 paths, 3 slots, 2 clients, 2 unlocks, 4 master secrets, 6 refresh tokens, 3 certificates | `TypeOK`, `AbsentOutsideWindow`, `TokenOpensItsRoute`, `LiveTokenNext`, `VaultAfterItsRoute`, `AnsweredBeforeUnlock`, `WindowsKept`, `WindowsClose`, `FreshCertificateUsed` |
| `sharded_builders` | 2 workers, 2 commits with room for 2 and 3 statuses in pages of one, a pool that grows from 1 to 2, 1 failure | `TypeOK`, `OneBuilderPerShard`, `QueuedKeepsVerdict`, `RecheckKeepsUrl`, `NothingRepeated`, `UntestedGetsVerdict` |
| `disk_cleanup` | 2 environments, 3 builds, 3 symlinks of two ages in every layout, every command line, 1 unit that others take | `TypeOK`, `OldestGoFirst`, `DependenciesCached`, `SpaceOrNothingLeft`, `Ends` |
| `scan_stops` | as `queue`, 1 failure: the scan stops, and a callback never arrives | violates `CatchesUpWithLostCallbacks` |
| `approval_test_merges` | as `approval_heads` | violates `VotesSayMerge` |
| `claimed_start` | as `claimed_builders` | violates `StartKeepsVerdict` |
| `claimed_retest` | 1 worker, no failure | violates `RedIsRetested` |

What they show:

- `NothingForgotten`: what the bot owes a pull request is on its way, queued, in the
  worker's hands, or left on a path that the code documents as dropping it; nothing is
  dropped while nothing has failed.
- `HandledWhileScanning`: while the scan survives, every change of an open pull
  request of a configured repository is seen by a completed visit.
- `QuorumExact`, `QuorumReachable`: the bookkeeping of groups agrees with `Agreed` in
  both directions, and never asks for more votes than there are voters.
- `QuorumBeforeMerge`: the bot asks for a merge only if the users who commented after
  the head it looked at satisfy the rules of that head's files.
- `OneVerdict`, `QuietWhenNothingNew`: a commit's tests are reset by one verdict, and a
  visit with nothing new writes nothing, except while a merge approval is pending,
  where the code repeats its request after every partial approval.
- `ReadyGetsMerged`: a pull request that stays ready is merged, whatever failed before.
- `OneBuilder`, `KeepsPromise`, `UntestedGetsVerdict`: section 3.

- `OneBuilderPerShard`: hashing keeps the workers of one pool apart; only while the pool
  changes can two have the same commit in hand.
- `QueuedKeepsVerdict`, `RecheckKeepsUrl`, `NothingRepeated`: what a call posts compared with
  the check as GitHub shows it at that moment, several requests after the call decided;
  they hold while no page was refused and no worker of another pool was at work since.
- `UntestedGetsVerdict` (sharded): whatever crashes, is announced as queued or reconfigured,
  no commit stays without a verdict while some worker is configured for it.
- `WindowsKept`: the slots implement `AttendedSlots`: whenever a secret leaves, its window is
  open and young enough, and its budget is kept, by requests of every kind, several reads
  of a slot in one request included. `AbsentOutsideWindow`, `WindowsClose`: outside its
  window a slot's secret is not in memory, except for a refresh token that comes back late,
  and windows close without requests. What was built from a secret while the window was
  open, the TLS client, stays.
- `TokenOpensItsRoute`: two rotations are a token's life; until then it opens its route for
  exactly the paths that its clients may ask for and no other route takes, and `Taken`
  names these: routes that share a header are told apart, and a route with a shorter
  prefix never comes in the way of one with a longer prefix.
- `FreshCertificateUsed`: an older minting that finishes late, or a failed one, does not
  keep a certificate from being used. `LiveTokenNext`: concurrent refreshes, restarts and
  bootstraps never leave the proxy with a token that the provider has retired, unless an
  answer of the provider got lost or the store could not be written.
- `VaultAfterItsRoute`: bootstrap provisions the vault route before it reads through it,
  if the local sources have what the route needs and none of it closes by itself
  (`SelfSufficient`).
  `AnsweredBeforeUnlock`: no unlock gets at its secret unless a human has answered a prompt
  since it started. The prompt may have been another unlock's, or another program's: an
  answer opens the keychain for all, and one serves every unlock that overlaps it.
- `OldestGoFirst`, `DependenciesCached`, `SpaceOrNothingLeft`, `Ends`: what a clean-up
  gives up, what it keeps, and how it ends, over several runs some of which are killed.

In `claimed_builders`, `UntestedGetsVerdict` excludes behaviours in which listings are
overtaken for ever: with `StartKeepsVerdict` violated, two workers can in principle reset
each other's verdict again and again.

Why the bounds are enough. In `queue` two events on the same pull request put a callback
during the visit that the first one caused, and two failures lose a callback and the
batch or restart that would have covered for it. In `approval_votes` four votes exceed
the two a merge needs and the two a +test round needs; `MaxComments` bounds when visits
start, not what they write. In `approval_heads` the head changes at most once, and
every position of the new commit's date among the comments is chosen. In
`claimed_builders` one failure is a crash, a partition, a lost report or a failed
start; listings age because the other worker builds meanwhile. A second failure adds
combinations of these, not new ones. `MaxListed` is as large as what may be open in
`claimed_builders` and `sharded_builders`, so that their `UntestedGetsVerdict` is about
every item; with more of them open only the safety properties say anything, and these are
theorems for any `MaxListed` and without the other bounds.

In `proxy_commands` `Init` chooses one of ten configurations, so that every kind of route
is met with attended and plain slots, slots with a ttl, with a budget and with both, and
refuses three more that `main()` would refuse or sort. The routes found by prefix are two
sign routes, one within the other, and five path routes: one within another, two equal,
one behind a sign route, and one for everything else; every path of `Paths` separates some
of them. A request may read a slot twice (`nomad-rw`), and two buckets share a slot.
Four master secrets make three rotations or restarts, one more than a token lives; six
refresh tokens are more than two clients can have under way at once; two certificates
and the files put an older minting behind a newer one. In `sharded_builders` a pool that
grows lets both workers list the same commit; pages of one status make every status of
another context shift a page; `Room` is small enough to reach GitHub's limit; the one
failure is a crash, a refused request, a skipped row or a pull request that leaves. In
`disk_cleanup` three symlinks are two of one age and an older one, in two environments,
and every layout of their targets is an initial state; two builds of one environment
make a deletion that frees nothing.

`CHECK_DEADLOCK FALSE` is set where the system may really stop: a closed pull request is
the end of `PrApproval`; in `sharded_builders` every pull request may have left; a proxy
nobody talks to has nothing to do but to rotate its secrets, which the bound ends.

### Fairness

- `PrQueue`: the timers (`callLater`, `LoopingCall`) fire, the worker thread runs, and
  what supervises the process restarts it after a shutdown. GitHub owes nothing: no
  callback has to arrive.
- `PrApproval`: `WF(Visit)`. The queue visits open pull requests again and again, which
  `HandledWhileScanning` and the periodic scan justify; API calls return or raise.
- `ClaimedBuilders`: workers run; builds end because of `LONG_TIMEOUT`; time passes; a
  child that has lost its claim is killed in the end; Nomad comes back. Failures are never
  fair.
- `ShardedBuilders`: `WF(Builder(w))` per worker: every command of a row has a timeout.
- `ProxyCommands`: time passes, the sweeper (every 15 seconds) and `alien_token_loop` run,
  minting returns; strong fairness for the loop's minting, which may fail but not for
  ever ("a transient outage is harmless", `security_proxy.py:1563-1564`). Clients,
  humans and the provider owe nothing.
- `DiskCleanup`: `WF(Step)`: the script runs on and doClean returns.

### Where the code and its texts disagree

1. `ci/run-http.sh:9` says the periodic scan is there to "catch up with lost callbacks";
   the scan stops for good at the first exception other than `MetaGitException`.
2. The bot says "+1 to approve and allow automatic merging, or +test to run tests only";
   after the tests, a +test counts as the approval to merge.
3. `ci/build-loop.sh:66-72` says the start of a rebuild keeps the verdict; the type it goes
   by is that of an old listing.
4. `ci/README.md:15-18` says broken pull requests keep being tested, and
   `list-branch-pr:356-359` that one of them cannot hold up the others; the claiming
   builders walk the monitoring order and never get past the first red one.

Three more show in the definitions and have no run of their own:

5. `ci/claim-builder.sh:15` lists "every buildable PR"; the query returns 75 open ones and no
   second page (`list-branch-pr:458-462`; `Pages`).
6. `security_proxy.py:1081` says both halves of an S3 keypair "spend a use and expire
   together"; a half that is not there spends nothing, the other one does (`S3Request`).
7. `security-proxy/README.md:186-187` and `security_proxy.py:395-397` say that an attended
   secret is absent outside its window; a refresh token that the provider sends back is
   stored whether the window is still open or not (`OAuthReply`).

## 5. Proofs

| module | theorem | statement |
|---|---|---|
| `PrQueue_proofs` | `TypeCorrect`, `NothingIsForgotten` | `Spec => []TypeOK`, `Spec => []NothingForgotten` |
| `Approvers_proofs` | lemmas only | what `Resolved`, `FileApprovers`, `Pushed`, `Reparsed`, `Approve` keep |
| `Voting_proofs` | `ApprovalIsExact`, `ApprovalIsReachable` | `Spec => []QuorumExact`, `Spec => []QuorumReachable` |
| `PrApproval_proofs` | `TypeCorrect`, `MergesHaveTheirQuorum`, `VerdictsAreFinal`, `NothingNewNothingSaid` | `Spec => []TypeOK`, `Spec => []QuorumBeforeMerge`, `Spec => []OneVerdict`, `Spec => QuietWhenNothingNew` |
| `ClaimedBuilders_proofs` | `TypeCorrect`, `ClaimsExclude`, `KeepsThePromise` | `Spec => []TypeOK`, `Spec => []OneBuilder`, `Spec => KeepsPromise` |
| `ShardedBuilders_proofs` | `TypeCorrect`, `HashingExcludes`, `CallsPostNews`, `RebuildsKeepTheUrl`, `AnnouncementsKeepVerdicts` | `Spec => []TypeOK`, and `Spec => []P` for `OneBuilderPerShard`, `NothingRepeated`, `RecheckKeepsUrl`, `QueuedKeepsVerdict` |
| `ProxyCommands_proofs` | `TypeCorrect`, `TokensOpenTheirRoutes`, `NextTokenIsLive`, `VaultIsProvisioned`, `SecretsAbsent`, `AnsweredFirst` | `Spec => []TypeOK`, and `Spec => []P` for `TokenOpensItsRoute`, `LiveTokenNext`, `VaultAfterItsRoute`, `AbsentOutsideWindow`, `AnsweredBeforeUnlock` |
| | `BudgetsKept` | `Spec => WindowsKept` |
| `DiskCleanup_proofs` | `TypeCorrect`, `OldestFirst`, `DependenciesStay`, `SpaceOrNothing` | `Spec => []TypeOK`, `Spec => []OldestGoFirst`, `Spec => []DependenciesCached`, `Spec => SpaceOrNothingLeft` |

They hold for every value of the constants that the modules' `ASSUME`s allow, in
particular for any number of pull requests, users, workers and failures. The assumptions
are: finitely many users, some admin (`UsersAssumption`, `AdminsAssumption`); rules,
required tests and votes have their types, no required test is called `review`, and the
bot is no user who votes (`RulesAssumption`, `TestsAssumption`, `VotesAssumption`); the
lock delay and the pools (`DelayAssumption`, `PoolAssumption`); configurations and
values of the proxy (section 3); finitely many builds (`CapacityAssumption`); bounds are
numbers.

- **PrQueue.** `NothingForgotten` is not inductive: when a visit ends the pull request
  leaves `unprocessed`, and an event that came during the visit must be found elsewhere.
  `WorkerHoldsCurrent` says where: with the callbacks, back in `items`, or dropped.
- **Approvers, Voting.** Each remaining group is what some file lacks (`Explained`), and
  whatever a file lacks is asked for by some group (`Covered`), where a file lacks its
  number less the votes its approvers have cast. Neither a vote nor a round trip through a
  comment changes that: groups of the same users merge into the one with the larger
  number, which is the one that explains the stricter file.
- **PrApproval.** The replay and the tally are recursive functions over data; that they take
  one step per comment or vote is shown from the least number for which they would not
  (`ReplayStepwise`, `TallyStepwise`), and everything else goes along those steps.
  - *Quorum* (`QInv`). Votes are counted over several visits, and what is left of the groups
    travels in the bot's comments. Every comment about the head is honest (`Honest`): what
    it lists is what the files lack once some of those who voted since have been heard.
    A replay therefore ends in a sound state (`Sound`), whose action makes justified
    calls only (`JustifiedCalls`). A comment written after a push may be wrong, for the
    files are those of the new head, but no visit replays it. Votes only accumulate, so
    what was justified stays so.
  - *Verdicts* (`VInv`). Only the last call of an action is a verdict, and there is none
    among the calls once one has been written: a replay that finds it ends beyond the
    states whose actions could write another.
  - *Silence* (`SInv`). A visit that nothing disturbs goes through phases (`Complaining`,
    `Asking`, `Approving`, `Testing`, `Deciding`), each of which has what is left to do in
    `todo` and leads to the next or to `Settled`: the comments and statuses give the visit
    after it nothing to say. With nobody left who counts, for instance, the tally changes
    nothing (`HeardBefore`), before and after the round trip through a comment
    (`ReparsedHears`). `asked` and `stirred` say when a visit was not disturbed. TLC checked
    `SInv` on the instances of `approval_votes` and `approval_heads` before it was proved.
- **ClaimedBuilders.** While a child runs, the lock of its row is in its worker's name and
  at most `Notice` ticks old. A tick frees only locks of age `TTL + Delay`, which
  `DelayAssumption` puts beyond `Notice`; so two children never share a row. With that,
  each step of the builders is a step of `Checks` or a stutter: `Claim` starts, reports
  are by the one builder, `Exit`, `GiveUp`, `LoseClaim`, `Crash` stop, `Approve` requires.
- **ShardedBuilders.** `OneBuilderPerShard` says nothing of why a row is in a batch;
  `Sharded` does: what a worker has in hand hashes to the index its pool gave it when it
  listed. With `PoolAssumption` (in each deployment the workers agree on the size and
  have different indices) two workers of one listing cannot share a commit.
  `ToldBeforeStart`, that nothing is left to announce once the row itself is worked on, is
  what keeps the announcements inside the batch. The client's requests never move a call
  to another commit (`ReadKeepsCall`, `RequestKeepsCall`).

  What a call posts is about statuses that may have changed since the call decided. `FInv`
  says why they have not: everybody at work next to a worker that is not `mixed` was
  listed by the same configuration (`Alone`), so only its own call is about its commit;
  the pages still to be read hold all statuses of its context and what it is about to
  post is news (`Informed`), also when others' statuses shift the pages; and what it has
  yet to build has no verdict (`Fresh`).
- **ProxyCommands.** The code counts what is left of a window, the history what left the
  proxy. `CountsAlike` relates them: age and time left make up `ttl`, what was given and
  what is left make up `max_uses`, where these are set. With it `Get` is a `Give` of the
  values it hands out, `Push` an `Open`, `Tick` a `Pass`, and everything else closes
  windows or leaves them alone.
  - *Gate* (`GInv`): a token's age says which secret it was made with: the current one, the
    previous one, or one older than both. Routes that share a header are told apart by
    their names, which a token carries. Of two routes whose prefixes cover one path, one
    prefix extends the other (`PrefixesCompare`), so the order of the routes puts the
    longer one first (`EarlierIsLonger`), and the first that covers a path is the route
    itself or one that takes the path from it (`GateOpensOwn`, `FirstOf`, `TokenOpens`).
  - *Refresh tokens* (`RInv`): a token that the provider has sent is good and nowhere else
    until it is stored, neither in the store nor in a slot nor in another request; so no
    other refresh can retire it, and the stored one is good or its successor is on its way.
  - *Bootstrap* (`BInv`): what a local source was to provide is there while nothing has gone
    wrong (`GettingOn`), for a slot without a window is not wiped and a TLS client is only
    replaced by another (`Kept`).
  - *Keychain* (`UInv`): while it is open, every unlock under way has been answered, because
    each of them locks it before it does anything else.
- **DiskCleanup.** A step deletes the oldest of its list, which is the oldest on disk only if
  the list has everything: `AllListed` says so for each phase of a run, `Young` that the
  list has nothing that is too old, `OthersKept` that what is no candidate stays.

Only model-checked: the liveness properties (`HandledWhileScanning`, `ReadyGetsMerged`, both
`UntestedGetsVerdict`, `WindowsClose`, `FreshCertificateUsed`, `Ends`), for which the prover
would need fairness and `ENABLED`, and the disagreements that runs show, which are
counterexamples. Every safety invariant and every action property of the passing runs is a
theorem.

## 6. Not modelled, and why

`PROJECT.json` lists every component with its status.

- Text: comments, logs, YAML, regular expressions, HTML; GitHub's rate limits; what
  `aliBuild` does.
- The merge of a head that is pushed between the last look and the merge call: the API is
  given no sha, so `QuorumBeforeMerge` is about the head the visit looked at.
- The processes a killed build leaves behind.
- The publishers (`publish/`): their correctness is that of `cvmfs_server`'s transactions,
  which the code here only calls; a model would have to invent what an interrupted
  transaction leaves. Their hazards are listed.
- Store maintenance: batch scripts over a listing of S3, whose consistency is the store's.
- Release scripts, monitoring, Jenkins jobs, set-up and environment scripts: sequential,
  or without state of their own.
