# Specifications of dash-mno-verify

TLA+ models of the gateway of dash-mno-verify, the TLC configurations that check
them and the theorems TLAPS proves about them. The gateway lets the holder of a
masternode voting key prove, without naming the key, that it belongs to a current
Dash masternode, and answers with a grant that a community adapter turns into
membership. What must never go wrong is counting: one key, one account, per epoch
and community. What makes it hard is that every handler awaits a body, a proof
check, a store or a file in the middle of its decision, while the clock, the root
window, the season and other requests move on.

Paths below are relative to the repository's source root. `PROJECT.json` maps each
definition to the lines it models.

## 1. Inventory

### Clock guard: `core/time_guard.js`
*State*: high-water marks for epoch and season, a recorded regression, and a marks
file that exists when some other state is durable. *Operations*: `epoch()`,
`season()` (observe and return), `#persist` on a change, `#load` at boot.
*Interactions*: called by every state-bearing handler, by the prune and by the
commit of a registration. *Hard*: the clock steps back between two observations or
across a restart; only one of the two periods shows it; a write of the file fails.
*Correct when*: no request is served in a period earlier than one already served,
and a regression once reported survives a restart.

### Single-tier admission: `core/gateway.js` (`/v1/challenge`, `/v1/verify`), `core/verifier.js`
*State*: the challenge store (pending nonces, holds on roots), the claim store
(`NullifierStore`, `SqliteNullifierStore`, `DocumentNullifierStore`), the proof
gate (`Semaphore`). *Operations*: mint a challenge, take it, hold its root, check
policy, read the claim, pass the gate, re-ask the period, spend, look up the owner
of a lost race, grant; prune old epochs. *Hard*: every step is an await; two
accounts hold one key; a store read or a spend fails, or lands after it failed
(Platform); a challenge is restored after an overload. *Correct when*: a tag is
granted to one account only, every grant has its claim behind it until its epoch
is over, a challenge is consumed once, the stores stay bounded, the gate loses no
slot, every request is answered.

### Root window and refresh: `core/stores.js` (`RootWindows`), `core/gateway.js` (`refreshRoots`)
*State*: adopted snapshots by height, two views with one root each, pins.
*Operations*: adopt, age out, enforce the leaf bound, validate a snapshot.
*Hard*: reorganisations, two orders of one list at a height, republished or
future-dated snapshots, pinned roots against a memory bound. *Correct when*: one
list per height, both views agree, the adopted list is served, pins are evicted
last, the gateway comes to serve what the oracle settles on.

### Registration store: `core/registration_store.js`
*State*: an append-only file (header line, one record per line), its in-memory
index, the promise of the load in flight, two flags after an uncertain write
(`#stale`, `#unbarriered`), the topmost directory of its path that this process made
(`#createdDirBoundary`) and whether it flushed the chain (`#dirEnsured`).
*Operations*: load and repair, reconcile, append, `has`/`forSeasonContext`.
*Interactions*: the gateway's boot and the clock guard make directories it may share.
*Hard*: every file operation may fail or stop half way, the process may die, the
machine may lose power, also between the making of a directory and its flush; files of
older builds hold ties and duplicates. *Correct when*: reads answer only from stable storage, a reported
registration keeps its leaf index for good, the file never becomes unloadable, a
retry never writes a second line, the store recovers by itself.

### Season members and the two-tier flow: `core/season.js`, `verifyRegistrationCore`, `/v1/register`
*State*: per context a cached members tree and its root window, for one season; a
promise queue that serializes rolls, rebuilds, recovery and commits. *Hard*: an
append that throws after it landed strands its member; a rollover waits in the
queue behind a commit or comes between two awaits of a handler; the cache lags the
log when the capacity is read. *Correct when*: the cache is the log, nobody who was
told they are registered is missing from the served tree, no record lands in
another season, no root of a past season is accepted.

### Members tree: `core/members_tree.js`
*State*: the leaves of one context, the root, one waiting left sibling per level
(the frontier). *Operations*: append, rebuild from a list of leaves, full build and
path for a prover. *Hard*: a full tree has no next position and takes a path of its
own; the frontier an append leaves must agree with the one a rebuild computes.
*Correct when*: the root is the one every member's path leads to, however the tree
came to be.

### Rate limiters: `core/stores.js` (`RateLimiter`, `allowAll`)
*State*: a bounded table of windows in insertion order. *Operations*: allow,
wouldAllow, sweep, charge several tables or none. *Hard*: eviction at the limit, a
clock that steps, two limits of one request. *Correct when*: a refused request is
charged to no account and no community.

### Gateway lifecycle: `core/gateway.js` (`createGateway`, `listen`, `close`)
*State*: the list of releases, a refresh in flight, the socket, the connections, a
count of handlers, the shared promise of a teardown. *Interactions*: everything
that holds a store. *Hard*: a boot that throws half way, a bind or a refresh in
progress at the time of `close()`, clients that leave before their handler is done,
releases that throw. *Correct when*: no store is released under a handler or a
refresh, nothing is left behind, `close()` settles.

### Grant ledger: `adapters/common/grant_ledger.js`, `reconcile.js`
*State*: a SQLite row per member (deadline, targets, context, revision), a durable
clock floor, the scope the database is bound to, a queue per member. *Operations*:
grant (migrate, write, apply, undo), sweep, admit, `live`, `retireAll`, open with
import of a JSON ledger and binding. *Interactions*: the adapters' `apply` and
`revoke` callbacks, with the platform behind them. *Hard*: the platform call
and the row cannot be one transaction; calls land unheard; the process dies between
any two; a restart under another configuration; a second process on a shared file.
*Correct when*: everything live is named by a row, a deadline once lapsed stays
lapsed, an abandoned renewal prolongs nothing.

### Discord adapter: `adapters/discord`
*State*: the members' overwrites on each channel, `reconciled`, the pass under way.
*Operations*: apply, revoke and repair channel by channel with retries, the startup
pass over all overwrites, timers, decommissioning. *Hard*: the pass edits outside
the members' queues; operators deny and delete at any time; one channel of several
fails. *Correct when*: it does nothing to ledger and access that the ledger's rules
exclude, opens only on clean channels, gives and takes back in the end.

### Parts that are not modelled, or only through their callers
- **Matrix, Telegram, web** (`adapters/matrix`, `telegram`, `web`): what their
  callbacks do to access is one of the adapter shapes of `GrantLedger`; joining and
  messages are not modelled, the web server keeps no state.
- **Configuration** (`core/config.js`) and boot checks: refusals before anything
  runs; the modules take the accepted values as constants.
- **Oracle** (`oracle/`), **prover**, **hash functions**, **circuits**, **zkVM
  research**, **contract**, **scripts**: sequential code or data. A snapshot is
  offered or not, and a proof is modelled by the statement it proves.

## 2. Modules

| module | models | used by / proofs |
|---|---|---|
| `TimeMarks` | the marks as functions of memory, file and clock | every module with a clock; `TimeMarksProofs` (lemmas) |
| `TimeGuard` | the guard with requests, prunes, failing writes, restarts | `GatewayServer`, `GatewayServerProofs` |
| `OneMembership` | abstract promise: claim, grant, forget closed epochs | proofs in the module |
| `Admission` | the single-tier path over `TimeMarks`, its stores and gate; refines `OneMembership` | `AdmissionProofs` |
| `Filters` | `Array.prototype.filter` on sequences | `RootWindows`, `RateLimiter` |
| `RootWindows` | the window of oracle roots and the refresh that fills it | `RootWindowsProofs` |
| `RegistrationStore` | the registration file, line by line and sync by sync | `RegistrationStoreProofs` |
| `MembersTree` | the Merkle tree as functions, over a free hash | `SeasonMembers`; `SeasonMembersProofs` |
| `SeasonMembers` | the two-tier flow over `TimeMarks`, `MembersTree` and a registration log | `SeasonMembersProofs` |
| `RateLimiter` | the limiter as functions of its table and the clock | `GatewayServer` |
| `GatewayServer` | boot, connections, handlers and teardown over `TimeGuard` and `RateLimiter` | `GatewayServerProofs` |
| `GrantLedger` | the ledger with the platform behind it | `DiscordBotProofs` |
| `DiscordBot` | the Discord adapter on `GrantLedger`; refines `GrantLedger` | `DiscordBotProofs` |

Each `MC` module gives the instances of the module it is named after.

`Admission`, `SeasonMembers` and `GatewayServer` build on the operators of
`TimeMarks`, so that the clock guard is the same in all of them. `GatewayServer`
adds its actions to those of `TimeGuard`, `DiscordBot` refines the steps of
`GrantLedger` into channel-by-channel ones. `SeasonMembers` takes from
`RegistrationStore` that an append returns an index, or throws and may have landed.
`Admission` has a root window of its own with the rules its properties need;
`RootWindows` has all of them.

Every safety property that a passing run checks is proved. No module with theorems reaches a
recursive operator: filters, leaf sums and trees are recursive functions. A bounded
check of the oracle's reconstruction of a list from diffs would be the next part to
model.

## 3. How the models correspond to the code

**Awaits.** A handler is a process with a program counter (`pc`) and the local
values it carries across awaits (`job`, in the ledger `op`). An action runs from one
await to the next: Node runs nothing else in between. Everything the code does in
that stretch, sweeps, persisted marks and releases in `finally` included, is in the
action.

**`TimeMarks`/`TimeGuard`.** A clock tick is an integer; epochs and seasons are its
quotients. `MarksAfter`/`FileAfter` are `epoch(); season()` with a fault naming
which write throws. The clock may be set to any value at any time. A restart loads
the file, or starts from null marks. `RequestWith(f)` is a request under fault `f`.

**`Admission`.** `MintChallenge`, `TakeChallenge`, `RefuseChallenge`, `ReadSpent`,
`ReadOwner`, `EnterGate`, `FinishProof`, `RecheckPeriod`, `Spend`, `AfterSpend`,
`LookupOwner`, `AfterLookup` are the stretches of `/v1/challenge` and `/v1/verify`;
`RefreshRoots`, `SweepChallenges`, `PruneClaims` are the timers. A proof is the
public signals it exposes; a client may present any valid or invalid proof, under
any challenge. `Store` selects the memory, SQLite or Platform store. The Platform
store names no account, and its spends may land late (`LateSpend`).

**`OneMembership`** is the promise: `Claim`, `Grant`, `Advance` (close epochs and
forget their claims). `Admission` maps its claims to `owner` and its epoch mark to
`open`.

**`RootWindows`.** Time is the age of a record, so the model needs no clock bound.
The oracle serves any snapshot of `Published` and may change it at any time. A record
inserted by `adopt()` goes behind all of its height or below, which is where the code's
stable sort by height puts it. `LeafBounded` states the eviction loop by its result: a
height goes when what is left without the heights that go before it is over the bound.
`retainedLeaves` never grows as heights leave, so the heights that go are a prefix of
the order of eviction, as in the loop.

**`RegistrationStore`.** The file is a sequence of lines, each of two halves; what is
forced is a prefix counted in half lines, and a power loss keeps it and any part of the
rest. A successful sync forces every byte written so far, and one process writes the
file. The path is a chain of levels, the file's own entry (0) and those of the
directories above it. `lacking` counts the directories still to make, `unforced` holds
the levels a power loss may take with everything below. `LoadMkdir` is the recursive
mkdir, which forces nothing; its answer names the topmost new directory to the load that
made it, and the process keeps the first such answer in `boundary` until it dies.
`LoadDir` flushes from the file's directory to the parent of that one, so it forces
levels `0..boundary` and no others, and `DirFails` leaves the walk anywhere. A later
process starts at `boundary = 0` and flushes the file's directory only. Directories are
left behind for it by `Kill` before the flush, by a mkdir that fails half way
(`MkdirFails`) and by the boot of the gateway and the clock guard (`OthersMakeDirs`,
before a `Call`); the constant `OrphanDirs` says whether these happen. They do in the
code, and what follows is the first disagreement of section 6; the run and three of the
theorems exclude them, so as to say what the store does keep. `LoadBarrier` ...
`LoadInstall` are the awaits of a load, `CheckAppend` ... `RetryBarrier` those of an
append. One thing the model brings out: every load that the serving path reaches forces
a whole tail itself before it installs, so the barrier behind `#unbarriered` repeats
work there; it is the only one when no schedule is configured.

**`MembersTree`** translates `append`, `fromCommitments` (the carry stack), `levels`
and `pathFor` as functions; the hash is a constructor, so two roots are equal only
if they hash the same leaves in the same shape. The loops of the source that walk a
position up the tree are recursive functions of the level: `above(n)` is `n >> l` at each
level `l`, and `Climb` hashes one node per level on a given side, in `#insert`, in the
fold and the carries of `fromCommitments` and in the membership circuit.
`fromCommitments` is called with at most a full tree (`CapacityHolds`), so its refusal
of more is left out.

**`SeasonMembers`.** `ops` is the promise queue; a handler inside it runs only at its
head, and its action removes it when its operation settles by a value or a throw.
Reads of the log outside the queue (`ReadHas`, `ReadHasAgain`) see it at any time.
A request is sent once and a retry is a second request of the same key, so that the
set of requests bounds the run. Whether a root is eligible is a free choice at each
of the four places it is asked. `AskMembers`/`ReadMembers` are `/v1/members`;
`Earlier` are the leaves that earlier processes registered.

**`RateLimiter`/`GatewayServer`.** A table is the sequence of its windows in the
order of iteration; a key has at most one of them, as in a `Map`, which the proof
carries as an invariant. `OpenStore`, `BootFails`, `ChecksPass`, `BootEnds` are
`createGateway`; `close` starts the shared teardown, and `RefreshAwaited`,
`ListenAwaited`, `ConnectionsEnded`, `Drained`, `Release`, `CloseSettles` are its
awaits in their order. What a handler does between its limits and its answer is one
wait; `Admission` and `SeasonMembers` open it. One attempt to listen is made at a
time.

**`GrantLedger`.** `op[u]` is the operation at the head of a member's queue. A
platform call is the set of targets it has not settled; while it is in flight,
each may change (`Gives`, `Takes`), with or without the caller learning of it.
`Grant`, `Migrated`/`MigrateFails`, `Applied`, `ApplyRefused`, `ApplyFailsKept`,
`ApplyFailsUndone` are the stretches of a grant; `Sweep` and `SweepVisits`,
`TakenBack`/`TakeBackFails` those of a sweep; `Admit`/`AdmitSettles` of
`admitIfLive`; `Asked` of `live()`. `Open`, `Import`, `Rename`, `Bind` are the
transactions of opening. `Adapters` says what the platforms differ in (the comment
at `AdapterShape`), `OtherProcessGrants` is a second process on a shared file.
`stray` marks access given from outside, which no row can name. A database that
already carries a scope and a JSON file that still waits do not occur together in
`Init`, and the offline command runs on a ledger the bot has opened before.

**`DiscordBot`.** A platform call becomes the loop over a record's channels, each a
fresh read (`GrantReads`, `RevokeReads`) and an edit (`GrantEdits`, `RevokeEdits`)
that may fail with or without landing. `PassStarts` ... `PassEnds` are
`reconcileGuild`, `DcStarts` ... `DcEnds` the decommission command, `Operators` what
people do to overwrites and channels. Overwrites are reduced to "allows some managed
bit" and "denies one". The channels of a record are taken in one fixed order, an
attempt that is retried is not counted, and a refresh of the cache that fails is
taken to leave a current one.

## 4. Runs

| run | question | bounds |
|---|---|---|
| `gateway_server` | no request in a past period; a reported regression stays on disk; refusals cost no allowance; teardown releases nothing in use, leaves nothing and settles | 2 requests of 2 members behind one address, tables of 1 window, clock 0..3 with epochs of 2 and seasons of 3 |
| `time_guard_faults` | a reported regression with failing writes: **violated** (finding 1) | 7 ticks, epochs of 2 and seasons of 3 |
| `admission` | refinement of `OneMembership`, claims, nonces, holds, while a root ages | 2 requests, 2 accounts, 1 key, 3 epochs, SQLite store, all calls may fail, gate of 1 with queue 1 |
| `admission_live` | the same refinement with late spends, nameless claims and a root window that moves; the gate loses no slot; every request is answered | 2 requests, 2 accounts, 2 heights, 2 epochs, Platform store, one slot and one queue place; the clock is too short for a root to age |
| `root_windows` | one list per height, siblings, eviction order, the adopted list is served, self-healing | 6 snapshots: two orders, a wrong list, a reorganisation at one height |
| `registration_store` | durability, leaf index, loadability, leaf order over restarts, recovery | two buckets, new and retried registrations, two schedules; no file under 0 to 2 missing directories, or files of older builds with ties, repeats and a gap; every fault, crash and power loss, `OrphanDirs` false |
| `season_members` | cache against log, against what members were told and against the full tree; capacity; seasons | 4 registrations of 3 keys, one a retry, a tree of 4 leaves of which 2 are taken, two seasons, appends that throw and land |
| `season_membership` | two-tier grants; every request is answered | 1 registration, 1 member, the timer, three seasons, two of them in one epoch, a tree of 2 leaves |
| `grant_ledger` | a row covers all access; lapsed stays lapsed; abandoned renewals prolong nothing | 1 member, 2 channels and 1 of another guild, 4 adapters in turn, 3 seconds, 3 revisions, a JSON file or an old database |
| `discord_bot` | the bot refines `GrantLedger` | 1 member, 2 channels and a role, a restart that drops a channel, 2 seconds, 2 revisions |
| `discord_live` | interactions open on clean channels; a pass spares live grants; access is given and taken back in the end | 1 member, 1 channel, a row without a context |
| `discord_denial` | coverage when an operator's denial races a retried call: **violated** (finding 2) | as `discord_live` |

The bounds are the smallest at which each hazard occurs. A race for a tag needs two
requests and two accounts; forgetting a claim too early needs an epoch that was
left and another to go back from; shedding at the gate needs one request more than
places; overfilling a lagging tree needs as many stranded leaves as it has room for
and one more key, and the exactly full tree needs a depth at which a leaf is not a
child of the root; a torn line needs two lines of two halves; a chain of directories needs two, so that a
flush may stop between them; an evicted window
needs one account more than a table holds; a dropped channel needs a second one that
stays. Members of the ledger do not touch each other's rows, so one is enough for
its row properties. In the Discord runs one deletion or denial is open at a time,
operators give access only while no process runs, and one pass runs at a time.
For each property `PROJECT.json` names a plausible slip of the code (the definitions
commented "slip") under which TLC finds it violated in the same configuration, which
shows that the case occurs. `MaxClock` and `MaxTime` bound time, `MaxRev` the row
revisions; ages in `RootWindows` stop counting beyond every threshold.

**Fairness.** `Admission`, `SeasonMembers`: weak fairness on the suspended steps of
each handler. Bodies arrive or their requests fail by timeout, proof checks and
store calls settle, and the event loop runs what is ready. Nothing obliges clients
to send requests or a member to answer a challenge. `GatewayServer` adds that a bind
and a refresh settle, and that connections of a server that accepts no more end
(idle ones are closed, others time out). `RegistrationStore`: calls keep coming, the
promise of a file operation settles; `StoreRecovers` speaks of the time after
`TroubleEnds`, when storage has stopped failing. `RootWindows`: the clock ticks and
the refresh timer fires with an oracle that answers (`Refresh(0)`, a snapshot of age
0). `DiscordBot` alone uses strong fairness: the timer sweeps and repairs for ever,
every call returns, and an attempt made again and again on a channel does succeed
once; without the last, no retry schedule could give access back.

## 5. What is proved

- `OneMembership!NoSecondAccount`: the abstract promise gives one account per tag,
  for any tags, accounts and epochs. `OneAccountPerTag` alone is not inductive: it
  needs `GrantsBacked`, that every grant of an open epoch has its claim.
- `AdmissionProofs`, for any numbers of requests, accounts, keys, contexts, nonces and
  heights and any gate and store bounds:
  - `OneAccount`, `ClaimsStayBacked` and `Implements` under `SoundMarks`, which leaves
    the SQLite and the Platform store: beside the memory store the gateway keeps no marks
    file (`MarksFollowStore`). The inductive
    invariant joins `TypeOK`, `QueueInv` (the queue of the gate holds exactly the
    requests that wait in it), `file = marks`, `ClaimsAreBacked` and
    `OneAccountPerTag`. Its core is that the period check and the prune read the same
    monotone mark: `StepIsMonotone` shows that a claim is only ever forgotten once its
    epoch is below the mark, and `GrantStep` that a grant carries an epoch that is not.
  - `TypeCorrect`, `GateStaysSound`, `HoldsStayMatched` and `NoncesAreOneTime` without
    any assumption on the marks, so for all three stores. `GateInv` adds that the sets of proving and waiting
    requests are finite, so that a slot handed over keeps the count; `HoldsInv` counts
    the verifies upon a root; `NonceInv` adds that a nonce in use was minted, is with
    one verify, and that a verify whose nonce is used has recorded its claim.
- `GatewayServerProofs`, on the guard by itself: `MarksKeepUp`, `NeverThePast`,
  `RefusalIsDurable`. The inductive invariant is `MarksInv`: the file equals the memory
  and both have reached every period served. All three assume `SoundMarks` (the marks
  have a path and their writes succeed), which finding 1 shows to be necessary. On the
  server: `ServerIsGuarded` (every behaviour of the process is one of `TimeGuard`), from
  which the guard's theorems carry over, and `TeardownStaysSafe`. Its
  `LifeInv` ties the releases still listed to the stores that are open, the count of
  handlers to the connections at work, and each stage of a teardown to what must be
  over by then. `NoChargeForRefusals` says of the rate limits that a request refused by
  either of its two is charged to neither. `TableInv` says that a table has one window
  per key and that every count in it is at most the number of requests that passed both
  limits in that window; `PassInv`, that no request passes twice, so that a charge to
  both tables is always matched by a new pass. A sweep and an eviction leave some of the
  windows there were (`SweptRemains`, `RoomRemains`), and a clock set back only makes a
  window last longer.
- `DiscordBotProofs`, on the ledger: `TypesHold`, `AccessAlwaysCovered`,
  `LapsedNeverAccepted` and `NobodyExtended`, for any members, targets, adapters, legacy files and a second
  writer. `CoverInv` says, per member, which targets the call in flight may still
  change and which of them the row (or the JSON file not yet imported) already names;
  `FloorInv` says that the durable floor, or that of the JSON file not yet imported,
  has reached every deadline once called lapsed; `PromiseInv` that each target of a row
  was promised the row's deadline, the row of a half-done migration excepted.
- `DiscordBotProofs`, on the bot: `BotIsALedger` maps each channel-by-channel step to a step of the
  ledger or a stutter, so `BotKeepsTheLedger` follows from the ledger's theorems;
  `OpensAlwaysClean` and `PassesAlwaysSpare` rest on an invariant of each pass, of what
  it has still to visit and whom it may still touch. All four assume `~DenialsRace`
  (no operator denies a bit while a call for that member is in flight): finding 2
  shows that coverage fails without it. `PassesAlwaysSpare` also assumes one pass at a
  time: section 6 says what two can do.
- `SeasonMembersProofs`: `LandsInSeason`, `LogsStayInCapacity`, `AnswersStayTrue`,
  `GrantsAreRegistered`, `CacheAlwaysFollowsLog` and `MembersAlwaysProve`, for any keys,
  contexts, requests, timers and depth, with nothing assumed of clock or marks. Four
  parts of `SeasonInv` carry them: a commit is the head of the promise queue from its
  capacity check to its write, so neither a rollover nor another append comes between;
  the cached leaves are a prefix of the log, their tree is sound (`TreeHolds`) and every
  root of the window is the root of as many leaves of the log as it claims
  (`WindowHolds`), which growth of the log does not change (`PrefixStays`); and the season
  of the cache is never ahead of the guard nor behind an accepted challenge, which pins
  one season at the grant.
- `SeasonMembersProofs`, on the tree by itself, of any depth: `RebuildHolds` and `AppendHolds` (a
  rebuild makes, and an append keeps, the root of the full build over the padded leaves)
  and `PathsLeadToRoot`. `TreeHolds` is the invariant that joins them: at each level
  where the bit of the next position is set, the frontier holds the node left of that
  position's. The nodes of the full build are addressed by level and place; places right of
  the last leaf are empty (`EmptyNodes`), places left of the next position's are final
  (`NodesStay`), and any climb beside the right siblings passes the nodes of the tree
  (`ClimbsTheTree`). The carry stack holds one completed subtree per set bit of the number
  of leaves, so a new leaf stops at the lowest bit that is not set (`StopIsLowestZero`,
  `CarryOfBits`); a full tree leaves its root as the one entry.

- `RegistrationStoreProofs`: `FileStaysLoadable`, and under `~OrphanDirs`
  `ReadsStayDurable`, `AckedStayAtTheirLeaf` and `LeavesStayInOrder`, for any
  registrations, buckets, schedules, files of older builds, number of missing
  directories and any sequence of failures, deaths and power losses. `~OrphanDirs` says
  that whoever makes a directory of the path lives to flush it, or that the directories
  are there and durable before the gateway first starts (`PathDirs = 0`, where a mkdir
  finds nothing to make); the first disagreement of section 6 shows that it is needed.
  `StoreStaysSound`, the invariant behind all four, holds without it. The first half is
  about the index that lines rebuild: the sort by recorded index gives every record of a
  bucket one rank (`RankTaken`), lines that are no records do not matter
  (`SameRecords`), and a record of a new key and of no lower index takes the place after
  all others (`AppendRecord`). The second half is `StoreInv`: at most the last line, a
  record that extends the lines before it (`LastIsNew`), is beyond what is forced
  (`PrefixLines`); a load that got past its repair has forced the records it will
  install; a store that serves has no such load in flight, the one an append waits for
  excepted; and the record of an append is at its own leaf or in no line at all
  (`AtItsEnd`), which is why an append that joins a reconciliation reports the truth.
  `SurvivingLines` shows that a power loss leaves either the forced records or all of
  them. What is forced of the file counts only while the file is `Named`, every level of
  its path on stable storage: `PathInv` shows that without orphans the unforced levels
  are among those this process made, so that the one walk of `LoadDir` takes them all
  before it installs.

- `RootWindowsProofs`: `OneSetAtEveryHeight`, `AdoptedIsServed`, `OrdersLeaveTogether`
  and `PinnedHeightsGoLast`, for any snapshots, leaf sets, window, leaf bound, maximum
  age and skew. `Inv` joins `TypeOK` with `OneSet`, which is inductive because
  `mayCoexist` asks the block and the list of every record of the height. The other
  three are about one step: an adoption is an insertion (`Inserts`) and two trims
  (`Trims`), each of which drops whole heights. `NewestStays` shows that no trim
  drops the newest height. `PinnedAfterOthers` needs `LeavesMonotone`: if a pinned
  height goes, the unpinned ones, which go before it, left more leaves than the bound
  when it was their turn.

What a filter keeps and what a sum of leaves is are values of recursive functions of
the length of a sequence, and the tree's are of the level or of the number of leaves.
Their lemmas (`KeptFacts`, `KeptPlaces`, `LeavesMonotone`, the tree part of
`SeasonMembersProofs`) are
proved without an induction theorem: the naturals at which a statement fails have a
least one (`NatMin`, from the library's `NatLessThanWellFounded`), and that one is
excluded (`UpTo`).

Assumptions on constants are those TLC evaluates on every run. Three were added for the
proofs: a row of a legacy file that names no target is no row (`LedgerAssumption`;
the `validate()` of each adapter refuses it), the bot's configured targets are
channels, not roles (`BotAssumption`), and a registration file of an older build holds
records that `registrationRecordProblem()` lets pass, with what that build reported at
the leaf it reported (`FilesAssumption`); ties, repeats, gaps and missing headers stay
allowed.

Only model-checked:
- all liveness (`SelfHeals`, `StoreRecovers`, the Discord run's "in the end", every
  request answered, `close()` settles): fairness and `ENABLED` are outside the prover;
- the runs that expect a violation, which are counterexamples.

## 6. Findings

1. `core/time_guard.js:134`: the mark or the regression changes in memory before
   `#persist()` writes it. A write that fails once is never repeated, because later
   observations find nothing new, and a restart clears a regression that clients
   were told of. The comment there says the opposite. Run `time_guard_faults`.
2. `adapters/discord/access.js:94`: a channel keeps only the last error of its
   attempts. An attempt that landed although its request failed, followed by a
   refusal, is reported as "nothing reached Discord", and the ledger deletes the row
   of access that is live. Run `discord_denial`.

Disagreements met while modelling that no run is kept for:

- `core/registration_store.js:750`: the flush of the directory chain stops at the topmost
  directory this process's own load made. A directory of the path that somebody else
  made is never flushed by the store: `createGateway` makes that of the nullifier
  database at boot (`core/gateway.js:482`, with the default paths the same `data/`), the
  clock guard that of its marks (`core/time_guard.js:92`, which flushes the directory but
  not its parent), and a mkdir that fails half way or a death before the flush leaves
  some too. A power loss may then take the file with registrations reported as written,
  where `docs/REGISTRATION_STORE_DURABILITY.md:133` says "The file's DIRECTORY ENTRY must
  be on stable storage before the first record is acknowledged". With `OrphanDirs = TRUE`
  in `RegistrationStore.cfg` TLC finds `AckedKeepTheirLeaf` violated: a boot that makes one
  directory, a load that flushes level 0 only, one append, a power loss.
- `core/verifier.js:251`: in the branch of a lost race the owner is read through
  `readBeforeSpend` after `nullifiers.add()`, and a failing read restores the
  challenge, which the comment at line 184 excludes. No second grant follows:
  `OneAccountPerTag` and `NonceIsOneTime` hold; both are proved.
- `core/stores.js:397`: a snapshot that names no block is refused at its own height
  even when it is republished unchanged, so its root lapses once per maximum age.
  The comment at `core/gateway.js:852` says an exact republish still passes.
- `adapters/discord/bot.js:710`: `tryReconcile` is started again by the timer while a
  slow pass is still under way. When the second pass succeeds first, interactions
  open, and an edit of the first takes back a fresh grant, which the gate at line 528
  is there to prevent. `PassesSpareGrants` fails with `Passes = {1, 2}` in
  `DiscordLive.cfg`; the repair timer gives the access back later.
- `core/gateway.js:424`: two gateways of different schedules on one marker file: write,
  re-read, write, re-read leaves both satisfied. The re-read catches only a rename
  that comes before it.
- `core/stores.js:524`: a renewed window keeps its old place in the table, so the
  evicted front is not always the oldest window; and a window outlasts its length
  after the clock steps back.

## 7. Not modelled

The text of interactions and messages, the web server, field validation and
authorization of requests (each refuses before any state changes), the conflict of
two configurations over one season's engine and statement, permission bits beyond
managed and unmanaged, boot validation of channels, the marker file above, and the
sequential parts listed in section 1: oracle verification, prover, encodings,
circuits. Their correctness is equality with published vectors or soundness of
constraint systems, which a state exploration does not show. Whether a rebuild keeps
the roots a season has served (`core/season.js:134`) is seen only through
`CacheFollowsLog`.
