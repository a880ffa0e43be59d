# A verification project for bongtu

TLA+ specifications of bongtu, the model-checking configurations that check
them with TLC, and proofs that TLAPS checks. Every definition is translated from
the source; `PROJECT.json` maps each one to the lines it stands for.

To check a model, `tlc -config X.cfg M`; to check the proofs,
`tlapm` on `SharedLemmas.tla`, `BongtuPoolProofs.tla`, `IndexerProofs.tla`,
`LedgerProofs.tla`, `ClientProofs.tla`, `SolanaProofs.tla`, `PortalDirectoryProofs.tla`
and `SessionProverProofs.tla`.

## 1. The system

bongtu is a shielded token pool. Notes (a value, an owner, a salt) live as
commitments in an append-only Merkle tree kept by a contract; a Groth16 proof
spends notes by revealing their nullifiers and appending new commitments; the
underlying ERC-20 tokens sit in the contract's escrow. Off chain, an indexer
replays the contract's events into a database and serves membership paths and
feeds, wallets build and prove operations against it, a relayer submits
withdrawals, and a bot sweeps tokens sent to one-time addresses into the pool.

### Components

**Core pool** (`chains/evm/src/BongtuPool.sol`). State: the tree (index,
frontier, root), every root it ever had, the nullifiers used, the escrow, the
arbiter's epochs, the registered op modules, the initializer version and the
latch. Operations: two initializers and two reinitializers, rotation of the
arbiter, registration and removal of modules, deposit, three transfers,
disbursement of a batch, withdrawal, and `applyOp` with its pull and push
forms for modules. Hard: an op calls the token contract, which may call back;
any old root stays good, so one note can be proved again and again; padded
slots carry zeros through circuit and contract; batches align themselves by
padding. Correct when the escrow covers the unspent notes, no nullifier is
used but by spending a note of the tree, and no history is rewritten.

**Circuits** (`circuits/lib`). No state; they establish value conservation,
membership and the zero-slot rules that the contract relies on.

**Consumer op modules** (`chains/evm/src/modules`). Each verifies its own proof
and hands the pool the effects. The disburse module also keeps, per batch, the
hashes of the ciphertext chunks that anyone may deliver later. Hard: modules
come and go between operations; chunks come in any order, or never. Correct
when a batch's record names exactly the leaves the pool gave it.

**Incremental Merkle tree and its oracle** (`BongtuPool._insertNode` and
`_attachSubtree`, `packages/core/src/imt.ts`). The contract keeps one frontier
and closes a partial block in a few folds; the oracle pads leaf by leaf and
also keeps a dense record for membership paths. Correct when both have the
root of the tree of all leaves, and every path folds to it.

**Indexer** (`apps/indexer/src`). State: a mirror of the tree, the event feed,
the module registry, batches and chunk accepts, the replay gates, the
write-behind buffers, and the same in Postgres with a block cursor. Operations:
boot from the rows, poll, one handler per log, one transaction per pass. Hard:
a crash, a failed or unheard commit, a handler that throws half way through a
range; every retry applies the range again over what the last attempt left in
memory; the addresses to watch depend on that memory. Correct when the rows are
always the chain's up to the cursor, a restart always rebuilds the tree, and
every block is committed in the end.

**Portal** (`apps/indexer/src/portal.ts`, `apps/sweeper/src`,
`chains/evm/src/Portal*.sol`, `apps/pay-web`). One-time addresses are issued
for a name, recorded before they are shown, paid by plain transfer, and swept
by the bot through a factory whose events flip the record. Hard: racing
announcements of one address, a bot that crashes with a sweep in flight, a
balance that changes while a proof is made, retries and the loss of the store.
Correct when the first announcement wins, every sweep mints to the name the
payer saw, and a paid address is swept.

**Wallet engine and relayer** (`packages/client/src/ops`,
`packages/client-evm/src`, `apps/payroll-web/src/lib`, `apps/relayer/src`). A
payment is planned as a chain of merges, at most ten notes each, and one last
transaction; each leg reads the indexer's head and paths, is proved and sent by
the connected wallet, or a withdrawal by the relayer, and the next leg waits
until the indexer shows the merged note. A deposit reads the allowance,
approves and deposits. State: the run, the page's notes, nothing durable. Hard:
two pages of one account plan over the same notes; the indexer lags; a
transaction reverts after it was simulated; a wait for a receipt fails after the
transaction was sent. Correct when the account's money moves as it was asked and
once, a chain that stops costs nothing but the merges, and every run ends.

**Key cache and one-operation gate** (`packages/client/src/keys/keyCache.ts`,
`connection/edge.ts`, `scan/session.ts`, the wallet's `App.tsx`). State: the
held key and who it belongs to, the session, scans under way and scans stored.
Operations: unlock, stealth unlock, the idle deadline and its timer, the account
watcher, log in, sign out, reload. Hard: a signature popup stays open while any
of the others happen. Correct when no action is handed another account's key, a
hold ends with the account it was made under, and a page left alone locks.

**Prover service** (`prover/prover_service`). State: the status of the boot, one
lock, and per circuit a compiled prover and a resident worker process with its
pipes. Hard: the worker aborts on a bad input, may die or stall at any point,
and blocks if nobody reads what it logs; all of that happens under the lock.
Correct when a proof is of the request it answers, the blame for a failure is
right, and every request is answered.

**Solana program** (`chains/solana/program/src`). The same pool with nullifiers,
known roots and batches as accounts at derived addresses. Hard: anybody may fund
an address before the program creates it; a batch's address is passed in and
depends on padding that comes later; amounts have 64 bits. Correct when it keeps
the ledger of the EVM pool and no note is frozen.

**Solana rail of the indexer** (`apps/indexer/src/solana`). State: the mirror,
the feed, a signature cursor, and a registry of disclosure files that the
institution serves. Hard: nodes that lag behind each other, a missing answer, a
pass that fails after it was applied, files that change after their verdict was
stored. Correct when the rows are the ledger's and what is wrong with a served
file is told once.

**Arbiter ledger** (`apps/indexer/src/ledger.ts`, `postgres.ts`,
`disclosure.ts`, `alarms.ts`). State: notes, spent marks, activity items and
alarms derived from the envelope of every enterprise operation, in memory, in
write-behind buffers and as rows. Operations: apply an operation, flush with the
cursor, boot, serve notes, activity pages and alarms. Hard: items are numbered
and served before they are durable; a sender may publish a batch's ciphertext in
part or wrap it for no one; consumer operations spend the same notes and have no
envelope. Correct when everything served is one replay of the chain, an owner's
activity adds up to its notes, and what the ledger cannot read is an alarm.

**Self-scan** (`packages/client/src/scan`, the wallet's `App.tsx`). A wallet
without an arbiter decrypts the public feed. State: per owner a cursor, the
notes found, the entries that still await ciphertexts or a path, and a coverage
stamp, in memory under an owner's stamp and as a row on the device. Operations:
a pass (head, pages, re-reads, paths, nullifiers, write back), sign in, unlock,
sign out, Disconnect, change of account, reload. Hard: a pass awaits many times,
two may overlap, and one may end after its owner has left. Correct when any
sequence of passes is as good as one, and money that was sent comes up.

**Name directory** (`apps/indexer/src/names.ts`). State: a served map and its
table. Operations: register, in a v1 form without and a v2 form with a consumer
pair, and boot. Hard: what a registration read is stale when its insert is
applied; an insert may fail, or succeed unheard; the process may die. Correct
when a record holds what its owner signed, what was shown was stored, and a
name that was shown stays with those who asked for it before.

**Not modelled**: view tokens and HTTP reads (section 6).

**Left out**: cryptography and wire formats (pure functions that the models take
at their word), the web screens, generated verifiers, deployment scripts, the
name resolver contract (one signature check, no state).

### How the parts interact

The pool emits `Appended`, `SubtreeAppended` and one event per operation;
modules emit their own and call the pool; the indexer polls the logs of the
pool and of the modules its registry watches, or pages the transactions of the
Solana program. Wallets read heads and paths from the indexer, take the key from
the key cache, find notes in the arbiter's ledger or by scanning the feed, have
large batches proved by the prover service, and submit to the pool or the relayer.
The portal page asks the indexer to issue an address, the bot reads the indexer's
unswept feed and calls the factory, and the factory's `Swept` and `Announced` events return to
the indexer.
A payer's wallet and the portal look names up in the directory.

## 2. The modules

| module | models | notes |
|---|---|---|
| `Notes` | notes, roots and what a proof establishes | a root is the set of positions with a nonzero leaf |
| `ShieldedLedger` | the abstract promise: mint, change, redeem | no tree, no proof |
| `BongtuPool` | the core contract, one action per entry point | implements `ShieldedLedger` |
| `ConsumerModules` | the op modules on top of the pool | extends `BongtuPool` |
| `Imt` | frontier, oracle, dense record, paths | the field hash is concatenation, so a root is the row of all leaves |
| `Indexer` | the replay loop over a growing chain | one action per log handler |
| `Portal` | registry, factory and sweep bot | one action per await-free stretch |
| `Wallet` | planning, the chain of legs, deposits, payrolls, the relayer | over an abstract chain and an indexer that lags |
| `Session` | key cache, account watcher, log in and out, scans | an account and the identity it derives are one value |
| `Prover` | boot, lock, requests, witness workers and their pipes | one action per blocking call |
| `SolanaPool` | the Solana program, one action per instruction | implements `ShieldedLedger`; uses `Notes` |
| `SolanaIndexer` | the Solana rail's passes, rows and served files | a root is the row of leaves |
| `ArbiterLedger` | the arbiter's notes, activity and alarms, their rows, boot and pages | a poll applies its range in one step; the replay around it is `Indexer` |
| `SelfScan` | passes over the feed, their resumption, the page around them | an event appends one leaf and holds one note |
| `NameDirectory` | registrations, the table, crashes and boots | a key is a model value |
| `MCPool`, `MCImt`, `MCIndexer`, `MCPortal`, `MCWallet`, `MCSession`, `MCProver`, `MCSolana`, `MCSolanaIndexer`, `MCArbiterLedger`, `MCSelfScan`, `MCNameDirectory` | small instances | |
| `Ordered` | a set of places in order, and the items there | the code's sorts and filters, in `Indexer` and `ArbiterLedger` |
| `SharedLemmas` | lemmas about sums, slots and roots, and about rows in order | used by the proofs about the pools, the indexer, the ledger and the wallet |
| `BongtuPoolProofs`, `IndexerProofs`, `LedgerProofs`, `SolanaProofs`, `PortalDirectoryProofs`, `SessionProverProofs`, `ClientProofs` | theorems about `BongtuPool` with `ConsumerModules`, `Imt` and `Indexer`, `ArbiterLedger`, `SolanaPool` and `SolanaIndexer`, `Portal` and `NameDirectory`, `Session` and `Prover`, `SelfScan` and `Wallet` | |

Two programs, `BongtuPool` and `SolanaPool`, are shown to implement the one
abstract ledger; `ConsumerModules` extends the pool and is shown to do so too.

### Correspondence

*BongtuPool.* A call that reverts is no step. A call that succeeds is one step
up to its token transfer; `call` is then pending and stands for the latch
`_locked`, which is what a re-entering call meets, and `CompleteTransfer` is
the token's return. A commitment and its nullifier are one name: both are
hashes of the same data, and a proof that reveals one is a proof about the
other. The inputs of an operation range over every witness a proof can be made
for: any claimed root, known or forged, and slots that show a commitment or a
nullifier as zero wherever the circuit lets them. Enterprise and consumer pools
are the same module with another initializer.

*ConsumerModules.* The proof is checked in the module, the effects in
`ApplyOp`, and the two happen in one step because the module calls the pool
once. A chunk's delivery is a step of its own, for anyone, at any time.

*Imt.* `pool` is the contract's `nextLeafIndex`, `filledSubtrees` and root,
`oracle` those of `ImtTree`, `leaves` its dense record. `threw` records that an
operation of the oracle has thrown; its callers then stop using it.

*Indexer.* Every block is one transaction, which may hold several operations.
`phase` is where the process is in a poll. Applying the logs runs in one turn
of the event loop, so the chain cannot grow in between and a crash there equals
a crash before it. A throw leaves in `mem` what earlier handlers changed.
`mem.dirty` is what the write-behind buffers hold, and `Flushed` the rows after
the transaction, each insert leaving existing rows alone. `RollBack` is a
transaction that fails; `CommitUnheard` one that commits while the process
hears an error; `Crash` drops the memory. What a chunk's calldata decodes to is
chosen from `Calldata`: the right bytes, nothing, or bytes that fail the hash.

*Portal.* A request to issue takes its seq and probes the registry, then awaits
the insert, then serves the record; each of the three is a step, so two
requests for one address race as they do in the code. A sweep that was sent is
in `mempool` until it lands or reverts there, whatever the bot does meanwhile.
A record names the sweep that flipped it in `by`.

*Wallet.* A note is the leaf it landed at and its value. `log` is the order in
which transactions landed, `height` what the indexer has replayed of it and
`view` what a page last loaded. `selectInputNotes`, `Fold` and
`planSpendChain` are the planner's arithmetic, with a merge of
`TRANSFER10_ARITY` notes; `workingSets` is what the wallet will hold after each
merge, and a plan is the shortest row of merges that makes the amount payable. A leg's head and its paths are two reads, and a path
is good under one root only. A transaction says which leg of which run it is. A sent
transaction is `Pending` until it lands or, when its guards no longer hold, reverts, whatever its run does meanwhile.
`Rejects`, `WaitFails` and `RelayerUnheard` are the
failures, the last two of calls that took effect. What a run is told beyond
done and failed is left out.

*Session.* `signer` says whether a wallet answers an open popup with the account
it was asked for or with the one selected by then; wallets do either. `held` has
the age of the key, `Tick` ages it, and `IdleWipe` is the timer, which fires at
or after the deadline. `op` is the action that holds the gate, at the point it
awaits. `under` and `known` record, for the properties only, the account that
was selected when a key was stored and what an account derived.

*Prover.* The boot thread and the requests are users of one engine code.
`worker[c]` has the bytes in the three pipes; what the parent read ahead of a
message is in `out` still. A computation logs up to `MaxLogs` lines into a pipe
that takes `PipeLines`. `Die`, `Stall`, `Resume` and `GpuThrows` are the faults.
A deadline passes only for a worker that stalls or is blocked on a full pipe.
Left out: how many threads the server has; a stall of an idle worker; a worker
that lies about its sizes; a `.so` that is rebuilt while the service runs, whose
next worker passes `check_witness_size` by, since only the boot asks it.

*SolanaPool.* An instruction that fails changes nothing. `funded` are the
addresses that somebody sent lamports to, on which `create_pda` takes its other
path. An account that must not exist yet is a guard on its address.

*SolanaIndexer.* A transaction holds one operation and its signature is its
place in the ledger; every root is the row of leaves beneath it, so comparing
roots is comparing rows. `todo` are the transactions fetched for a pass. The
transactions of a pass are applied in one turn of the event loop; a step per
transaction shows what a throw in the middle leaves behind. `RollBack`,
`CommitUnheard`, `HeadLags`, `Crash` and `AnswerLost` are what goes wrong.

*ArbiterLedger.* The chain grows between polls only, because a poll looks at it
once. `mem` is the read model with its buffers (`mem.dirty`), `db` the rows.
`deriveOp` is what an operation's envelope gives, `deriveHistory` the activity,
`transferItems` the split of a transfer's outputs into payments and change. A
deposit is to one owner and a change goes to the sender, as every client builds
them. `"bundled"` in a mix lets a contract call the pool several times in one
transaction; `"spoilt"` lets a sender wrap its ciphertext for no one; `"paged"`
lets a client page through an activity. The API opens when the first replay has
committed (`index.ts:117`). An entry whose disclosure is incomplete in the feed
cannot come from this chain: the contract enforces the length in the same
transaction.

*SelfScan.* A note is named by its event. A `"single"` append needs its path
read, a `"batch"` its ciphertexts (`delivered`), and the path of a `"gated"`
leaf, one of an enterprise batch, is refused to the public. `passes` has the
automatic refresh and one that an action asked for, each at the point it awaits;
`prev` is what it resumed from. `dropped` is a history of single appends whose
path could not be read, which the code documents as a loss until the next scan
from the start (`run.ts:131`). `finish` writes back for the pass's owner,
whoever is signed in by then, as the code does.

*NameDirectory.* A registration is checked and, in the same turn of the event
loop, sends its insert (`register`); the row changes (`insertRow`), then the answer
comes and the record is served (`serve`), or one of the two is lost
(`insertFails`). A crash leaves inserts in flight, which may be applied until the
next boot. What the route refuses before it calls the registry is no step: a
request holds a signature of its owner. `claimed`, `stored` and a request's
`late` are histories for the properties.

## 3. What the runs check

| run | instance | properties |
|---|---|---|
| `mc_pool` | either profile; three notes worth 1, 1, 2, 6 leaves, batches of 2, one forged root; a module of every kind, registered and removed at will | `Solvency`, `NoPhantomSpend`, `RootsTellTheTree`, `BatchesNameTheirLeaves`, `ImplementsLedger` |
| `mc_imt` | 16 leaves, batches of 4, two leaf values | `RootsAgree`, `PathsFoldToTheRoot` |
| `mc_indexer` | five transactions of one of two mixes, one failure anywhere | `RestartRebuildsTheTree`, `RowsTellTheChain`, `CatchesUp` |
| `mc_portal` | either factory, two addresses, two names, racing announcements, one failure, one loss of the store | `FirstWriteWins`, `NotesGoToTheAnnounced`, `RowsTellTheFirstSweep`, `SweptAreRecovered`, `FirstPaymentIsSwept` |
| `mc_wallet` | two pages of one account, two runs, merges of three notes, any number of failures | `PlansAreSound`, `OnlyRivalsCollide`, `BalanceMovesAsAsked`, `RunsEnd` |
| `mc_session` | two accounts, a key that expires after two ticks, three requests | `ServedTheSessionsKeys`, `HoldsEndWithTheSwitch`, `UnattendedLocks` |
| `mc_prover` | two circuits, two requests, a pipe of one line, two faults | `ProofsAreTheirOwn`, `BlameIsFair`, `EveryRequestAnswered` |
| `mc_solana` | notes worth 0, 1, 2, 4 leaves, batches of 2, both profiles, an amount limit of 2 | `AnchorsNameTheirBatch`, `NoNoteIsFrozen`, `ImplementsLedger` |
| `mc_solana_indexer` | three operations, two failures, one missing answer, two changes of a file | `RowsTellTheLedger`, `VerdictsAreToldOnce`, `CatchesUp` |
| `mc_ledger` | three operations of two owners, batches of 2, four mixes, one failure or crash | `LedgerTellsTheChain`, `BalancesAgree`, `NoSilentGap`, `PagesTellTheActivity` |
| `mc_scan` | three settings: one owner and two events, one owner and every kind of event, two owners on one page | `AnyScanIsOneScan`, `MoneyComesUp` |
| `mc_names` | one name, two owners, two addresses and pairs, three registrations, one crash | `RecordsAreSigned`, `ServedWasStored`, `LatecomersAreRefused` |

What the properties say is written above each of them. The central one is
`ImplementsLedger`: with the coins read as the unspent leaves, the spent coins
as the used nullifiers and the vault as the escrow with the transfer in flight
settled, every step of the pool is a mint, a change or a redemption of coins
that exist, or nothing; the Solana program is held to the same. Double spends,
spends of padding, of forged trees or of one note under two roots, and value made
in a padded slot all break it. `TypeOK`, `AppendOnly` and `OpsSeeSettledEscrow` of
`BongtuPool` are proved (section 4) and left out of the run.

Each property of a passing run has a mutant in `PROJECT.json`: a definition of
the model changed as a plausible bug would change the code (nullifiers checked
together before they are marked, a belt missing from the circuit, a root that
is not marked, a watch-set of registered modules only, buffers dropped on a
rollback, no unique index on the address, a worker left alone after its
deadline, a merged note sent to the payee), under which the same run finds the
property violated.

### Bounds

- *Notes and values.* Two notes of equal value and one of twice that are the
  least with which a note can be split, merged and paid twice over. `Supply`
  is the accounts' tokens, enough to deposit each note and one unit more.
- *Leaves.* Six leaves with batches of two hold an odd single leaf before a
  batch, a batch, and a full tree; sixteen with batches of four have every fill
  of a block in every block, and every refusal at the end.
- *`ForgedRoots`.* One tree the pool never had; `MaxEpochs` one epoch, which is
  all that a model in which proofs bind no key can tell apart.
- *`MCBound`.* A state constraint of `mc_pool`: the enterprise pool has no
  modules; the consumer pool has four leaves, at most two modules at a time, which
  is a swap of one for another in every order, is upgraded before its first leaf,
  and has no arbiter. Both families on one pool are not checked together.
- *`SYMMETRY`.* Two notes of equal value are exchanged in `mc_pool` and two
  owners in `mc_ledger`, and owners, addresses and pairs in `mc_names`; none of
  these checks liveness.
- *`MaxBlocks`, `MaxFaults`, `Traffics`.* Five blocks are a registration, an
  operation, a batch, an accept and a removal; one failure, at any place, is what
  a retry recovers from, and its retry starts from everything the failure left
  behind. A chain carries one mix of `Traffics`: batches with their accepts, or
  bundles of several operations in a transaction; a module comes and goes in both.
  A bundle and a removal in one range, with a failure, are the exception that
  `CatchesUp` states (`Unwatched`, section 5), so the run has it.
- *`MaxAsked`, `MaxPaid`, `MaxWipes`, `Factories`.* Two issuances make a race, two
  payments a payment during a sweep, one wipe a recovery with issuance going
  on, under the factory that announces its sweeps and the one that does not.
- *`Device`, `Purses`, `Asks`, `MaxRuns`, `MaxPolls`.* Two pages with a run each
  are a race for notes; a purse of four notes of 1 makes chains of two legs with
  merges of three, a purse of 2 and 1 a change. Between them the pages ask for
  every kind of run. One poll is a wait that succeeds or gives up. Failures need
  no bound: each ends its run.
- *`Idle`, `MaxAsks`.* Two ticks tell a re-armed deadline from one that is not;
  three requests are a log in, an action, and one more to collide with.
- *`Request`, `BootOrder`, `MaxLogs`, `PipeLines`, `MaxFaults`.* A request in the
  engine and one that waits for the lock, on one engine or two; a pipe of one
  line is full after one; two faults are a stall and a death of the worker that
  replaced the stalled one.
- *`Payloads`, `MaxAmount`, `Fundable`.* Both profiles; an amount limit that the
  largest deposit meets and a sum of notes passes; one funded address of each
  kind that an operation creates.
- *`MaxTxs`, `MaxLost`, `MaxSwaps`.* Two single operations and a batch in any
  order; with two faults a pass fails and its retry fails; a file that appears,
  and is replaced, around them. With two missing answers for one transaction
  `RowsTellTheLedger` fails (section 5), so there is one.
- *`Mixes`, `Published`, `MaxOps`, `MaxPages`.* A chain carries one mix: movements
  with several in a transaction; batches with all that may be published of
  them; consumer operations and envelopes nobody can open; or deposits and
  withdrawals with a client that pages, an item a page. Three operations are a
  note made, moved and spent; six pages are all items of one owner and the end.
- *`Settings`.* The bounds of `mc_scan`, one record a behaviour. Passes of one
  page over two events stop in the middle of the feed, with a failed read and an
  overlapping pass; one event of every kind, with one spent note; two owners
  with three moves, which is a sign-out, a sign-in and one more while a pass of
  the first is under way. Ticks and reads have no bound. What an action starts is
  bounded by `MaxMoves`: two overlapping passes that resumed from different
  states may otherwise undo each other for ever.
- *`MaxRequests`, `MaxCrashes`.* Two registrations race and the third comes late,
  or two updates race over a record; a crash may fall between any two steps.
- *Deadlock* is not checked: a full tree, an idle indexer, an address nobody
  pays, a page whose user has gone and a prover with nothing to prove are ends
  the system may come to. Where waiting on each other is the hazard, liveness
  covers it (`EveryRequestAnswered`, `RunsEnd`).

### Fairness

Only the liveness properties use it. `Indexer`: the supervisor restarts a
process that exits, the poll timer is armed for the life of the process and a
coalesced poll is followed by another (`host.ts`, `startTailPolling`), and a
poll that meets no failure runs to its end; so boot, poll, the handlers, the
commit and its aftermath are weakly fair. Failures are bounded, and nothing is
assumed of blocks. `Portal`: the same for the indexer; the bot's loop starts a
round after each (`apps/sweeper/src/index.ts`, `tick`), each step of a round
ends, and a sweep that was sent lands or reverts. Nothing is assumed of
issuances, payments or inserts. `Wallet`: a pending transaction lands or
reverts, and a run's next step is taken or fails; the indexer may lag for ever,
which is why the wait for a merged note has a cap. `Session`: time passes and the
timer fires; the user, the wallet and the scans owe nothing. `Prover`: threads
and workers that can go on do, and a free lock is taken; a stalled worker need
not resume, which is what the deadlines are for. `SolanaIndexer`: the steps of a
pass, under the supervisor and the poll timer that `Indexer` has. `SelfScan`: the
tab stays visible, so the refresh timer ticks again and again, and each step of a
pass is answered or fails, failures being bounded; the feed, the user and the
passes an action asks for owe nothing.

## 4. What is proved

`BongtuPoolProofs` proves, for every set of notes, values, accounts, modules and
keys, every batch size and capacity, and every forged root:

| theorem | states |
|---|---|
| `PoolInvariant` | the inductive invariant `Inv` |
| `PoolTypeCorrect` | `TypeOK`; in particular no balance becomes negative |
| `PoolNoPhantomSpend` | a nullifier is used only by spending a note the tree holds |
| `PoolRootsTellTheTree` | every known root claims only leaves of the present tree, whose own root is known |
| `PoolAppendOnly` | no step rewrites a leaf, forgets a root, frees a nullifier or changes a past epoch |
| `PoolOpsSeeSettledEscrow` | a leaf is inserted only with no token transfer in flight |
| `PoolImplementsLedger` | `Spec` implements `ShieldedLedger` under the mapping of `ImplementsLedger` |
| `PoolSolvency` | the escrow covers the worth of all unspent notes |

The assumptions are those the modules name: `NoteAssumption` (zero is no note,
values are naturals), `PoolAssumption` (the pool is no account, the batch
size is at least two and divides the capacity, forged roots are sets of
positions and notes) and `LatchAssumption` (an open latch is no token call).

*The argument.* `TypeOK` is not inductive: `CompleteTransfer` subtracts what
`CallToken` compared with the balance a step earlier, so `Inv` carries
`Backed`, that the transfer in flight is covered by its sender. The tree's
properties need that an uninitialized pool is blank (`Fresh`) and that it is
uninitialized exactly at version 0 (`InitializedOnce`), since initialization
publishes the empty root. `Extends` is the action form of append-only. Each
action is shown once to keep `Inv` and to be an `Extends` step. The lemmas
beneath say that a prefix has a smaller root (`RootOfPrefix`), that a member of
a known root is committed (`MembersAreCommitted`), what appending and attaching
do to roots (`AppendLeavesGrows`, `AttachSubtreeGrows`), and that a proved,
enabled input is committed (`SpendIsOfCommitted`).

*The money.* The refinement maps the tree and the nullifiers to one set of unspent
coins, and the escrow to a vault that a withdrawal has left when the token is called
and a deposit reaches when the call is over (`SettledEscrow`). Each action has a lemma
that makes it one step of the ledger or a stutter (`DepositLedger` and so on,
together `NextIsLedger`); a spend under a known root uses up coins because known
roots tell the tree, and a nullifier that is free stands for a coin that is there
(`UsedIsUnspent`). `Solvency` speaks of states at rest only; `Covered` says it of the
settled escrow in every state, and that every step of the *ledger* keeps it
(`LedgerKeepsCovered`) is proved without looking at the pool again.

`SharedLemmas` has the sums this takes. What an operation makes and uses is a
sequence of slots, padded, perhaps with a note twice; what the ledger counts is a
set. The worth of the set made is at most the sum of the output slots
(`MadeWorth`), and that of the set used is the sum of the input slots
(`UsedWorth`), which holds because the circuit refuses one nullifier twice and gives
every padded slot the value zero. `ExchangeWorth` bounds what is unspent after an
exchange. Both sums are folds and no induction theorem of the library reaches them
here: `SumExists` and `WorthExists` argue from a least counterexample, by length and
by number of elements (`LeastNatural`, `SmallestSet`).

The second part of `BongtuPoolProofs` carries this over to `ModuleSpec`, the
specification the run checks, for any number of modules of any kind, registered and removed at any time:

| theorem | states |
|---|---|
| `ModulesInvariant` | the inductive invariant `ModuleInv` |
| `ModulesNoPhantomSpend` | no module makes the pool accept a nullifier of a note the tree does not hold |
| `ModulesRootsTellTheTree` | the roots tell the tree, whichever op grew it |
| `ModulesBatchesNameTheirLeaves` | a batch's record names its leaves, from its attachment on |
| `ModulesImplementLedger` | the pool with any modules implements `ShieldedLedger` |
| `ModulesSolvency` | the escrow covers the unspent notes, whatever modules do |

It adds `ModuleAssumption` (every module implements one consumer op, a chunk holds
at most a batch). `ApplyOpGrows` says what the pool makes of any effects whose
nullifiers are those of a proof: under the root 0 there are none, so a module that
claims no root spends nothing. That the stripped nullifiers are some of the proved
ones (`StripFacts`) is again shown by a least counterexample. A batch starts at a
multiple of B because the padding rounds up (`PaddingAligns`, from the division
theorem by hand), and its record stays true because the tree only goes on
(`BatchStays`); `Continues` therefore says that the tree never gets shorter as well.
For the ledger, the effects a module hands over must use up all that its proof spent:
stripping loses no nullifier that is not zero, and repeats none (`Keeps`, `StripFacts`),
so `ApplyOpExchanges` makes of `applyOp` the exchange the proof accounts for.

`SolanaProofs` proves of the Solana program, for every set of notes, values and
payers, any capacity and batch size:

| theorem | states |
|---|---|
| `SolanaInvariant` | the inductive invariant `SolanaInv` |
| `SolanaImplementsLedger` | `PoolSpec` implements the same `ShieldedLedger` |
| `SolanaAnchorsNameTheirBatch` | the address of a batch's account names the leaves it has, for batches of any size |
| `SolanaNoNoteIsFrozen` | an unspent note can be redeemed, whatever lamports were sent where |

The assumptions are `NoteAssumption` and `SolanaAssumption`. `SolanaInv` has the
types, what roots tell (`RootsTell`), that an anchor's leaves are in the tree
(`AnchorsInside`, which keeps its name true when the tree goes on), and `Covered`. That
no note is frozen needs all of it: the note is under the tree's root, which is
registered; no nullifier account is its own, and lamports alone do not keep
`create_pda` from making one; and the vault has its worth because it has that of all
unspent notes (`WorthMono`). `LedgerWorth`, `MintIsLedger` and `SpendIsLedger` are
stated once per program, since each maps its own state to the ledger's. The batch size
is that of the circuit, which `initialize` insists on; that it takes the deployed one,
256, is `DeployedBatchSize`: twice a power of two is one, since an odd divisor of `2n`
divides `n` (`PowerDoubles`).

Of the indexer of the rail it proves, for every batch size and any number of
operations, faults and changed files:

| theorem | states |
|---|---|
| `RailInvariant` | the inductive invariant `RailInv` |
| `RailRowsTellTheLedger` | while at most one answer was missing, the rows are the first operations of the ledger and rebuild its tree |
| `RailVerdictsAreToldOnce` | a failing verdict on the bytes that are served is listed once, however many answers were missing |

The assumption is `SolanaIndexerAssumption`. The hypothesis `lost <= 1` is the code's
limit and not the prover's: two missing answers lose an operation (section 5), and TLC
shows it with `MaxLost = 2`. `RailInv` has two parts.
- `Feeds` and `Registry` hold of every state: a row per operation, the durable rows at
  the beginning of the feed (which makes the write an append, `UpsertedIs`), and what
  the registry says of a batch in agreement with its row.
- `Tracks` is what one missing answer leaves true: both feeds are in the ledger's order,
  and the rest of a pass goes on from the feed, or from before that (`Straight`), or has
  one hole in it while the mirror is still the chain's (`Holed`). The cursor is safe
  because of the next fact: the operation behind a hole is refused, as a gap or by its
  root (`HoleIsNoticed`), so no pass with a hole is committed.

Beneath it are lemmas about the trees of a ledger. The model writes them as recursive
functions, and `TreeExists` and `TreesAgree` say that there is one tree and that it is
decided by the operations up to it. An operation that was applied changes nothing
(`OldIsPassedOver`), the next one makes the chain's tree (`NextIsTaken`), a rebuild from
rows in order is that tree (`RebuiltIs`), and what lands later moves none (`TreesStay`).
When a batch lands in the wrong place the mirror is wrong until a restart, which is why
the invariant speaks of the mirror (`InPlace`) only while nothing was lost or a hole is open.

`PortalDirectoryProofs` proves, for every set of addresses and names, both kinds of
factory and any number of issuances, payments, failures and losses of the store:

| theorem | states |
|---|---|
| `FirstWriteAlwaysWins` | until the store is lost, a shown address has one row, with the label it was shown for |
| `NotesAlwaysGoToTheAnnounced` | a sweep mints to the label its address was shown for |
| `RowsAlwaysTellTheFirstSweep` | a row is flipped by the first sweep up to the cursor, and by no other |
| `SweptAreAlwaysRecovered` | what the receive factory announced up to the cursor has its row |

The assumption is `PortalAssumption`. The inductive invariant `Inv` relates three
copies of what was issued: the rows, the records in memory, and what is under way to
either (`requests`, the two buffers, the bot's list, the mempool).
- `MemOK(m, p)` says that memory has applied the first `p` sweeps: each record names
  the first sweep of its address among them (`RecordsOK`), is a row or buffered
  (`StoredOK`), and every address that was shown or announced has a record
  (`ServedOK`). `p` is not the cursor: a transaction that fails leaves what was
  applied in memory, and the next poll applies it again (`Seen`). `ApplyLogKeeps`
  treats one log, seen before or new, and `ReplayKeeps` lifts it to a range: the fold
  exists, and a shortest prefix that breaks `MemOK` would end in a log that keeps it.
- `FlushFacts` says what the transaction leaves: the updates by seq meet the rows of the
  records they were staged for, a backfill that conflicts is its own row (it
  committed unheard), and so every row tells the sweeps up to the new cursor.
- `RequestsOK` is what keeps a label from being shown twice: a request for an address
  that was shown meanwhile finds its row.
- With the store gone the rows say nothing of what was shown, and notes still have to
  go where they were promised. Only the receive factory's store may be lost, and its
  page derives an address for one request (`ToldOK`): all that was ever told of an
  address, in whatever copy, is one label. Until a loss the rows say it (`AnnouncedOK`).

In the second part of the module, for every set of names, owners and keys and any number
of registrations and crashes:

| theorem | states |
|---|---|
| `DirectoryInvariant` | the inductive invariant `DirectoryInv` |
| `DirectoryRecordsAreSigned` | a record holds what its owner signed for that name |
| `DirectoryServedWasStored` | what is shown was stored, and a shown name keeps a row |
| `DirectoryLatecomersAreRefused` | only who asked before a name was shown may write it after |

The assumption is `DirectoryAssumption` (the null value is no record and no pair). None
of the three is inductive: a v1 write carries a pair from the served
map through a request into a row, so `DirectoryInv` says of requests that were let through
what `RecordsAreSigned` says of records (`RequestsAreOwn`; of a request that was
refused it is false); a record at hand belongs to somebody who asked early
(`RecordsAreEarly`), and a running process serves every name that was ever shown
(`ClaimedAreServed`), which a boot restores from the rows (`RowsAreStored`). Each
action keeps it; `StepKeeps` has what is common to the actions that add no
request.

`SessionProverProofs` proves, for every set of accounts, any idle time and any number of
actions, whichever way the wallet answers a popup:

| theorem | states |
|---|---|
| `SessionInvariant` | the inductive invariant `SessionInv` |
| `SessionServedItsKeys` | `ServedTheSessionsKeys`: an action is handed its own session's keys |
| `SessionHoldsEnd` | `HoldsEndWithTheSwitch`: a held key was made under the account that is shown |

The assumption is `SessionAssumption` (the null account is no account). That an
action was served the right stealth key is known from how it came by it: either it
saw that the hold it took was not replaced, and then the hold is its session's
(`SameHold`), or it derived anew and compared (`KeyInHand`, `StealthInHand`). The two
ways a wallet signs need two reasons. One that signs for the account it is asked for
needs the session to be of that address (`AskedIsSigner`); one that signs for
the selected account needs the key's account to be the one the watcher saw
last (`SeenLast`, `HeldOK`).

The same module proves, for every list of circuits, any number of requests and
faults, and pipes of any length:

| theorem | states |
|---|---|
| `ProverInvariant` | the inductive invariant `Inv` |
| `ProverProofsAreTheirOwn` | `ProofsAreTheirOwn`, and with it `OneAtATime` |
| `ProverBlameIsFair` | `BlameIsFair`: a refused input is a bad one, a broken prover was broken in that request's turn |

The assumption is `ProverAssumption` (the list is not empty, the boot thread is no
request). A proof is of the right witness because of what is in the pipes when it is
read. `TurnOK` gives one thread at a time (`OneInside`): the boot thread before
any request, requests under the lock. So the pipes of a worker hold what the one
who talks to it expects and nothing else, its introduction or one job on its way
down, in hand, or answered, and those of every other worker are empty (`PipesOK`); a
deadline keeps this because it kills the worker. A witness is as long as the zkey
wants because a compiled engine passed the check and its file stays what it was
(`FitOK`). `WorkerKeeps` has what is common to the worker's steps, `GoKeeps` and
`LeaveKeeps` what is common to those of a thread.

Whom a failure is blamed on needs a second invariant above `Inv`, `Blame`, which
follows what was printed and what was broken through the life of a worker. A
thread at an engine may find an assertion only if its own input broke a
constraint, and a dead or stalled worker without one only if a fault fell in its
turn (`Judged`); an engine nobody is at has nothing to tell (`Calm`), since every
way out of a turn answers, or kills and respawns (`CasesOK`). The
boot goes down the list, so a request past the check on `ready` finds every engine
compiled, and with a file that fits (`BootOK`): no request is the first to meet a
broken build. `FaultExcuses` is the one place where a fault is charged to the turn it falls in.

`IndexerProofs` proves, for every height of the tree, every level batches are attached
at and any batches, in any order of appends and attachments:

| theorem | states |
|---|---|
| `ImtInvariant` | the inductive invariant `ImtInv` |
| `ImtRootsAgree` | `RootsAgree`: contract, oracle and the tree recomputed from all leaves have one root |
| `ImtPathsFoldToTheRoot` | `PathsFoldToTheRoot`: every leaf's path folds to that root |

The assumption is `ImtAssumption` (the zero leaf is no commitment, the attachment
level is one of the tree's, batches are full of cells). Where a place lies in the tree
is said by `Start(n, i)`, the start of the block of level i that holds n, and
`Cells`, the leaves from a start on. The
invariant is what a frontier promises (`FrontierOK`): at every level where the
next place has a bit, the entry is the full block to the left of the one that place
is in. It says nothing of the levels without a bit, which is why the contract may leave stale
entries below a block it closes in one node while the oracle, padding leaf by leaf,
has others: the two agree where it counts. `OneLevelUp` is the step
of every fold: a block is its left half, which the frontier has, or its right half, which
is empty, and the other half. `Inserts` gives `_insertNode` from it at any level,
`ClosedBlockIsBlock` and `PoolCloses` the contract's way to close a block, `PadsTheRecord`
the oracle's. The folds are recursive functions; what they compute is shown by giving
the function they must be and a least place where another could differ (`StepByStep`,
`LeastNatural`). The prover knows no powers: `TwoPower` has them from the subsets of a set. The binary digits (`Digit`, `LowBits`, `Advance`, `Cut`) rest on it.

Of the replay loop the same module proves, for any number of modules, chunks, blocks and
failures, and any mixes of transactions:

| theorem | states |
|---|---|
| `IndexerInvariant` | the inductive invariant `IndexerInv` |
| `IndexerRebuildsTheTree` | `RestartRebuildsTheTree`: the leaf rows are the chain's leaves at the cursor |
| `IndexerRowsTellTheChain` | `RowsTellTheChain`: so are feed, registry and accepts; what is served is a prefix of the chain's feed |

The assumption is `IndexerAssumption`. All three suppose `AllSpeak`, that a registered
module emits an event for what it does to the tree, and the last one `Honest`, that a
node does not return bytes that fail the hash check, which the module made before the log
was there. Without the one a restart is refused, without the other an accept is missed
(section 5): the code relies on both.

`IndexerInv` relates four things (`State`). The chain is well formed (`ChainOK`): each tree
event inserts the next leaf and is followed by the event that claims it, the registry
alternates, a chunk is accepted once. The rows are those of its first `q` logs, which are
the ones up to the cursor (`RowsAre`, `Upto`). Memory is the read model of the first `p`
(`MemIs`), goes no less far than the rows, has every row in them or in a buffer
(`Covers`), and its gates have seen exactly what it applied of the logs after its own cursor
(`SeenIs`). And what a poll has left to apply is all that memory lacks of the
range (`Polled`). The three places `p`, `q` and that of the cursor in memory differ: a
poll that fails leaves what it applied, a commit that is not heard leaves the rows ahead
of the cursor in memory, and the range is then fetched again from there.
- The tree events are applied before the others, so the mirror and the rows of batches may be
  ahead of the feed: `MirrorGo` treats them, `StayGo` the logs that were applied before,
  `FamilyGo`, `RegistryGo` and `AcceptGo` the new ones: between the `p` logs and the one whose
  turn it is there are tree events only (`TurnIs`), which memory has (`Slides`).
- A new event is fetched because whoever emitted it is watched: a module that is
  registered, or removed with chunks outstanding, or registered in the range (`DeliveredIs`,
  `PollIs`).
- A handler may throw and leave part of a range applied (`ThrowKeeps`): what is left
  is fetched again, and the gates skip the rest.
- `FlushIs` adds to the rows what they lack: of the feed those of the buffer that the rows
  do not have, since a commit that was not heard may have put some there.

`LedgerProofs` proves of the arbiter's ledger, for every mix of operations, batch size and
number of owners, operations, failures and restarts:

| theorem | states |
|---|---|
| `LedgerInvariant` | the inductive invariant `LedgerInv` |
| `LedgerAlwaysTellsTheChain` | `LedgerTellsTheChain`: the rows are one replay up to the cursor, memory one replay of what was seen |
| `LedgerHasNoSilentGap` | `NoSilentGap`: every operation that was seen has its notes in the ledger or an alarm |

The assumption is `LedgerAssumption`. `Views(L)` are what one replay of the chain `L` shows after
each operation: the read model without its buffers and its cursor, the alarms as a set,
since a restart reads their rows in another order. `LedgerInv` says that the rows are
`Views(chain)[k]`, with the cursor behind operation `k` and none later (`DbIs`); that memory
is `Views(chain)[n]`, where the last committed poll ended no later than `n`; and that
what memory has and the rows lack is in the buffers (`Covers`). `n` may be ahead of the
last committed poll because a poll that failed leaves what it applied; `k` may be too,
when a commit's answer was lost.
- `ApplyLogsKeeps` treats one operation, seen before or the next, and `ReplayedIs` lifts it
  to a range, which may begin anywhere before `n`.
- A restart reads the same view (`BootKeeps`): the activity comes back in order because its
  numbers go from nought without a hole (`BySeqIs`), and the opened batches are those
  whose leaves all have a note, which is what was opened, because leaves of two
  operations differ (`LeavesApart`, `OpensItself`).
- `PastThePoll` is where the block range could lose an operation: another operation of the
  head's transaction, mined with it, is only safe because no poll saw the transaction in part.

That no gap is silent is then a fact of each view (`Heard`, `TakenKeeps`): whatever
`deriveOp` does not take it raises an alarm for, and what the ledger is not handed is a
consumer's or is listed by its verdict.

`ClientProofs` proves of the scans, for any owners, feeds, page sizes and bounds:

| theorem | states |
|---|---|
| `SelfScanInvariant` | the inductive invariant `Inv` |
| `SelfScanIsOneScan` | `AnyScanIsOneScan`: whatever passes made it, a state is that of one scan |

The assumption is `SelfScanAssumption` (no owner is `None`, a page holds something).
A pass ends with the state it started from, whoever wrote one meanwhile, so the
invariant speaks of each pass under way (`PassOK`): it started from one scan of its
owner's, read on from there, and what it re-read was pending. That
what is pending was not dropped is part of `OneScan` and not of the property: without it
a batch that is re-read and found could be a note and dropped at once. Coverage needs
that a pass is `exhausted` only once it has read to the head it was told.

Of the wallet the same module proves, for any purse, arity, tokens, number of pages and runs,
and whatever the users ask:

| theorem | states |
|---|---|
| `WalletInvariant` | the inductive invariant `WalletInv` |
| `WalletPlansAreSound` | `PlansAreSound`: a plan can be paid as it stands, and one that failed half way again, with fewer legs |
| `WalletOnlyRivalsCollide` | `OnlyRivalsCollide`: only another run makes the chain refuse a transaction |
| `WalletBalanceMovesAsAsked` | `BalanceMovesAsAsked`: the account's notes and tokens move by what runs were asked, once each |

The assumption is `WalletAssumption`. A plan is the planner's, of notes that were
there before anything of its own run landed (`PlanMade`); a note that was merged is the
first output of the run's transaction for that leg (`MergedOK`); a run has sent nothing
beyond the leg it is at (`IsAt`); and a transaction is a leg of its run's plan, its planned
notes resolved through what was merged, and the only one of that leg (`TxsOK`). The
transactions of a run land in the order of its legs (`LandsInOrder`), and what a deposit
read of tokens and allowance holds as long as no other run moves them (`TokensOK`).
- `PlansAreOK` is about the arithmetic alone. A working set has one fold fewer than the one before, so a chain of merges
  comes to an end where the rest is payable, and a planned note is spent by one leg only.
- Two legs of one run spend different leaves since their planned notes differ and
  a merge's leaf is new, so a leaf that was spent already was spent by another
  run; the root is never the reason, since head and paths were read at one height.
- The balance is a sum over the chain, one landed transaction at a time
  (`NotesAt` of one height more is what its inputs leave and its outputs add):
  a merge adds what it takes, a last leg takes its amount and a deposit adds it. That a run
  is paid once is `TxsOK`: one transaction for its last leg.
- A retry plans over the chain's leaves, not over the planned notes, and over the second
  outputs of the merges too, which are worth nothing; the two sets are alike only in
  what their k largest notes are worth, for every k (`Top`). Nothing else decides what is payable
  (`PayableIs`). No k notes are worth more than the k largest (`TopIsMost`), so a
  fold of the K largest leaves with k notes what k + K - 1 were worth before (`FoldKeepsTop`); each
  landed merge is such a fold (`AloneFolds`, `AloneTop`), so the least number of merges
  is what it was less those that landed (`RetryPlans`).

*Only model-checked.* Of `ArbiterLedger`, `BalancesAgree`, a sum over the whole activity,
and `PagesTellTheActivity`; and all liveness, `FirstPaymentIsSwept` of `Portal` among it: fairness and ENABLED are outside the prover.

## 5. Where code and text disagree

The following were met while modelling. Each can be seen in the model by the
property or the change that is named. But for two, which the `CatchesUp` of the two
indexers state as their exceptions (`Unwatched`, `Misplaced`) and the runs reach,
none is part of a run, so that the passing runs hold of the code as long as these
cases do not arise.

*The portal.* What reaches an address after its sweep was ingested is never
swept, although the bot's header (`apps/sweeper/src/sweep.ts:23`) says it is next
round: `Portal` states it as `RemainderIsReswept`, and TLC refutes it under
`FairSpec`.

*The name directory.*
- Two owners register a free name, both pass the check, and the row of the first
  becomes the second's (`names.ts:97`), where `names.ts:12` says that a name is
  never transferable: `NeverTransferred`, refuted with two requests.
- A v1 write that read the record before a v2 write landed puts the old consumer
  pair back (`names.ts:103`), where `names.ts:19` says that it leaves the pair
  untouched: `TripleSurvivesV1`, refuted with two requests.
- Two updates answered in another order than they were written leave the served
  record behind the row until a restart (`names.ts:123`).

*The indexer.*
- A leaf that no family event claims has no row (`tree.ts:190`), and every boot
  after it throws, although the code treats the case as a warning: put
  `"silent"` into a mix of `Traffics`.
- A chunk whose fetched calldata fails the hash check once is skipped by the
  retry meant to repair it (`kemchunks.ts:154` marks it seen first): put
  `"corrupt"` into `Calldata`.
- A module operation is bundled with one of the pool, and the module is removed
  later in the same range. If a pass over the range fails after its logs were
  applied, the retry does not watch the module (`modules.ts:104`), the pool's
  event takes the wrong leaf and throws, on every retry until a restart, where
  `persist.ts:23` says that the next poll retries the same range verbatim. `CatchesUp`
  has it as its one exception: without the disjunct `<>[]Unwatched`, TLC shows it
  with a registration, a bundle, a removal and one failure, under `FairSpec`.

*The Solana rail.*
- A transaction that a node answers with null is passed over like a failed one
  (`rpc.ts:121`). If that happens to one operation twice, before a batch in the
  same block of the tree, the first retry attaches the batch, throws on its root
  (`tree.ts:133`) and leaves it in the mirror, the second takes it for applied,
  and the cursor passes the lost operation for good: set `MaxLost = 2`. With one
  missing answer the mirror may hold a batch in the wrong place until a restart,
  which `CatchesUp` allows (`Misplaced`).
- A file that is a JSON array of strings that are no numbers makes `BigInt`
  throw (`served.ts:245`), at the ingest of its batch and at every boot, where a
  comment says that malformed files are treated as unserved.
- `/alarms` keeps a batch's stored mismatch after the file was corrected.

*The wallet.*
- The receipt is awaited and its status never read, in the wallet
  (`connection/writes.ts:183`), the relayer (`relay.ts:208`) and the sweeper
  (`sweep.ts:293`): a transaction that reverts after its simulation is reported
  as the payment. In `Wallet`, a run may be `"done"` with a reverted `tx`.
- After a wait for a receipt failed, the user is told that nothing was sent or
  that the balance is unchanged (`driver.ts:97`, `relayer.ts:58`,
  `payRun.ts:49`), although the transaction may still land (`WaitFails`).

*The session.*
- `unlock` stores what a popup derived without asking whether `lock` was called
  while it was open (`keyCache.ts:229`), so a sign-out in that time is followed
  by a held key until it idles out, where `App.tsx:213` says that signing out
  drops the spending key. In `Session`, `held /= NoKey` with
  `session = Nobody` is reachable.
- `unlockStealth` re-arms a hold that passed its deadline while its popup was
  open (`keyCache.ts:276`).

*The self-scan.*
- A pass under way when the user disconnects ends after `forgetOwner` and saves
  the row again (`scan/session.ts:114`), where `scan/session.ts:145` says that a
  clean device keeps no decrypted amounts: in `SelfScan`, follow
  `endSession(TRUE)` with `finish`.
- A pass that outlives a sign-out stamps the session with the owner who left
  (`scan/session.ts:113`); the next owner's Disconnect, before a pass of its own
  has ended, then clears the first owner's row and keeps its own, which is what
  `scan/session.ts:136` says that dropping the stamp prevents.
- A consumer batch's published run is served as soon as its length is right,
  whatever the verdict of its check (`apps/indexer/src/projection.ts:176`), where
  `selfscan/engine.ts:210` says that only a run that folds to the batch's root is
  served; a scan may then hold a note that is no leaf. The feed of the model has
  honest batches only.

*The arbiter ledger.*
- The detail of an alarm about a KEM ciphertext carries no position
  (`ledger.ts:220`), so two such operations of one transaction share a row, where
  `schema.sql:85` says that the detail pins the position. One of two alarms is
  gone after a restart; `NoSilentGap`, which asks for an alarm of the
  transaction, holds.
- A note that a consumer operation spent is served as unspent
  (`postgres.ts:252`), where `ledger.ts:15` calls spent status from envelopes
  strictly more complete than matching nullifiers; `BalancesAgree` is therefore
  stated of chains without such operations.
- Announcements are attributed by transaction (`postgres.ts:303`), so two owners
  who withdraw in one transaction are served each other's, where
  `api/routes/announcements.ts:7` says only the caller's own.

*The rest.* `rotateArbiter` opens an arbiter epoch on a consumer-only pool,
where `docs/contracts.md` says none is ever minted; the oracle's frontier below
`LOG_B` is not the contract's after a partial block was closed, where a comment
of `_padToBlockBoundary` says it is exactly that (no root depends on it:
`RootsAgree`); a batch that does not fit leaves the oracle padded, where a
comment of `attachSubtree` says a rejected attach leaves it untouched;
`PortalRegistry.issue` can list two records out of seq order.

## 6. What is not modelled, and the plan

Inside the modelled parts: encryption, disclosure and ciphertext lengths;
`_authorizeUpgrade`, which has no body; proofs that bind the arbiter's key, so a
rotation between a proof and its submission is only a refusal; reorganisations,
which the indexer does not handle; view tags and announcements of withdrawals;
the short last chunk of a batch's ciphertexts; what the screen does with a scan
that found nothing new (`refresh.ts:66`); the announcements served to an owner;
the announcement of an address that was swept before the store was lost (its
row is never flipped, which takes a page that reuses a one-time key); the bot's
cap of 5000 records; gas, chain switching and the texts a user is shown; a
prover request's credentials and schema; Solana transactions of several
operations or of none, and the decoding of instructions;
the window in which a name registration's signature is good.

Not modelled at all, and why:

- *View tokens, HTTP reads*: reads are projections of modelled state; a token is a
  signed value without server state, and the challenge before it lives for one
  round trip in one turn of the event loop each.
- *Web applications*: the parts of them whose order of awaits matters (the pay
  run, the login, the refreshes) are in `Wallet`, `Session` and `SelfScan`; what
  is left is presentation: forms, the payroll console's tables, drafts in storage.
- *Name resolver*, *crypto and wire formats*, *key clients*, *circuit templates and
  generated verifiers*, *deployment scripts*: no state of their own, generated, or
  one-shot.

Theorems worth proving next: `BalancesAgree` and `PagesTellTheActivity` of
`ArbiterLedger`. Liveness stays with TLC.
