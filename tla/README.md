# mitos-pkg in TLA+

A model of `mitos-pkg`, the MITOS package manager (`src/`), with properties
checked by TLC on small instances and theorems proved by TLAPS for all of them.
`PROJECT.json` maps every definition to the lines of the source it stands for.

    tlc -workers 2 -config TxAtomic.cfg MCTransaction
    tlapm TransactionProofs.tla

## The system

| Component | State | Operations | Correct when |
|---|---|---|---|
| `install::transaction`, `rollback`, `extractor`, `hooks` | install root, `.mitos-pkg-staging/<p>`, `.mitos-pkg-backup/<p>` | `Transaction::install`, `::remove` | one package's change is whole or absent, on disk and in both databases; nobody else's files are touched |
| `database::packages`, `::files` | package → record, file → owner; a copy in memory, a JSON file on disk | `load`, `save`, `claim`, `release`, `insert`, `remove` | each is the inverse of the other |
| `database::history` | `history.jsonl` | `append`, `read_recent` | says what was done, once it is done |
| `service::lock` | `.mitos-pkg.lock` | `acquire`, `Drop` | one mutating operation at a time |
| `service::lifecycle` | databases, index and keys of one `PackageService` | `install`, `install_local`, `upgrade`, `hold`, `unhold`, `remove`, `autoremove`, `update`, `clean`, `verify` | a plan is all or nothing; what stays installed keeps what it needs; holds, marks and the essential guard are respected |
| `dependency::resolver` | the visit's `resolved`, `visiting`, graph, `extra_reqs` | `resolve_install_req`, `dependents_of` | finds a plan where its search promises one, complete and in order; ends |
| `dependency::graph` | edges | `add_node`, `add_edge`, `install_order` | topological, complete, refuses only cycles |
| `repository::{index,download,metadata}` | `index.json` and the copy in memory, `downloads/` | `load`, `save`, `best_match…`, `latest…`, `find_provider…`, `fetch_with_retry`, `download_verified` | what is used is what a repository published, whole and signed where it must be |
| `package::*`, `security::*` | none | archive format, manifests, signatures, hashes | pure functions |
| `daemon::*` | one `RwLock<PackageService>`, a socket, a thread per connection | `run`, `handle_connection`, `dispatch`, `bind_socket`, `watch_for_shutdown` | each request gets one answer, and the caller it; one daemon per socket; no thread or lock outlives its client |
| `cli`, `main`, `config`, `error` | none | parse, call, print | — |

A command line run opens a `PackageService` (which reads both databases, without
a lock), calls one operation and exits; `mitos-pkgd` opens one and keeps it. A
mutating operation takes the lock file, resolves against the in-memory copies,
and runs one `Transaction` per package. A transaction calls hooks (external
programs), renames files and writes both databases as a whole.

The hard parts, listed line by line as `hazards` in `PROJECT.json`: a step of a
transaction that fails or dies half way; two processes with copies of the same
databases; plans, checks and flags computed before the steps that make them
stale; a resolver that restarts itself with what it has learned; connections
whose two ends die, stall, or speak different versions while an operation runs
under the one lock; an index file and an archive cache that processes share
without a lock, over mirrors that lag, fail and are republished.

## Modules

| Module | Models | One action per |
|---|---|---|
| `Transaction` | `install/transaction.rs`, `rollback.rs`, both databases | rename of a file, hook, save, early return, crash |
| `AtomicInstall` | what `Transaction` promises: the abstract specification it refines | whole install or removal |
| `TransactionProofs` | proofs about `Transaction` | |
| `DependencyGraph`, `DependencyGraphProofs` | `dependency/graph.rs` | added node or edge, round of Kahn's loop |
| `ServiceLock`, `ServiceLockProofs` | `service/lock.rs`, `PackageService::open`, the saves | file read, lock taken, database written, process killed |
| `Removal`, `RemovalProofs` | `remove`, `plan_cascade`, `autoremove`, `dependents_of` | recursive call, loop round, package removed |
| `Resolver`, `ResolverProofs` | `dependency/resolver.rs` | round of `visit`'s loop, restart |
| `Lifecycle`, `LifecycleProofs` | `install`, `install_local`, `upgrade`, `hold`, `unhold`, history | package installed, removed or looked at |
| `Repository`, `RepositoryProofs` | `update`, `fetch_repo_index`, `fetch_and_verify`, `install_one`, `upgrade_one` and `clean`, with `download.rs`, `index.rs`, `package/signature.rs` | attempt at a URL, file truncated, file filled, check, removal, extraction, process killed |
| `Daemon`, `DaemonProofs` | `daemon/server.rs`, `client.rs`, `protocol.rs`, `bin/mitos-pkgd.rs` | system call on the socket path, message sent, read or written, lock taken, operation returned, panic, signal, kill |
| `MC…` | constants for TLC | |

How they compose. `Removal` and `Lifecycle` take one package's transaction as
one step; `AtomicInstall` is the licence for that, and `tx_atomic` checks, and
`ImplementsAtomicInstall` proves, that `Transaction` implements it (`AtomicSpec`,
a refinement whose mapping shows the state before the running transaction until
it has returned). `Lifecycle` takes
for the plan of a resolution *any* sequence with the property `DependenciesInPlace`
that `PlansAreComplete` proves of `Resolver`, for every repository: each dependency
is *answered* (`Answers`, in both modules) by a package before it, in its range or
with the capability in some published version. That is less than *met*: a plan may
leave a dropped capability unmet, or take a pre-release that a dependent does not
match, and `Lifecycle` installs such plans too. `Resolver` takes from the sort what
`DependencyGraph` is proved to give. `ServiceLock` abstracts a package's record
to absent, present or held, since what it asks is who overwrites whom.
`Repository` follows one package from its index entry to the install root and
takes `Transaction::install` as one step that may fail; `Daemon` takes a whole
operation as something that streams events and succeeds, fails or panics. A
daemon is one `Proc` of `Repository` and of `ServiceLock`; the `RwLock` of
`Daemon` orders what its own clients do, the lock file orders it against others.

Correspondence worth knowing:

- A file's bytes are the name of the package that shipped them, or `Foreign`.
  A payload is a set of paths; the order of the file list is left open.
- A requirement is a `semver::VersionReq`, which is external: the versions in the
  range of its comparators (`fits`), those of them it matches (`ok`) and the number
  of comparators (`n`). The two differ in pre-releases, which are matched only if
  some comparator carries a tag on the same major.minor.patch; `STAR` matches none.
  `intersect_req` concatenates comparators, so the ranges intersect, but a tag of
  either side lets a pre-release in; the parser accepts at most 32 comparators.
- Hashed collections have no order in the code, so the models take any member:
  ready nodes of the sort, dependents in `plan_cascade`, orphans, upgrade targets.
- The thread's stack is a bound, `MaxDepth`, on nested calls of `plan_cascade`;
  passing it is the state `"overflow"`, the end of the process.
- An index document and an archive are each one model value: equal values have
  equal bytes and hashes. An archive holds a payload and a manifest, which says
  a name, a version, a signer and the payload's hash. A signature is a pair of
  signer and content: an index document's bytes, or a payload's hash and nothing
  else of the archive. The record of an installed package has the manifest's name
  and version, which nothing compares with those of the index entry. A
  mirror serves at each request any document its repository has ever offered,
  so a lagging mirror, a republication between the index and its `.sig`, and a
  damaged or unparsable copy are all choices of that step.
- `fs::write` is two steps, truncation and filling; a file in between is `Torn`.
  Two writes that overlap may also leave a mixture, `Torn` as well.
- A Unix socket is a queue of whole lines in each direction. The client's is
  bounded by the number of its requests, the daemon's by `Capacity`, at which
  `write_json_line` blocks. A write to an end that is closed fails unnoticed, as
  `let _ =` makes it.
- `Replies` and `OfCommands`/`OfQueries` are the two `match`es, of `dispatch` and
  of the methods of `DaemonClient`, as functions from a request to the kind of
  payload. A request or an event that the other side is too old to know is
  `Unknown`: it does not parse.
- `Supervised` says that a daemon is started only while no other is starting.
- Commands that are refused at once, find nothing to do or are dry runs change
  nothing. They are left out of `Lifecycle`; `Removal` keeps the dry run as `Check`.
- History variables (`before`, `outcome`, `committed`, `fresh`, `stuck`, `asked`;
  in `Daemon`, `done`) remember what properties compare; no action reads them.
- Operators introduced by a comment "mutant of …" are faulty variants of a
  definition, each of which some property rejects. They are in no specification.

## Runs

| Run | Instance | States | What it shows |
|---|---|---|---|
| `tx_atomic` | 2 packages (one in two versions) sharing one of 3 files; extract, hash, hook, rename fail, crashes before the first file moves | 556 | all-or-nothing (`FailureRestores`, `SuccessPersisted`), refinement, termination |
| `tx_crash` | the same, foreign files, undo fails, crashes | 14 k | databases agree, files recoverable, others untouched |
| `graph` | all graphs on up to 4 nodes, up to symmetry | 11 k | topological, complete, only cycles refused |
| `lock_crash` | a command line and a daemon, 2 packages, failing saves, crashes anywhere | 958 k | one operation at a time; fresh copies write their own record only |
| `remove` | 3 packages, 1 capability, every dependency relation, any of them explicit or essential, hooks fail | 4.6 M | dependents keep their dependencies; wanted and essential packages stay; cascades are justified and return |
| `resolve` | 4 packages, 3 versions, the second a pre-release: every diamond of ranges that name it or not, every 3-package knot of cycles and conflicts | 227 k | plans complete and in order, found where the search promises one; restarts narrow and end |
| `life` | 3 packages, 2 versions, 44 repositories, 25 of them with a capability dropped and one with a pre-release, every fetch, install, removal may fail | 825 k | rollback whole and dependents first; flags and holds kept; at most one package lost |
| `daemon_socket` | 3 daemons, 1 client; signals, kills, panics, a daemon newer than its client | 133 k | a serving daemon keeps the socket path until it gives it up |
| `daemon_calls` | 1 daemon, 2 clients, 2 requests each, 1 event, a buffer of 1; panics, kills, disconnects, a client newer than the daemon | 199 k | answers in step, success means done, every call returns, threads end |
| `repository` | 2 processes, 2 repositories (one signed with a mirror, one with a document that does not parse), 5 archives (one listed under a name that is not its own, a rebuild with the same payload, another payload under a signed manifest), 5 documents, 2 attempts; torn and failing writes, crashes | 1.1 M | the index is a merge of whole genuine documents; cached and installed archives are what an entry lists, their payloads signed if they must be; the old version goes only when the new one is ready |
| `tx_foreign`, `lock_stale` | the smallest that shows it | | a sentence of the documentation that the code does not keep; see Findings |

Why the bounds are enough: every property relates at most a package, one it
depends on and one more provider, dependent or owner, so three packages and one
capability meet every case of `Removal` and `Lifecycle`; two versions make every
kind of upgrade; three versions are needed for ranges that overlap without being
equal, and one of them between the others is the pre-release that a range may
hold without matching; four nodes make two disjoint cycles and every diamond; two packages that
ship the same file make every ownership conflict. Crashes may happen any number
of times. Three daemons are a running one, its successor and a third that
starts meanwhile; more requests than two, events than one or messages in the
buffer than one repeat situations that two, one and one already have (a request
after an answered one, an event before an answer, a writer that blocks). Two
repositories are one that signs and one that does not, with a mirror for the
first; two attempts are a failure that is retried and one that is the last.
`MaxDepth` is one more than the number of packages, so an acyclic
cascade cannot meet it.

`tx_crash` kills the process before any step but `release`, `save_packages` and
`save_files`: from there to the end a removal has discarded its backup and the
databases are being written one after the other, and nothing repairs what a
crash leaves (`TxSaveFails.cfg`). `SolvedIfSolvable` is asked of repositories
where only packages without dependencies have several versions, and which have
no conflicts and no cycles (`OnlyRangesToSettle`): the resolver documents that it
does not search around the rest. It and `RestartsNarrow` are asked where no two
requirements on a package disagree about a pre-release in the range of both
(`TagsAgree`), and `ResolvePrerelease.cfg` shows why; in `resolve` four fifths
of the 32 k repositories agree. `resolve` has 10 restarts
(`MaxRestarts`, 200 in the code), more than its repositories can cause. `DependenciesInPlace`
and `NewPackagesComplete` promise that a dependency is answered, and met where
what may be taken for it is never wrong. `NothingBroken` leaves out cascades where a
dependency has several providers, and `OthersKeepDependencies` new versions that
stop providing a capability; both limits are real and shown by a configuration
below. `InstallAllOrNothing` leaves out what the rollback has warned it could
not remove. `ReplacementReady` is checked while nobody runs `clean` during another
process's operation, `SocketReachable` while daemons are started one at a time,
and `EveryCallReturns` is about clients that keep reading, while none stalls;
configurations below show each without that condition. `AnswersInStep` needs a
client that can parse every event (`newer_daemon` not among the faults).

The type invariants of `Transaction`, `DependencyGraph`, `ServiceLock` and
`Repository` are left to the proofs, those of `Removal` and `Daemon` may be added
to their configurations; the runs' time goes to the other properties. Every
`ASSUME` on constants is evaluated by the runs: `PayloadAssumption`,
`WorldAssumption` and the like say that what a repository offers and an archive
holds is of its type.

Deadlock is not checked (`CHECK_DEADLOCK FALSE`) where the modelled program ends
(a sort, a resolution, a process out of stack) or may have nothing left to do
(`Lifecycle`, `Daemon` when all connections are gone, `Repository`).

Fairness. `Transaction` has weak fairness of its steps (not of beginning a
transaction, nor of crashes) and `Resolver` of its next step: both are
straight-line code and loops in one thread, which the operating system runs.
`Daemon` has weak fairness of each connection's thread, of a client that waits for
an answer and is not `Stalling`, and of the steps of a daemon that has begun to
start or stop; nobody need connect, ask, be signalled or die. Weak fairness of
the thread includes taking the lock: requests are finite in the model, so the
lock cannot be taken over and over by others, a starvation that a platform's
`RwLock` does not exclude. `Repository` has weak fairness of an update and an
operation that have begun (`RepositoryEnds.cfg`). The others state no fairness
and no liveness.

## Findings

Each is a run that TLC must end with a violation, with the quotation in
`PROJECT.json`.

- `tx_foreign`: `activate` renames over a file that no package owns, and a
  failing `post_install` deletes it.
- `lock_stale`: databases are read before the lock and never again, so a process
  that opened earlier overwrites what another has committed.

Further configurations, not runs, end with a counterexample too. The first
nine go against the quoted lines as the findings do; the rest document limits of
the passing runs. (`RepositoryEnds.cfg` is the one that passes: one process,
20 k states, `TypeOK` and `OperationsEnd`, that every update and operation
returns.) Where two properties are named, run TLC with `-continue`.

| Configuration | Violated | Because |
|---|---|---|
| `LifeBatch.cfg` | `BumpBreaksNobody` | `upgrade` of everything checks all bumps against the versions before the batch, so the second can take from the first what its new version needs; `README.md:226` says such a bump is refused |
| `RemoveCycle.cfg` | `CascadeReturns` | `remove --cascade` of packages in a dependency cycle overflows the stack (`lifecycle.rs:544`) |
| `ResolveLocal.cfg` | `SolvedIfSolvable` | a dependency met by a locally installed package the index does not have is refused (`resolver.rs:176`) |
| `DaemonRace.cfg` | `SocketReachable` | two daemons that start together both find a dead socket, and the second deletes the one the first has bound; `server.rs:31-35` says a live socket is never touched |
| `DaemonSkew.cfg` | `AnswersInStep` | after an event it cannot parse the client returns and keeps the connection, so the next call takes the rest of this one's lines for its own (`protocol.rs:7-11`) |
| `DaemonStalled.cfg` | `EveryCallReturns` | a client that stops reading blocks the write lock's holder, and so everybody (`server.rs:188-193`) |
| `ResolvePrerelease.cfg` | `AlwaysSolved`, `DependenciesMet` | concatenated comparators match a pre-release that one of the two requirements does not: with lib in 0.9.0, 1.0.0-alpha and 3.0.0, `<=1.0.0-alpha` and `<2.0.0` restart until `MAX_RESTARTS` though 0.9.0 suits both, and `*` with `>=1.0.0-alpha, <2.0.0` gets the pre-release that `*` does not match; `README.md:205` says such a diamond is solved "whenever a solution actually exists", `resolver.rs:38` that "each restart strictly narrows", `resolver.rs:379` that the joint list "matches exactly the versions that would have matched both" |
| `RepositoryMirror.cfg` | `MirrorsTried` | the signature is verified after the loop over the mirrors (`lifecycle.rs:123-129`), so one that is served and does not verify fails the update while another mirror is left; `README.md:178-182`, `config/files.rs:16-18` and `docs/INTEGRATION.md:454-457` say that "one mirror failing to serve a valid signature doesn't fail the whole refresh if another has it" |
| `CleanRace.cfg` | `ReplacementReady` | `clean` takes no lock, and deletes the verified archive after the old version is gone; `lifecycle.rs:837` says it is "safe to run any time" |
| `TxSaveFails.cfg` | `FailureRestores`, `DatabasesAgree` | a save that fails is not undone; a crash between the two saves leaves databases that disagree |
| `TxRestoreFails.cfg` | `FailureRestores` | the error of `undo_removal` is dropped with the backup |
| `TxPostInstall.cfg` | `PostInstallAfterPersist` | `package/hooks.rs:26` says the databases are persisted when `post_install` runs; they are not yet |
| `LockTornOpen.cfg` | `RestAgrees` | `open` reads between another process's saves |
| `RemoveProviders.cfg` | `NothingEverBroken` | two providers go in one cascade |
| `ResolveDrift.cfg` | `DependenciesMet` | a provider is taken in a version that does not provide the capability |
| `ResolveChain.cfg` | `RestartsNarrow` | more comparators than semver parses |
| `LifeWorse.cfg` | `NeverWorse` | the swap removes, then fails to install |
| `LifeRaised.cfg` | `UpgradeKeepsSound` | a dependency installed in too old a version is not upgraded |
| `LifeProvides.cfg` | `UpgradeTakesNothing` | the new version no longer provides a capability |
| `LifePull.cfg` | `NothingToPull`, `HistoryComplete` | a capability is looked up as a package name; packages an upgrade pulls in are not logged |

## Proofs

| Theorem | For all | Argument |
|---|---|---|
| `SuccessIsPersisted` | packages, files, payloads; every fault, crashes anywhere | an invariant of its own |
| `DatabasesStayInStep`, `OthersStayUntouched` | the same, with `SavesComplete`: saves do not fail and no crash falls between them | `IInv` |
| `PayloadStaysRecoverable` | the same with `GapsClosed`: no save or restore fails, no crash from the discarded backup to the last save | `KeptInv` |
| `FailureIsRolledBack`, `ImplementsAtomicInstall` | the same with `Reversible`: extraction, hashes, hooks and renames fail, crashes come before the first file moves, no foreign files | `RolledBack` (`RollInv`) |
| `OrderIsTopological`, `OrderIsComplete`, `RefusalIsJustified` | finite sets of nodes, all graphs, all orders of ready nodes | `GInv` |
| `LockExcludes`, `FreshWritesOwn` | processes, daemons, packages, crashes, failing saves | `LockInv`; `InStep` |
| `ServingIsReachable`, `OneDaemonListens` | daemons, connections, signals, kills; `Supervised` | `SocketInv` |
| `AnswersStayInStep`, `OkIsDone` | daemons, clients, requests, events, buffers, panics, kills, disconnects; no `newer_daemon` | `ConnInv` |
| `IndexIsWhole`, `CacheIsVerified`, `InstalledIsListed` | processes, packages, documents, archives, signatures, repositories, attempts, crashes, torn writes | `Mergings`, `SafeInv` |
| `ReplacementIsReady` | the same, `CleanRacing = FALSE` | `TypeOK` and `Checked` |
| `LifecycleTypes`, `OnlyTheSwappedIsLost`, `HoldsRespected`, `LogTellsTruth` | packages, repositories, requests, failing fetches, installs and removals | `CallInvariant` |
| `FailedInstallIsUndone`, `FlagsOutliveUpgrades`, `InstallNeverIncomplete`, `UpgradesLeaveOthersWhole` | the same | `Untouched`; `FlagInv`; `Grounded`; `Replaced` |
| `ResolverTypes`, `SortNeverRefuses`, `PlansAreComplete` | packages, versions, pre-releases, repositories, requests | `Typed`; `GraphInv`; `PlanInv` |
| `EachRestartNarrows` | the same with `ComparatorsFit` (the property itself asks `TagsAgree`) | `NarrowInv` |
| `SolvableIsSolved` | the same with `ComparatorsFit` and `EnoughRestarts`, in a `PlainWorld` | `SolveInv` |
| `CascadeTakesNoBystander` | finite sets of packages; capabilities, dependencies, marks, failing hooks | `CascadeInv` |
| `CascadeNeedsFewCalls` | the same, `MaxDepth` no less than the number of packages | `CascadeInv` and a pigeonhole |
| `RemovalBreaksNothing`, `EssentialStays`, `WantedStays` | finite sets of packages; capabilities, dependencies, marks, failing hooks; for cascades, one provider per dependency | `PlanInv`; `GuardInv`; `OrphanUnwanted` |
| `TypeCorrect` in each of `TransactionProofs`, `DependencyGraphProofs`, `ServiceLockProofs`, `RepositoryProofs` | | step by step |

- **Transaction.** That the databases agree is not inductive: `claim` keeps them
  in step only because the conflict check, many steps earlier, found no other
  owner, and `release` only because it releases exactly what the record lists.
  `IInv` adds the facts that carry this through the steps: the paths of a running
  install are owned by its package or by nobody from `Check` to `Claim`, those of
  a removal are the record's, and disk equals memory until the next save.
  `SavesComplete` is needed, as `TxSaveFails.cfg` shows of both its halves; crashes before `release` and `save_packages` are allowed, so the theorem covers
  more than `tx_crash`.
- **Transaction, files.** That a recorded file can be found is a matter of where
  the loops are: `KeptInv` says that a backup, also one that a crash has left
  behind, holds its own package's files only, and which files of `written` a loop
  has put in the root by now. `GapsClosed` is `tx_crash`'s condition.
- **Transaction, rollback.** `RollInv` gives the whole state relative to the one
  the transaction began in (`before`): which file has moved, which is in the
  backup, that no database has changed before `claim` and `release`. Undoing is
  then the way back along the same sets, and the abstract state, which the
  mapping takes from `before`, changes with the last save only. `Reversible`
  leaves out just what has a counterexample (`TxSaveFails`, `TxRestoreFails`,
  `TxForeign`) or ends in files that a later run has to tidy.
- **DependencyGraph.** `GInv` says what the counters and the queue mean: the
  in-degree of a node counts its dependencies not placed yet, and the queue holds
  exactly the unplaced nodes without any. Cardinality lemmas carry it over a
  round of the loop; when the queue is empty, the unplaced nodes each wait for
  another unplaced one, which is the cycle.
- **ServiceLock.** `MutualExclusion` is inductive together with the range of
  `pc`: two lemmas, one for a process that leaves and deletes the file, one for a
  step that neither touches the file nor enters.
- **Daemon, socket.** `Supervised` alone does not say that the path is the serving
  daemon's: `SocketInv` adds that the one daemon that is starting finds the path
  as its last step left it (dead before `unlink`, free before `bind`), and that
  nobody listens then, so a removal on the way out hits nobody else's file.
- **Daemon, calls.** Neither property is inductive alone: `ConnInv` says of a call
  in progress that its one request is still queued, or is being served with only
  events in the socket, or has been replied to with events followed by one final
  message for this very request, or was cut, with nothing more to come. A lemma
  per action carries a connection from one of the four to the next; `TablesAgree`
  shows that the two `match`es agree on every request; lemmas about sequences say
  what taking the first message and adding a last one do to such a reply.
- **Repository.** `IndexIsMerge` follows from what an update holds between
  repositories: the entries merged so far are the contributions of one genuine
  document of each repository before the current one (`Mergings`). `SafeInv` adds
  that an operation's entry comes from a genuine document (`Sourced`) and that
  from verification on the manifest's signer, if any, has signed the hash that the
  manifest claims (`Checked`); that it is the payload's own hash is what the
  extraction adds, and both together are `InstalledAsListed`. The cached archive
  may change under a verified operation only by `clean`.
- **Removal.** That nothing breaks while packages go needs to be known of the whole
  plan: `Ordered` says that whoever needs a planned package and is still there is
  planned before it, so nobody who stays needs the head. `plan_cascade` gives it
  because of what its active calls owe (`CallsCover`): who needs the package of a
  call is still to be looked at, planned, or the subject of the next call, so a
  call that returns plans its package after all of them. With several providers
  this is not enough (see the bounds). For autoremove, what is wanted without
  an orphan still holds all the providers of what it holds, so the least such set
  never held the orphan.
- **Removal, cascades.** The active calls are a path in the relation "uses", and
  each planned package uses a later one or one of a call (`CascadeInv`). In an
  acyclic relation no package is twice on such a path, which bounds the stack by
  the number of packages; that a cycle would be needed is the same argument as
  for the plan that ends with the package named.
- **Lifecycle.** `CallInv` says what a command has in hand at each step: a plan
  holds only what is not installed, each once; what an install has put in was not
  there before; while an upgrade runs nothing is missing but the package between
  its two transactions. From it follow that a rollback is the way back
  (`Untouched`), that flags read before a removal are the ones to write after it
  (`FlagInv`), that every package of a plan finds what answers its dependencies in
  what was there or came before it (`Grounded`; the rollback goes from the end), and
  that what an
  upgrade replaces was found safe *when the command began* (`Replaced`), which is
  enough for packages outside the batch and, as `LifeBatch.cfg` shows, no more.
- **Resolver, graph.** The edges of an attempt lead from a package with an active
  call or in the plan to one in the plan, or to the next call (`EdgesLead`); an
  edge into the plan never closes a cycle there because what it starts from is
  not yet planned (`PlanAcyclic`). So only the stack can close one, which is what
  `visiting` looks for.
- **Resolver, plans.** `PlanInv`: every pick is published and in the range of the
  requirements it was picked for, and each dependency that a call has done with is
  answered, over an edge, by a package that is installed, planned or about to be.
  No hypothesis: what may go wrong with a capability or a pre-release is in
  `Answers`, and `ResolveDrift.cfg` and `ResolvePrerelease.cfg` show it does.
- **Resolver, restarts.** A pick obeys what restarts have learned about it
  (`PicksAgree`), so where tags agree a requirement that it fails excludes a version
  that was allowed. This needs `intersect_req` to keep both sides, and so the
  comparators to fit: a restart counts the learned ones twice, hence the budget in
  `ComparatorsFit`. It is a function of how many of a package's requirements have
  been heeded, since one that is (`Obeyed`) causes no second restart; the number of
  versions does not matter. For requirements of one comparator it is 1, 3, 7, 15,
  31: five different ones on one package fit under semver's 32, as many as a
  diamond five wide has, and `ResolveChain.cfg` exceeds it with seven.
- **Resolver, completeness.** `SolveInv`: any solution agrees with all that was
  learned and with the calls made, since every requirement asked for comes from a
  package that each solution must hold too. `PlainWorld` states what makes "must"
  true: what is installed is published (`ResolveLocal.cfg`), a capability has one
  provider and is no package's name, and no needs form a cycle, those for a
  capability included. `EnoughRestarts` is one for each requirement that refuses a
  published version. In all of `resolve`'s repositories these hold where
  `OnlyRangesToSettle` does, so run and theorem ask the same.

Only model-checked: the liveness properties `TransactionEnds`, `ResolutionEnds`,
`EveryCallReturns`, `ThreadsEnd` and `OperationsEnd`, which with fairness are
beyond the prover. Every invariant and action property of a passing run, and the
refinement, is stated by a theorem. Where a theorem has a hypothesis that the run
does not need, or the other way round, the table and the paragraphs above say so.

## Not modelled, and the plan

Not modelled because it is pure or formats data: JSON, the layout of archives and
manifests, packing (`build`), hash and signature arithmetic, version parsing, the
command line, paths and defaults of the configuration, the free-space check, what
`list`, `search`, `info`, `verify` and `history` return. Hooks are external: a
hook succeeds or fails and is not assumed to change anything the package manager
keeps. The HTTP client is external: a request yields bytes or an error. In
`Daemon`, an `accept` that fails and a connection that cannot be cloned are left
out, and in `Repository` the architecture filter, which only narrows what is
listed, and archives whose manifest cannot be read, which fail like any other
refused one.

All components that change state are modelled. What is left:

1. Directory entries of payloads in `Transaction`.
2. Proofs: `RollInv` with `undo` failing, which leaves files of the failed install
   in place and nothing else; `SolvableIsSolved` where needs form cycles through
   installed packages, where the visit stops; the safety half of the liveness
   properties (a measure that every step lowers).
