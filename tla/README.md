# secret-git: verification project

secret-git is a git remote helper (`encgit`) that stores a repository
encrypted and signed on a server that is not trusted with its content.  This
directory holds TLA+ models of it, the TLC runs that check them, and TLAPS
proofs of what matters most.

Contents: [the system](#the-system) · [modules](#modules) ·
[what is abstracted](#what-is-abstracted) · [runs](#runs) ·
[fairness](#fairness) · [proofs](#proofs) ·
[where the code and its documents differ](#where-the-code-and-its-documents-differ) ·
[not modelled](#not-modelled) · [plan](#plan) · [running it](#running-it)

## The system

A repo consists of immutable *pack blobs* (encrypted git packs), a *keyfile*
(the repo key, wrapped to every member), and two *pointers*: the *roster* (who
the members are; a signed, versioned chain) and the *manifest* (refs and packs;
signed, versioned, bound to a roster).  Clients do everything that needs trust.
The store answers single calls, and offers a compare-and-swap on each pointer.

| component | source | state | operations |
|---|---|---|---|
| engine | `internal/helper/{engine,roster,membership,git}.go` | none of its own: one process runs one operation | Init, Push, Fetch, AddMember, RemoveMember, FullRekey |
| client state file | `internal/localstate` | pinned roster, pinned manifest hash and version, repo keys, imported packs | Load, Save (a rename) |
| store interface | `internal/store/store.go` | blobs, keyfile, two pointers | PutBlob, GetBlob, DeleteBlob, PutKeyfile, GetKeyfile, Get/CASManifest, Get/CASRoster |
| directory store | `internal/store/localfs` | the same, as files; a pointer is a blob file, a version file and a lock file | the same |
| HTTP store client | `internal/store/httpstore` | a bearer token | the same, one request each |
| server: accounts | `internal/server/{server,storage}.go` | accounts, api_tokens, invites, bootstrap, repos, repo_access | register, login, repo and invite creation, disable and enable, authorization |
| server: data endpoints | same | blobs, keyfiles, manifests, rosters | the store interface, each behind authRepo |
| server: throttle | `internal/server/throttle.go` | login_throttle rows, argon2 slots | status and prune, fail, reset, acquire |
| server: passwords, tokens | `internal/server/auth.go` | none | hash, verify, mint |
| server process | `cmd/encgit-server` | flags | bootstrap at start, listen |
| manifest, roster, JCS | `internal/{manifest,roster}` | none | canonical encoding, hash, sign, verify |
| cryptography | `internal/{crypto,identity,agekey,bech32}` | none | AEAD, signatures, age |
| command line | `cmd/encgit` | configuration file, session file | commands, clone, login, publish-genesis |

How they interact:

* A client interleaves with the other clients between any two of its calls to
  the store.  Push is GetKeyfile, GetRoster, GetManifest, GetBlob..., PutBlob,
  CASManifest, Save, with a bounded loop from GetManifest on when it loses the
  swap.  AddMember and RemoveMember are CASRoster, then PutKeyfile (no version,
  unconditional), then a re-publication of the manifest under the new roster.
  FullRekey is re-encryption, CASManifest, PutKeyfile, CASRoster, DeleteBlob...
* The state file is loaded, changed and saved in rounds: the keyfile's key, the
  roster pin, and what the operation itself records.  Processes of one clone
  share it, without a lock and with one name for the temporary file.
* Over HTTP every call is a request that the server may handle after its sender
  gave up; nothing in the handlers looks at the request's context.
* publish-genesis reads the remote keyfile and roster and writes what is
  missing; clone creates a directory, opens and fetches in it, and removes it if
  that fails.
* No call of a client has a deadline: `transport.go:55` builds a client without
  a timeout, `httpstore.go:36` falls back to `http.DefaultClient`, the requests
  carry no context (`httpstore.go:67`), git is run without one, and the lock of
  the directory store blocks.  A call that is never answered blocks its client,
  which then holds nothing that another client's operation waits for, but the
  lock of a directory store.
* The server has one database connection, so a statement or a transaction is
  atomic; a request that issues several interleaves with the others.
* The directory store lets readers read the files of a pointer without a lock.

What is hard, and what makes each component correct:

* **Engine.**  Three stores of truth (roster, keyfile, manifest) are changed by
  separate calls, in different orders by different operations, and any client
  may die or be beaten between two of them.  Correct means: both chains stay
  chains; no push is lost and no ref loses its objects; nothing is pinned that
  was not committed; a removed member obtains no later key and signs nothing
  bound to a later roster; what is recorded as imported is local.
* **Directory store.**  A reader may see the blob of one swap and the version of
  another.  Correct means: a swap built on a torn read loses, so the files
  implement the pointer of the interface.
* **HTTP store.**  Writes take effect late, or without their sender learning of
  it.  Correct means: only a 412 is a conflict, the rows still behave as the
  pointers of the interface, no listed pack goes away, and publish-genesis
  reports the truth when it is run again after half of it was done.
* **State file and clone directory.**  Correct means: state.json is whole at
  every moment, no key or pin is lost over any sequence of operations and deaths,
  a failed clone can be retried, and nothing but the clone's own directory is
  removed.  Each of these has its exceptions in the code; they are stated with
  the properties and listed [below](#where-the-code-and-its-documents-differ).
* **Accounts.**  Tokens are redeemed and sessions inserted by requests whose
  authorization was read earlier.  Correct means: one account per token, never
  locked out of administration, no session survives the disabling of its account,
  writes by writers.
* **Throttle.**  A login reads the clock once and records its failure later.
  Correct means: slots come back, no key is locked out, and a window disappears
  or shrinks only by a success or by the delay of a slow login.

`PROJECT.json` lists every hazard with the line where it bites and the
properties that would catch it.

## Modules

| module | what it is |
|---|---|
| `Engine` | the engine's operations, call by call, by several clients against one store |
| `EngineProperties` | their properties |
| `EngineProgress` | the assumption that some clients' calls are answered, and what follows for their operations |
| `EngineProofs` | theorems: types, the manifest chain, no lost update, conflicts |
| `EngineRosterProofs` | theorems: the roster chain, pins, signers, keys and generations |
| `EngineContentProofs` | theorems: refs, packs and imports |
| `PointerStore` | what the store interface promises of a pointer (abstract) |
| `LocalFS` | the pointers of the directory store, file by file, and its properties |
| `LocalFSProofs` | theorems about it, among them that it implements `PointerStore` |
| `HttpStore` | the same pointers, keyfile and packs behind HTTP: requests in flight, handlers, publish-genesis; its rows are checked against `PointerStore` |
| `HttpStoreProofs` | theorems about it: all its properties, among them that its rows are such pointers |
| `Workspace` | a user's directory: the state file, file operation by file operation, and the life of a clone |
| `WorkspaceProofs` | theorems about it: all its properties |
| `Accounts` | the server's accounts, sessions, invites and roles, statement by statement |
| `AccountsProperties` | their properties |
| `AccountsProofs` | theorems about them: all its properties |
| `LoginThrottle` | backoff windows and argon2 slots in front of the password check, and their properties |
| `LoginThrottleProofs` | theorems about it: all its properties, and the backoff itself |
| `MCEngine`, `MCEngineProgress`, `MCLocalFS`, `MCHttpStore`, `MCWorkspace`, `MCAccounts`, `MCLoginThrottle` | instances for TLC |

Definitions named "bug variant" are not part of a specification.  Each is a
plausible mistake in the definition below it, and substituting it makes TLC
report the property it is aimed at: the evidence that the property can fail.

### Engine

One action per call to the store, with the computation that follows it:

| action | code |
|---|---|
| `Begin` (`RefreshPackKeys`) | `refreshPackKeys`, first call of every operation |
| `LoadTrustedRoster`, `RefuseRoster` | `loadTrustedRoster` with the trust rule of `helper/roster.go`; `checkKeyfileGeneration`, `selfIsMember`, the operations' own refusals; construction of the new roster |
| `LoadCurrent` | `loadCurrent`: GetManifest, decrypt, binding and signer checks |
| `PreparePack`, `PreparePackFails` | `ensureLocalObjects`, `generatePack`, PutBlob |
| `Repack` | the re-encryption loop of `FullRekey` |
| `CASManifest`, `ManifestConflict` | publication by Push, `republishManifest`, `FullRekey`; the retry loop |
| `PutKeyfile`, `CASRoster`, `RosterConflict` | the membership changes |
| `DeleteOldPack`, `OldPacksDeleted` | the clean-up of `FullRekey` |
| `FetchManifest`, `ImportAndUpdateRefs`, `ImportFailsInFetch` | `Fetch` with its freshness rule; it may fail after some packs are indexed, because one cannot be opened or any call fails, and after some refs are updated |
| `Save` | the write of the state file |
| `Crash` | the process dies, a call fails, or its answer is lost |
| `Commit` | `git commit` between operations (not the engine's) |

`rlog` and `mlog` keep every value the pointers ever held; the store itself
keeps only the last.  The code never reads the older ones from the store, and
neither do the actions: they use an older manifest only through an index that
stands for its hash (`pinM`) or for a copy in memory (`op[c].cur`).

`Init` is the state after `Engine.Init` by the founder and one completed
`AddMember` for every further name in `Joined`.  At genesis `engine.go:64`
gives the repo key generation 1, so the check `gen # 0` passes; the comment at
`roster/roster.go:87` speaks of generation 0 and is about older rosters.

### Directory store

`blob` and `version` are the two files of a pointer.  `GetManifest` reads the
number, `ReadManifestBlob` the blob later; `GetRoster` reads the roster blob,
whose own version is what the caller goes on with.  `Flock` to `WriteVersion`
are the steps of `CASManifest` and `CASRoster` under the file lock.  Dying
before the first write is `AbandonBeforeWriting`; dying between the two is
`AbandonHalfWritten`, which is in `CrashSpec` only, because the promise does not
survive it (see the run `localfs_crash`).

The refinement mapping puts the moment of the swap at the write of the version
file: `Held(k)` is the content the swapping process read as long as it is
between its two writes, and the blob file otherwise.

### HTTP store

| action | code |
|---|---|
| `BeginPublish`, `CheckRoster` | the two switches of `publishGenesis` |
| `BeginChange`, `WrapKeyfile` | AddMember's CASRoster and PutKeyfile, as the store sees them |
| `BeginPush`, `ReadManifest`, `Publish`, `DeleteOld` | Push with its retry, and FullRekey's swap and deletions |
| `Handle` (`HandlePutManifest`, ..., `Fails`) | a handler of the server with its transaction, or a request lost, refused or failed |
| `Reply` (`OK`, `Conflict`) | the status as `casPointer` and its like read it; nothing, if the sender is gone |
| `GiveUp` | the client dies, or its connection breaks, with the request still on its way |

`Engine` has every operation whole against a store that answers at once; here
are the pairs of calls whose order matters once an effect can be late.  A read
is one statement, and is one step.  `overlapped` records that a publish-genesis
began while another run, or a request of one, was under way: the code does not
defend against that, and the properties about the genesis leave it out.

### Workspace

| action | code |
|---|---|
| `BeginClone`, `GitInit`, `Checkout`, `Cleanup` | `cmdClone`; `dir` is what is at the path: nothing, an empty directory, one that no clone completed, a clone, or something that is no directory.  `given` is what the user had there |
| `BeginOther` | fetch, push, member-remove in a clone |
| `Load` (`LoadForKeys`, `LoadForRoster`, `LoadForFetch`, `LoadForPush`, `LoadForRemove`, `LoadFails`) | each `state.Load` with what is decided on it |
| `Rotate`, `Import`, `Publish`, `PublishConflicts`, `Republish` | what happens between a Load and its Save |
| `OpenTmp`, `WriteTmp`, `RenameTmp` | the steps of `Save`: create or truncate, write, rename |
| `Fails`, `Kill` | a request, git or a verification fails; the process dies |

Inodes are modelled because two processes may have the same temporary file open,
and because one of them may rename it while the other writes.  The server is
reduced to the newest key, which also numbers the roster, and to the keys the
manifests were sealed with; it may answer a read with any older value.
`overlapped` records that a process loaded the state, or swapped the roster,
while another one was between a Load and its Save or between RemoveMember's
roster swap and the Load after it, or that a clone ran next to another process:
the code has no lock, and `StateReadable`, `StateKept` and `CloneRetriable`
leave those histories out.  `CloneRetriable` also leaves out deaths inside an
operation (`killed`) and directories the user had made, and has the state file
at its default place, inside the directory; `RemovesOwn` speaks of directories.
What happens in the cases left out is listed under
[where the code and its documents differ](#where-the-code-and-its-documents-differ).

### Accounts

A request that needs several statements is held in `req[w]` between them: a
login between reading the account and inserting the session, a registration
between reading the clock and its transaction, an admin request between
authentication and its effect, a data request between session, role and write.
`EnsureBootstrap` and `PrintBootstrap` are the two steps of a start, `Kill` is
the death of the process and `Tick` the clock.  A request that is rejected has
changed nothing and is not shown.  `ended` is a history variable: the accounts
that were disabled while no login of their user was between its two statements,
and whose user has begun no login since.

### Login throttle

A login in progress is `req[w]`, with the clock reading of its arrival:
`Prune` and `ReadWindows` are the two statements of `throttleStatus`,
`AcquireArgon2` and `Busy` the two ends of `acquireArgon2`, `Verify` the
password check and the release, `ThrottleFail` and `ThrottleReset` the two
transactions after it.  `DatabaseError` lets any of the statements fail.  A
`Restart` loses logins and slots and keeps the windows.  A key without a row is
`NoRow`; a row's count is the number of its failures since the last reset.

## What is abstracted

* **Hashes and signatures** are injective names: a manifest hash is its
  position in `mlog`, a roster hash a number handed out when the roster is
  built (a full rekey publishes a manifest bound to a roster that is not
  committed yet).  A signature is the field that names the signer.
* **Encryption**: a blob opens under the key it is sealed with, a keyfile for
  the members it is wrapped to.
* **Git**: commits are opaque and independent of one another; a pack contains
  exactly the pushed commits that the refs of the current manifest lack.
  Branch updates are plain writes of a ref, which is what the engine does too.
* **Packs** with equal content and key are one pack.  Re-encryption of a pack
  therefore gives one pack, where the code's random nonce gives a new blob id
  per attempt; ids are never compared across attempts.
* **Reading several packs** of one manifest is one step.  It succeeds exactly
  if all are present at the first read: a listed pack that was deleted stays
  deleted, and a failure at any later point is covered by `ImportFails`, which
  may have indexed any part of the packs.
* **Server requests** carry right passwords and issued tokens; the others have
  no effect on this state.

## Runs

| run | what it asks | bounds |
|---|---|---|
| `push_fetch` | do pushes and fetches of two members keep the manifest chain, each other's refs, and objects for every ref? | 2 clients, 2 branches, 2 commits, 3 pushes, 2 fetches, 3 attempts per push, crashes and fetches that fail half way |
| `membership` | do additions and removals that race each other, a push and a fetch keep the roster chain, the pins and the keys right? | 3 clients, 1 branch, 1 commit, 1 push, 1 fetch, 1 addition, 2 removals, crashes |
| `rekey` | does a full rekey that races a removal and pushes keep every pack and object, and does every operation of a client whose calls are answered return? | 3 clients, 1 commit, 2 pushes, 2 attempts, 1 fetch, 1 removal, 1 rekey, crashes; the calls of one client are answered |
| `accounts` | do requests, restarts and the clock keep accounts, admin, roles and sessions right? | 3 names, 1 repo, 2 concurrent requests, 1 invite, 2 ticks, 2 starts |
| `login_throttle` | do overlapping logins with old clock readings keep windows and slots right? | 3 logins at a time, 4 in all, 2 slots, 2 names, 1 address, 5 seconds, ceiling 3 times the base |
| `localfs` | do unlocked reads and locked swaps implement the pointer? | 3 processes, 4 swaps |
| `http_store` | do late, lost and repeated requests keep rows, packs, genesis and reports right? | 2 clients, both founders, 2 runs of publish-genesis, 3 later rosters or manifests, 2 attempts per push |
| `workspace` | do processes in one directory that fail and die anywhere keep the state file and the directory right? | 2 processes, 3 operations, 2 keys, 2 manifests |
| `keyfile_race`, `reissue_imports`, `localfs_crash`, `clone_file` | four statements of documents and comments the code does not keep, one each | the smallest instance that shows it |

Why the bounds are enough to be worth it: a lost update, a fork or a torn swap
needs two writers and one reader that is late, and all have at least that; a
third push lets a retry be beaten again, and the bound of three attempts is one
more than the conflicts that two other pushes can cause; with the two attempts
of `rekey` a push does exhaust them.  In
`membership` the third client is the one added or removed, and two removals
next to an addition let a change be overtaken twice.  Two concurrent requests
and one invite are enough for two redemptions of one token and for a login
overtaken by a disable and an enable.  MaxWrites = 4 lets one pointer be
swapped twice between the two reads of a third process.
Three contents after the genesis let a push be beaten, retried and followed by a
rekey that deletes its pack, with two requests of one client in flight.  Two
runs of publish-genesis are a run and its repetition, or two founders.  Three
operations are a clone and two more, or a clone that fails twice and succeeds,
with a rotation and a publication by others in between.  The commit, operation,
clock, invite, start and write budgets are the only bounds, and each is a
CONSTANT named in its module.  Deadlock is checked for the directory store;
elsewhere the budgets stop the clients, and the configurations say so.

In `login_throttle` the third failure of a key reaches the ceiling, which is
not a power of two, and two logins may wait while the third is checked.

`accounts` uses symmetry in user names and workers, `login_throttle` in
workers, `workspace` in processes: no action and no property names one of them.  The runs of the engine do not, because the founder and the
order of `Joined` are particular.

What the passing runs show, beside the obvious:

* `NoLostUpdate`: no publication, also not a re-issue after a membership change
  or the third attempt of a push, changes a ref its publisher did not push.
* `KeyConfined`: a removed member gets no key that the removal introduced, even
  if keyfiles are written late and in the wrong order (but see below on FullRekey).
* `SignerInBoundRoster`: a push that read the roster before a removal may well
  land after it, but bound to the roster it read, so readers refuse it.
* `SwapBuildsOnRead`: `GetManifest` of the directory store can return torn
  pairs, and still no swap succeeds on one.
* `PinsFollowChains`: through crashes, conflicts and re-issues by the client
  itself, a pin is only ever followed by a direct successor or by something the
  client published.
* `RowsFollowPointers`: from the genesis on, the rows are the pointers of the
  interface, although requests arrive late and answers are lost.
* `ReportsTrue`: what publish-genesis says is so, also when its first run died
  between keyfile and roster and a second one completes it.
* `StateKept`: the three rounds of Load and Save of an operation, with failures
  and deaths between them, never take back what an earlier one recorded, also
  not RemoveMember's last round, which starts after roster and keyfile changed.
* `ConflictsAreProgress`: a push that gives up after its attempts was overtaken
  that often; a retry never fails on a manifest it had already failed on.
* `FreshLoginNeeded`: deleting the sessions of an account when it is disabled is
  enough, whatever requests are under way, but for a login of that account.
* `OneEnabledAdmin`: within a database there is never a second admin, and the
  one there is cannot be disabled.

## Fairness

Only `OperationsReturn`, in the run `rekey`, needs it, and it is an assumption
about the environment and no guarantee of the code.  `AnsweredSpec` (in
`EngineProgress`) has weak fairness of `Step(c)`, the steps of an operation that
has begun, for the clients in `Answered` only: whatever these wait for, from
store, git or lock, is answered in the end, with or without success.  The code
does nothing to bring that about.  None of its calls has a deadline, so an
operation whose call is never answered stays begun for ever, without any crash;
that is what may happen to every other client of the run, at any call, on top of
crashes.

What the property then says is about the code: a client's operation waits for
its own calls and for nobody else's operation, however the others hang in the
middle of a removal or a rekey; the retry loop of a push counts its attempts;
the deletions of a rekey end.  The store of `Engine` answers each call by
itself.  With a directory store one call can wait for another process, which
holds a pointer's lock for its two writes only (`LocalFS`); a process stalled
between those is outside the assumption.  Starting an operation and committing
are up to the user and carry no fairness.  That a push which meets fewer
conflicts than its bound succeeds is not claimed: any call of it may fail.
What is claimed of its attempts is the invariant `ConflictsAreProgress`, which
needs no fairness.

## Proofs

TLC checks the instances above.  The theorems hold for every value of the
constants that satisfies the module's assumption: `EngineAssumption` (the
founder and the later members are clients, at least one attempt, budgets are
naturals), `LocalFSAssumption` (a bound on writes; no process is called
"none"), `WorkspaceAssumption` (finitely many processes, at least one key and
one manifest), `HttpStoreAssumption` (founders are clients; the bounds are
naturals), `AccountsAssumption` (lifetimes and bounds are naturals),
`AnsweredAssumption` (the answered clients are clients; no theorem uses it),
`ThrottleAssumption` (registered names are names, no name is an address, times
and bounds are naturals, a failure costs something and there is a slot).  Every
invariant and every action property of every passing run is proved.

Engine:

| theorem | property | argument |
|---|---|---|
| `EngineProofs!TypeCorrect` | `TypeOK` | `TypeOK` alone is not inductive: manifests are looked up by hash, and a lookup has a type only if the hash is of a committed manifest.  `TypeInv` adds `HashesCommitted` (pins, `cur` and `wrote` are at most `Len(mlog)`), and is inductive. |
| `EngineProofs!ManifestsChain` | `ManifestChain` | inductive relative to `TypeInv`: what is published counts from the version the swap compared with |
| `EngineProofs!UpdatesKept` | `NoLostUpdate` | the swap succeeds only on the manifest whose refs were merged |
| `EngineProofs!ConflictsMeanProgress` | `ConflictsAreProgress` | `ProgressInv`: at each swap a push is about to make, the manifest it read lies at least as far beyond its pin as it has counted conflicts, since every attempt reads anew; a lost swap means that one more was committed |
| `EngineRosterProofs!RostersChain` | `RosterChain` | `RosterInv`: versions are positions; in every operation under way, `trusted` is a committed roster and `next` its successor by a member |
| `EngineRosterProofs!PinsAreCommitted` | `PinsCommitted` | from `RosterInv`: an operation that reaches `save` has had its roster committed |
| `EngineRosterProofs!PinsStayOnChains` | `PinsFollowChains` | `PinInv`, next to `RosterInv`: a pin is written long after it was decided on, and what an operation is going to pin still follows what is pinned then |
| `EngineRosterProofs!SignersInRoster` | `SignerInBoundRoster` | `SignInv`: a client that is going to publish is a member of the roster it will bind to.  FullRekey publishes before it commits its roster, so a manifest may name a roster that is not committed yet: the invariant is about committed rosters and those operations in progress have built (`KnownRosters`), whose ids are handed out once. |
| `EngineRosterProofs!KeysConfined` | `KeyConfined`, without rekeys | `ConfinedInv`: every key a client holds, and the keyfile's for everyone it is wrapped to, is that of some committed roster with that member (`Backed`).  A new key enters a keyfile only after the roster that introduced it was committed, except in FullRekey. |
| `EngineRosterProofs!GenerationsNameKeys` | `GenerationNamesKey`, without rekeys | `GenerationInv`: along the roster log generations do not go down and each has one key (`OneKeyEach`); what the keyfile and every operation hold as generation and key was published together (`Names`), and the roster an operation builds continues from there (`GenOp`) |
| `EngineContentProofs!RefsAreCovered` | `RefsCovered` | `CoverInv`: what an operation is about to publish covers the refs it is about to publish.  A push took its packs from the same manifest it rebased onto; re-issue and re-encryption keep what is inside. |
| `EngineContentProofs!HeadPacksAreStored` | `HeadPacksStored` | `IssuedInv`: repo keys are issued in order, and an operation that rotates has the newer one.  `OrderInv`: along the manifests keys do not go down, and once a rekey has published, every later manifest lists newer packs only, while it deletes older ones.  `StoredInv`: what an operation offers against the current manifest is stored. |
| `EngineContentProofs!ImportedStayLocal` | `ImportedAreLocal`, without rekeys | `LocalInv`: what an operation pushes, and what it is going to record as imported, is in the object store already |
| `EngineContentProofs!PinnedAreImported` | `NothingToImport`, with a fixed roster | `PinnedInv`: the objects of the manifest an operation published or imported, and will pin, are in the object store, and so are those of what a push is about to publish |

The hypotheses are values of the constant `Budget`, and each is needed:
with one FullRekey allowed TLC violates `KeyConfined`, `GenerationNamesKey` and
`ImportedAreLocal` (the scenarios are in the next section), and with a
membership change `NothingToImport` (run `reissue_imports`).  The runs check
each property under the same hypothesis as its theorem, or a stronger one.

Stores:

| theorem | property | argument |
|---|---|---|
| `LocalFSProofs!TypeCorrect` | `TypeOK` | from `IInv` |
| `LocalFSProofs!SwapsBuildOnReads` | `SwapBuildsOnRead` | `IInv`: a reader expects no more than the version inside what it read (it reads the number first), versions inside a blob only grow, and blob and number agree while nobody swaps.  So a check that passes was passed on the blob that is there. |
| `LocalFSProofs!StoreImplementsPointers` | `ImplementsPointers` | initial states map to initial states; `WriteVersion` maps to `Swap`, and every other step to a stutter, by `IInv` |
| `HttpStoreProofs!TypeCorrect` | `TypeOK` | inductive as it stands |
| `HttpStoreProofs!RowsFollow` | `RowsFollowPointers` | `IInv`: a request in flight, and a push that is uploading, carry the successor of a row that is still there or was replaced (`Based`); versions in a row and in its content agree (`RowsOK`).  So a swap whose version matches names what it replaces. |
| `HttpStoreProofs!GenesisKept` | `NoClobber` | `OneRun`: without overlap at most one request of publish-genesis is in flight, and what it writes is absent until it is handled, since every other request needs a genesis that is there |
| `HttpStoreProofs!ListedAreStored` | `ListedPacksStored` | `MadeInv`: each content is made once, by one operation, and goes out in one request (`OneMaker`, `OneRequest`); it is committed when that request is handled.  A pack about to be deleted was committed and is no longer listed, and stays so: its upload is never sent again, and no offer lists it. |
| `HttpStoreProofs!AnswersAreTrue` | `AnswersTrue` | `MadeInv`: an offer that is not in flight and not committed never was handled, and a request is handled once |
| `HttpStoreProofs!ReportsAreTrue` | `ReportsTrue` | `RunInv`, next to `OneRun`: a run of publish-genesis goes on past the keyfile only while that is no other founder's, and as long as runs do not overlap nobody else puts one |

State file and clone directory:

| theorem | property | argument |
|---|---|---|
| `WorkspaceProofs!TypeCorrect` | `TypeOK` | `InodeFree`: there are more inodes than processes and state.json can hold, so `OpenTmp` always finds one |
| `WorkspaceProofs!StateAlwaysReadable` | `StateReadable` | `IInv`: without overlap at most one process is in the window of a Load and its Save (`Alone`), and the temporary file is that process's own (`FileOK`) |
| `WorkspaceProofs!StateIsKept` | `StateKept`, up to the first overlap | `SaveOK`: what that process is about to save covers what state.json holds, and nobody changes state.json meanwhile |
| `WorkspaceProofs!ClonesRetriable` | `CloneRetriable`: no death, no overlap, no directory made by the user, state file inside | `DirSeen`, `Retriable`: a running clone sees the directory as it left it, and cleans up; `PathInv`: where there is no clone's directory there is no state file |
| `WorkspaceProofs!ClonesRemoveOwn` | `RemovesOwn`, of directories | `DirInv`, `OpOK`: a clone that means to clean up saw no directory, and the user's own stays |

Server:

| theorem | property | argument |
|---|---|---|
| `AccountsProofs!TypeCorrect` | `TypeOK` | `TypeInv` adds that a request in progress has read every field its next statement uses (`FieldsSet`), and that a server which is about to print a bootstrap token has stored one |
| `AccountsProofs!AdminStaysAlone` | `OneEnabledAdmin` | `AdminInv`: there is at most one admin and at most one live bootstrap token, never both, and whoever is disabled exists and is no admin |
| `AccountsProofs!OnlyWritersWrite` | `WritersOnly` | `RoleInv`: a request past the role check belongs to a writer.  A writer never stops being one, because an invite binds a role only to the account it creates |
| `AccountsProofs!DisableEndsSessions` | `FreshLoginNeeded` | `FreshInv`: an account in `ended` has no session, and no login of its user is between its two statements; only such a login inserts one, and none begins without taking the account out of `ended` |
| `AccountsProofs!EveryAccountIsEarned` | `AccountsAreEarned` | `EarnedInv`, by counting: a redemption and the account it makes are one transaction (`FS_AddElement`) |
| `LoginThrottleProofs!TypeCorrect`, `SlotsAreReturned` | `TypeOK`, `SlotsReturned` | `ThrottleInv`: the failures of a key and the logins in progress, together, are at most the logins that arrived (`CountInv`), and the slots taken are those of logins in the password check |
| `LoginThrottleProofs!NeverLockedOut` | `NoLockout` | `WindowInv`: a window ends at most the backoff of its own count after now, and no backoff exceeds the ceiling |
| `LoginThrottleProofs!WindowsAreKept` | `WindowsKept` | a login prunes with the clock of its arrival, which is not after now |
| `LoginThrottleProofs!WindowsShrinkByDelay` | `WindowShrinksByDelay` | `WindowInv`, and the backoff of one more failure is not shorter |

The backoff is a recursive function, so what it computes has to be shown by
induction, and the induction theorems of the library take an operator.  Its
lemmas (`Backoff`: defined, monotone and at most the ceiling, for every number
of failures) go by least counterexample instead: a nonempty set of naturals has
a least member (`LeastNatural`, from the well-foundedness of < as a set of
pairs).

Each inductive step has one lemma or step per action.  The invariants were
checked by TLC on the runs' instances before they were proved.  The proof about
the directory store is of `Spec`; for `CrashSpec` the statement is false.

Only model-checked: `OperationsReturn`, which is liveness under fairness and
beyond the prover.

## Where the code and its documents differ

Each has a run whose counterexample is the scenario; `PROJECT.json` quotes the
lines.

* `keyfile_race`: PutKeyfile has no version.  AddMember commits its roster, a
  RemoveMember by another member runs to its end, and AddMember's keyfile then
  overwrites the new one with the old key and generation.  Every later operation
  is refused by `checkKeyfileGeneration`.
* `reissue_imports`: a membership change pins the manifest it re-issues without
  importing it; the member's next fetch does nothing.
* `localfs_crash`: a process that dies between the two writes of a swap leaves a
  blob under the version before it.
* `clone_file`: with a file at the path of a clone, `nonEmptyDir` is false
  because it cannot be listed, `dirExists` is false because it is no directory,
  `git init` fails, and the clean-up removes the file, against "We only ever
  remove a directory WE created" (clone.go:61).  The same goes for anything else
  at the path that is no directory.

Observed while modelling, and kept out of the passing runs' bounds or left to
the plan:

* FullRekey records the packs it re-encrypted as imported (membership.go:373).
  If the member had not fetched them, their objects are never indexed; the runs
  with a rekey do not check `ImportedAreLocal`.
* A session that a login inserts after disableAccount deleted the others works
  again once the account is enabled, against storage.go:367-368 ("The user must
  log in again for a fresh token").  `FreshLoginNeeded` therefore speaks of
  accounts that are disabled while no login of their user is in progress; one
  more thing it shows is that no other request has this effect.
* Two founders that run publish-genesis at once overwrite each other's keyfile,
  and the second CASRoster from 0 to 0 succeeds on the first one's genesis, so
  that keyfile and roster can be of different founders, against "it never blindly
  overwrites an existing remote genesis".  No property covers this: they speak of
  runs that begin alone.
* Two processes of one clone that save at once lose each other's keys and pins,
  and can leave a state.json that does not parse: both write into one temporary
  file, and one renames it while the other writes, against "Save writes the state
  atomically" (localstate.go:83).  No property covers this: they speak of runs
  up to the first overlap.
* Between RemoveMember's roster swap and its Load (membership.go:213-230) a
  second process of the clone may fetch twice, the second time after another
  member changed the roster again, and so pin a later roster.  RemoveMember then
  loads that state and pins its own roster over it: the pin goes back, although
  no Load fell between another one's Load and Save.  With this window left out of
  `overlapped` and four operations TLC finds it.
* A clone with `--state` outside the directory (clone.go:73-76) that fails after
  its Fetch was saved leaves that state file behind.  The clone that is tried
  again finds the manifest pinned, its Fetch returns with nothing to import
  (engine.go:479-486), and `pickBranch` finds no branch in the new directory.
* A clone that is killed, or that fails in an empty directory the user had made,
  leaves a directory the next clone refuses as not empty.  A clone that fails
  while another one into the same path succeeds removes that one's result.
* A process that dies between storing the bootstrap token and printing it
  (`EnsureBootstrap`, then `Kill`) leaves an instance that never prints one.
* A login that was in progress for long records its failure with the clock
  reading of its arrival, and so moves the end of a window back, by at most the
  time it took (`WindowShrinksByDelay`); with the default base of one second and
  up to two seconds of waiting for a slot that can reopen a short window.
* `GenerationNamesKey` and `KeyConfined` hold with additions and removals.  A
  FullRekey that a RemoveMember beats to the roster has written its keyfile
  before it learns of that, and does not take it back: the keyfile then has the
  generation of the new roster and another key, which `checkKeyfileGeneration`
  accepts.  In a repo without a manifest TLC carries this further: a rekeys while
  b removes a, a's keyfile replaces b's, and b's next AddMember takes it as
  current and publishes a roster under the key that a, now removed, made.  The run
  `membership` therefore has no rekey, and `rekey` does not check these properties.
* A first push that lands after a membership change which had no manifest to
  re-publish is bound to the old roster, and every reader refuses it.  No property
  covers this; `Engine` has the interleaving.
* A push that lands between the roster swap of a membership change and its
  re-publication makes the change fail with roster and keyfile already changed;
  `RosterChain` and `PinsCommitted` (run `membership`) say what still holds then.
* Push compares nothing with its pin, so a store restored from a backup is
  extended without notice, while Fetch would refuse it.
* A client that missed two roster or manifest versions can verify neither: only
  a direct successor of the pin is accepted.
* RemoveMember that dies between CASRoster and PutKeyfile leaves a roster under
  a key nobody has recorded.
* `handleCreateRepo` with an unknown founder leaves the repo behind; its retry
  is refused because the repo exists.

## Not modelled

| part | why |
|---|---|
| encodings (manifest, roster, JCS), cryptography, passwords | pure functions on bytes, tested against vectors; the models use what they guarantee |
| HTTP parsing, body limits, TLS, flags, logs, deployment | no state the properties are about |
| command line arguments, configuration files, login prompts | no state that two steps share; `config set` reads, merges and writes one file |
| rollback of the store to a backup | planned, below |
| blobs and keyfile of the directory store | one rename each; atomic as the interface says |
| git's object graph | commits are independent; thin packs and reachability are git's |

## Plan

Done, in this order: `Engine` (push and fetch, then membership and rekey) with
its runs; `EngineProofs`, `EngineRosterProofs`; `Accounts`; `PointerStore`,
`LocalFS`, `LocalFSProofs`; `LoginThrottle`; `HttpStore`, `HttpStoreProofs`;
`Workspace`, `WorkspaceProofs`; `PinsFollowChains`; then the proofs of what was
only model-checked: signers, keys and generations, `EngineContentProofs`,
`AccountsProofs`, `LoginThrottleProofs`, packs, answers and reports of
`HttpStoreProofs`; then fetches that fail half way, `EngineProgress`,
`ConflictsAreProgress`, `FreshLoginNeeded`, and clones into a path that holds a
file.

To extend the model:

1. Rollback of the store to a backup, as an action of `Engine` in a
   specification of its own: what Fetch refuses and Push does not notice.
2. An abstract repository (a sequence of ref maps) that `Engine` implements in
   the runs without rekeying.

To prove more: that abstract repository, for any clients (the engine's swaps of
the manifest pointer are its steps, by `CoverInv` and `TypeInv`); that `Engine`'s
pointers are those of `PointerStore`, which the stores are shown to implement;
whether `KeyConfined` holds with a FullRekey once there is a manifest, where a
beaten rekey leaves behind a manifest nobody accepts (`GenerationNamesKey` does
not; TLC finds no violation of `KeyConfined` with one operation of each kind).

## Running it

    tlc -workers 2 -config push_fetch.cfg MCEngine
    tlc -workers 2 -config rekey.cfg MCEngineProgress
    tlapm LocalFSProofs.tla

The runs take from a second to a few minutes each, and the proofs a few
minutes in all.
