# TLA+ models of scdt-server

This directory holds TLA+ models of the challenge sandbox broker `challd`
(`src/challd/src`) and of the archive service (`src/ctf_archive/src`) that
drives it, plus the TLC configurations that check them. Every module is written from the Rust source. The spec (`spec.md`) is
used only for the claims that the properties state.

## 1. Inventory

### Components and their state

| Component | Source | State it keeps | Operations |
|---|---|---|---|
| Address allocator | `address_manager.rs` | `MAX_INSTANCES` (6) `AtomicBool`s | `take_next_addr` (a `fetch_or(true)` scan from the lowest index), `relinquish_addr` (store `false`) |
| Request server | `main.rs` 101-219 | one untracked task per connection | accept; parse mode / guest code / name / ports, with early returns that write `MALFORMED` or `INVALID_PORT`; take a slot or answer `BUSY`; `tracker.spawn` the launch |
| Container handle | `container.rs` | `id`, `vpn_info {addr, bridge_addr}` | `create`: `ip addr add 10.4.2.a/32`, then create+start, then inspect and `iptables -A` DNAT. `shutdown`: stop (a 404 is tolerated), then `iptables -D`, then `ip addr del`. `shutdown_signal`: wait for "not-running". A `Drop` assert catches a handle dropped while still running |
| NAT plumbing | `container.rs` 63-65, 99-102 | host DNAT rules | append and delete the tuple (10.4.1.a → 10.4.2.0 ⇒ bridge IP) |
| Dummy link | `dummy_interface.rs` | kernel link `eth42` and its /32s | created at start-up; deleted (with every address on it) on `Drop` |
| Tunnel interface | `interface.rs` | WireGuard device `wg42` and its peers | `add_temp_peer` (`configure_peer`, then spawn the supervisor), `remove_peer`, device removal on `Drop` |
| Session supervisor | `interface.rs` 99-113, `demo.rs` | one task per session | `select!` over TTL sleep, token cancellation and container exit; then `remove_peer` (guest only), then the cleanup future (`shutdown`, then `relinquish_addr`) |
| Shutdown / drain | `main.rs` 220-234 | `CancellationToken`, `TaskTracker` | break on SIGINT/SIGTERM; `cancel`; `close`; `wait`; drop the listener; unlink the socket; return (the runtime drops the remaining tasks) |
| Wire protocol | `main.rs` 112-142, `ports.rs`, `ctf_archive/challd.rs` | none | the daemon's parser; the archive's encoder and its reading of the response |
| WireGuard config text | `wg_config.rs` | none | formatting |
| Guest codes | `ctf_archive/codes.rs`, `guest.rs` | `Mutex<HashSet<GuestCode>>` and one expiry task per insert | `insert_temp`, `remove` (redeem), `wipe` |
| Auth / JWT, CRUD | `ctf_archive/auth.rs`, `jwt.rs`, `ctfs.rs`, `categories.rs`, `challenges.rs` | the SQL database and keys | signature checks, token issuance, CRUD |

### How the components interact

1. A connection task parses the request.
2. For a guest request, it takes a slot from the allocator. This is shared memory, and the task holds no lock.
3. It spawns a tracked launch task. The launch task runs `Container::create`, which touches the dummy link, docker and iptables.
4. The launch task then calls `add_temp_peer` (guest) or `spawn_demo` (demo). This spawns the supervisor, and the launch task awaits it.
5. The supervisor waits on three futures: the TTL, the process-wide token, and the container's not-running stream.
6. It then runs the teardown chain: `remove_peer`, then `stop`, then `iptables -D`, then `ip addr del`, then `relinquish_addr`.
7. Every step that involves the kernel or docker is an `await`. Tasks run on a multi-threaded runtime, so the steps of different connections interleave freely.

### What is hard

- **Interleaving.** Connection tasks race each other on the allocator. They also race the shutdown path, and the connection tasks are not tracked.
- **Ordering.** The slot must be released only after everything that names it is gone. Otherwise the next tenant of that slot inherits a stale DNAT rule, which points at someone else's container.
- **Partial failure.** Every failure is an `unwrap` or `assert!` inside a spawned task. Tokio contains such a panic, so the daemon keeps running. Whatever the dead task held at that point leaks.
- **Environment races.** A workload can exit at any moment, including before `inspect_container`.
- **Restart.** iptables rules and containers outlive the process; the slot allocator does not. Whatever a lifetime leaves behind meets the next lifetime's tenants.
- **Liveness.** A session must end even when nobody signals and the workload never exits. A signal must always lead to process exit.

The full list of hazards, each at its line, is under `hazards` in `PROJECT.json`.

### What makes each component correct

- **Allocator:** no slot is held by two callers, and None means every slot was full.
- **Session lifecycle:** every kernel object that carries slot a (peer, DNAT rule, /32) belongs to the one live owner of a. The commands guarded by `assert!` meet states in which they succeed. A slot is used exactly while a live launch holds it. Every session ends.
- **Drain and restart:** after SIGTERM, nothing the daemon created outlives it, so a restarted daemon, whose allocator starts empty, hands no tenant a slot that still carries a rule.

## 2. Plan

Modules, most important first:

1. **`Daemon`** (done). The request server, launch task, supervisor, teardown and drain, with the kernel and docker as shared variables.
2. **`AddressManager`** (done). The lock-free scan, one step per `fetch_or`, racing `relinquish_addr`. An abstract atomic allocator that it refined was dropped: each winning `fetch_or` mapped one-to-one to the abstract take, so the refinement held by construction.
3. **`Daemon` faults, second round** (done): `stop_container` failing with an error other than 404 (`container.rs:94`), and `configure_peer` / `remove_peer` returning `Err` (`interface.rs:93, 106`), which panics the task with a running `Container`.
3b. **`SessionBroker`** (dropped). A broker of leases and routes that `Daemon` refined. Each daemon step mapped to a broker step under `KernelStateOwned` and `SlotAccounted`, so the refinement said nothing those two invariants do not.
4. **`Protocol`** (done). The archive's encoder (`ctf_archive/challd.rs`) as operators and the daemon's parser (`main.rs`, `ports.rs`) as actions over the bytes, with the u8 length fields kept mod 256.
5. **`GuestCodes`** (done). `InMemorySet::insert_temp` expiry tasks racing `wipe`, re-insert and `redeem_code`.
6. **`Archive`** (done). Admin login, guest invites, the table writes and the launch endpoints `start` / `host_demo`, on top of `GuestCodes`.
7. **`System`** (not built). The archive's side of a launch is one write and one read (`challd.rs:73-89`), and its HTTP outcome is a function of `Daemon`'s `answer`: `ok` gives 200, `err` and `eof` give 500. The archive keeps no state that depends on that outcome. A product of `Archive` and `Daemon` would therefore multiply two state spaces without a property that the parts do not already state. The parts are: `Protocol` for the bytes between them, `RequestsAnswered` for the read returning, and `GuestLaunchRedeemed` / `DemoLaunchAuthorized` for what is sent.
8. **Response writer** (done): the status byte or end of file each client gets, and its race with the supervisor, in `Daemon` (`answer`, `WriteResponse`).
9. **Restart** (done): `Restart` and `RestartSpec` in `Daemon`, the operator starting `challd` again (spec §7) with the last lifetime's iptables rules and containers still installed.

## 3. Modules

### `Daemon.tla`, the core

Each connection `c ∈ Conns` is one process. Its `pc` walks the awaits of the code:

`idle → reading → (done | addDummy → create → nat → spawnSup → waiting → removePeer → stop → natDel → addrDel → release → done)`

A demo launch skips the slot, NAT and peer steps. A task that panics goes to `crashed`.

| Variable | Code |
|---|---|
| `dstate` | `main()`: running, draining (after cancel/close), exiting (`tracker.wait()` returned, runtime still alive), exited (runtime dropped) |
| `used` | `AddressManager.used_addresses` |
| `mode`, `addr` | `Mode`, `maybe_addr` of the connection task |
| `ctr` | the docker container created for `c` (none / running / gone) |
| `dummy` | 10.4.2.a/32 addresses on `eth42` |
| `nat` | DNAT rules `<<a, c>>`: source 10.4.1.a, target `c`'s bridge IP |
| `peers` | WireGuard peers `<<a, c>>`: `c`'s key, allowed ip 10.4.1.a |
| `answer` | what the client of `c` has been told: nothing, an error status byte (`handle_error!`), the writer task pending, the whole OK response, or end of file (the stream dropped with a panicked task or with the runtime) |

There is one action per await-delimited step, named after the code: `Accept`, `Reject`, `TakeAddr`, `Busy`, `StartDemo`, `AddDummyAddr`, `CreateContainer`, `InstallNat`, `AddTempPeer`, `SpawnDemo`, the three `select!` arms `TtlExpires` / `Cancelled` / `ShutdownSignal`, `RemovePeer`, `StopContainer`, `DeleteNat`, `DeleteDummyAddr`, `Relinquish`, `WriteResponse` (the untracked writer task of `main.rs:198-212`), `Signal`, `DrainComplete` and `ProcessExit`. `Restart` is `main()` starting again after an exit: fresh `eth42`, `wg42` and allocator, the rules and containers of the last lifetime still in place. It is only in `RestartSpec` (`Next \/ Restart`), which the restart run checks; the other runs check one lifetime.

- `ProcessExit` empties `dummy` and `peers`, because the `Drop`s of `DummyInterface` and `Interface` delete the link and the device. It leaves `nat` and running containers in place. Every task still holding a client stream drops it, so that client reads end of file.
- The writer's three writes are one step. Only the runtime being dropped can cut the task off between them, and by then every session has been torn down, so the archive's outcome (HTTP 500) is the same either way.
- `ContainerExits` is the workload stopping on its own.
- The constant `Faults` switches on the environment failures:
  - `createFails` (→ `CreateFails`);
  - `earlyExit` (the workload may exit before inspect → `InspectFails`);
  - `stopFails` (→ `StopFails`: `stop_container` answers an error other than 404, which is logged, and the teardown goes on with the container still running);
  - `wgFails` (→ `ConfigurePeerFails`, `RemovePeerFails`: the `.unwrap()` on the WireGuard call panics the task, with the container running and the NAT rule and /32 installed).

Abstractions:
- The parse is reduced to its outcome (reject / guest / demo). Status bytes and log lines are left out.
- Keys and bridge IPs are identified with the connection.
- The take is one atomic step returning the lowest free slot. In the code the scan can return a higher slot, or a spurious None (`AddressManager`); no `Daemon` property depends on which slot is taken.

### `AddressManager.tla`

In `AddressManager`, each process is a caller that takes a slot and later relinquishes it, repeatedly. The variables are `used`, `pc`, `idx` (the flag the scan examines next) and `held`. The actions are:
- `BeginTake`;
- `FetchOrWins` (a `fetch_or` returning false);
- `FetchOrLoses` (advance to the next flag);
- `ScanExhausted` (None);
- `RelinquishAddr`.

The history variable `fullSeen` records whether every slot was in use at some state during the current scan.

All accesses are RMWs or stores to single flags. The model uses interleaving semantics, which is sequentially consistent. The code's `Relaxed` ordering only adds reorderings across different flags.

### `Protocol.tla`, the request on the wire

`Encode(r)` is `start_container`'s message: mode id, the guest code as 4 little-endian bytes (guest only), `len as u8`, the name's UTF-8 bytes, `len as u8` of the port list, then 5 bytes per entry (from and to little-endian, type id). `Requests` are the requests `start` and `host_demo` can build from a challenge row: a name of `k` copies of one character (one or two UTF-8 bytes) and `n` identical entries.

The parser's state is `pos` (bytes consumed), `stage` (the field read next, or the outcome: ok, malformed, invalid_port, hang) and `got` (the fields parsed so far). One action per `read_*` call of the connection task: `ReadMode`, `ReadGuestCode`, `ReadNameLen`, `ReadName` (with the UTF-8 check), `ReadPortCount` (rejects `>= 10`), `ReadPort` (rejects an unknown type). `Starve` is a read that finds too few bytes: with the write half open it blocks for ever (`hang`); at EOF it takes the `handle_error!` path, which `PortMappings::read`'s `.ok()?` turns into `INVALID_PORT`.

The client (`client`, `sent`, `open`) is the archive (whole message, write half kept open, as `start_container` does), another local client that stops part-way and closes, or one that sends a bad mode or port type and closes.

### `GuestCodes.tla`, the invite set

`codes` is the `InMemorySet`; `timers` the pending `insert_temp` tasks, a queue because every task sleeps the same 30 minutes; `userJwts` the codes with an unexpired user token. Actions: `GenerateCode`, `TimerFires`, `WipeCodes`, `RedeemCode`, `UserJwtExpires`; each is one critical section of the mutex. Ghost state: `issued` and `redeemed` per code, and a `live` flag on each timer, true while its issuance was neither redeemed nor wiped.

### `Archive.tla`, the HTTP handlers

`Archive` extends `GuestCodes`. Its state is the two admin keys and their rights (`KeyPerms`: key 0 everything, key 1 only invites), the challenge and admin tokens, the `ctfs` / `categories` / `challenges` tables as sequences of rows (the row id is the position), the requests sent to the daemon (`launches`) and the last response (`resp`). One action per handler: `InitiateChallenge`, `FinishChallenge`, `GenerateCodeReq`, `WipeCodesReq`, `RedeemCodeReq`, `CreateCtf`, `CreateCategory`, `CreateChallenge`, `ConfigureDocker`, `SetConnectionInstructions`, `SetArchive`, `GetMetadata`, the read-only `ListCtfs`, `GetCategories`, `ListChallenges`, `GetArchive` and `GetFlag`, `Start` and `HostDemo`, plus token expiry. Each action takes the handler's early returns in the code's order (extractor, permission, input, database error arm) and sets the status the handler answers.

Abstractions:
- A signature is the key that made it; `NotAKey` is a token that does not decode.
- The database constraints the error arms rely on (unique names, foreign keys, unique image, fewer than `DbPortLimit` ports) are assumed: the migrations are not in the repository.
- The daemon's answer to a launch is OK or an error (HTTP 500); its bytes are `Protocol`'s concern.
- The rows of the three tables are records over the `schema.rs` columns that a handler reads or writes (`CtfRows`, `CategoryRows`, `ChallengeRows`). `create_challenge` stores the query's optional connection instructions as present or absent.
- A launch records, as ghost state, the key that signed the caller's login (`NotAKey` for a guest).
- `CategoryType`'s three hand-written tables are translated as they are: the variants, `as_str` (`AsStr`) and `parse` (`ParseTable`, with "None" for any other text). `categories::create` stores `AsStr[t]`. `categories::get` parses every row of the CTF and drops the connection (status 0) if one fails its `expect`.
- A date is `<<year, month, day>>`, and `FromYmdOpt` is chrono's check (months, month lengths, the Gregorian leap rule). `ctfs::create` unwraps the conversion before the insert, so an impossible date such as 29 February 2023 drops the connection (status 0) after the permission check.
- A read handler's response is its handler and status. The bodies are data that no property tells apart.

## 4. Runs

| Run | Config | Expect | What it shows |
|---|---|---|---|
| `daemon_safety` | `MCDaemon.cfg` | pass | With every fault on: tenants stay isolated (`KernelStateOwned`); a slot is in use exactly when a live task or a panicked one holds it (`SlotAccounted`); no asserted command meets a conflicting state (`KernelCommandsSucceed`); `TypeOK` |
| `daemon_slot_leak` | `MCDaemonSlotLeak.cfg` | violation | `SlotOwnership`: a failed `docker create` leaks the slot and the /32 for good |
| `daemon_stale_config` | `MCDaemonStaleConfig.cfg` | violation | `ResponseBeforeTeardown`: the untracked writer task sends `RESULT_OK` (and a guest's config) after the supervisor started alongside it has begun the teardown, although spec §5 orders response-sent before teardown |
| `daemon_restart_stale_rule` | `MCDaemonRestart.cfg` | violation | `TenantIsolated`, under `RestartSpec`: a request that finishes reading after `tracker.wait()` returned installs a DNAT rule (and starts a container) that outlives the daemon. Once the operator restarts `challd`, the next guest gets the same slot, and the stale rule, which iptables matches first, sends that tenant's traffic to the previous tenant's container |
| `daemon_liveness` | `MCDaemonLive.cfg` | pass | Under `FairSpec`, with create failures and early exits: `SessionsEnd`, `ShutdownCompletes`, `ContainersStopped` (every running container is eventually stopped, or the daemon has exited), and `RequestsAnswered` (every request gets a status byte or end of file, so the archive's `read_u8`, which has no timeout, returns) |
| `daemon_stop_fails` | `MCDaemonStopFails.cfg` | violation | `ContainersStopped`: a demo whose `stop_container` fails finishes its teardown with the container running, for good, although `container.rs:82` and spec §10 say it is stopped |
| `allocator_scan` | `MCAddressManager.cfg` | pass | `TypeOK`: concurrent scans and relinquishes only touch flags inside the array |
| `allocator_busy` | `MCAddressManagerBusy.cfg` | violation | `BusyOnlyWhenFull`: None is returned although a slot was free at every instant of the call |
| `protocol_roundtrip` | `MCProtocol.cfg` | pass | Every request the archive encodes is parsed into exactly what was asked (`LaunchesWhatWasAsked`); 9 ports are accepted and 10 rejected (`WellFormedAccepted`, `TooManyPortsRejected`); truncated and corrupt requests are never launched |
| `guest_codes` | `MCGuestCodes.cfg` | pass | A code in the set always has its expiry pending (`ExpiryScheduled`), is redeemed at most once per generation (`SingleUse`), and eventually leaves the set (`CodesExpire`) |
| `guest_code_collision` | `MCGuestCodesTerm.cfg` | violation | `CodeLivesFullTerm`: a value generated twice is removed by the first generation's task, before the second's 30 minutes |
| `archive_authz` | `MCArchive.cfg` | pass | No step writes the ctfs, categories or challenges tables unless a caller signed a login with a key allowed that write: `can_docker` for the docker columns, `can_create` for the rest (`AdminWritesAuthorized`, an action property spanning login and handler), every demo launch comes from a caller whose login was signed by a key allowed to host demos (`DemoLaunchAuthorized`, spanning `finish_challenge` and `host_demo`), guest launches need a redeemed code (`GuestLaunchRedeemed`), and rows reference existing parents (`ArchiveTypeOK`) |

Each property of a passing run has a mutant in `PROJECT.json`. The mutant replaces one definition with a plausible slip in the code, and TLC must then find the property violated:
- releasing the slot at stop time, before the NAT and /32 removal;
- a stop that stops only guest containers;
- a response writer spawned only when there is a config, so a demo client never gets its status byte;
- `relinquish_addr` without the store;
- `ip addr del` given the index instead of the address;
- a `select!` without the sleep arm;
- a stop that waits for the workload instead of stopping it;
- a scan whose loop bound runs one flag past the array;
- a port-count bound of `> 10` or `>= 9`, ports read big-endian;
- an expiry task that removes nothing, a redeem that checks `contains` and never removes;
- a category created without its foreign key, a login that accepts any key's signature, `host_demo` without the permission check, `start` without the user token.

### Bounds

**Daemon runs.** Three connections and `N = 2` slots. This is the smallest setting where all of the following happen:
- a guest is answered `BUSY`;
- a slot is reused by a later tenant while the earlier tenant's teardown is in progress;
- a launch races the shutdown.

Every connection is used at most once, so the state space is finite: about 235k distinct states for safety with all four faults. The liveness run uses two connections and one slot (about 5k states). That still reaches `BUSY`, reuse of the slot by the second tenant, and a launch racing the shutdown. The writer's race with the supervisor multiplies the three-connection liveness graph past the time one run may take. Connections are symmetric: nothing in the daemon orders them. The restart run uses the safety instance without faults. Restarts are not bounded, but every connection is used once, so the state space is finite; one restart and two guests are enough for a rule to be inherited.

**Allocator runs.** Three callers and two slots. This is the smallest setting where a scan can be overtaken both by a relinquish behind it and by a take ahead of it. Callers loop forever, and the state space is finite.

**Protocol runs.** Codes 0 and `0x01020304` (distinct bytes, so a swapped order shows); names of 0, 1 and 63 characters (63 is the column's width) of `a` or `é`; 0, 1, 9 and 10 ports, i.e. both sides of the bound. A request is parsed once, so the state space is finite (about 47k states).

**GuestCodes run.** Two code values (symmetric), each generated at most twice (`MaxIssued = 2`): enough for a value to be generated again while its first timer is pending.

**Archive run.** The bounds are:
- one code, one name, two images;
- port counts 1 and 10 (the bound of the assumed CHECK);
- at most one row per table and one launch;
- the category type `Stegonography` (the round trip of all seven is checked as operators);
- the dates 2024-02-29 and 2023-02-29, one valid and one not, differing only in the leap rule.

One name already reaches every conflict arm, and two keys reach every permission arm. About 421k states in about two and a half minutes.

### Fairness

`FairSpec` assumes weak fairness of every task step. Where an await can fail (create, inspect, `configure_peer`, `remove_peer`, stop), the fair step is the await itself: the runtime polls it to completion, and success or failure is the environment's choice. The response writer is a spawned task and is fair. The parse of an accepted connection is fair because its client is the archive, which writes the whole request before reading (`challd.rs:73-75`). `Protocol` shows that every request the archive encodes is parsed to an outcome; a hang would break `WellFormedAccepted` or `TooManyPortsRejected`. Only a client that keeps its write half open and sends too few bytes could make the parse wait, and the archive never sends too few. Tokio polls every ready task, and each step is a kernel or docker call that returns. The TTL arm is weakly fair, because the sleep completes. The following carry no fairness, because the code does not control them:
- the clients (accepting, sending the request bytes);
- the operator (signals);
- the workload (exiting).

`CodeSpec` assumes weak fairness of `TimerFires` only: a tokio sleep completes. Requests are clients' choices and carry none. `Archive` checks safety only and has no fairness.

`CHECK_DEADLOCK FALSE` is set on the Daemon runs and on the Protocol runs (a parse stops at its outcome). The only terminal state is the one after `main()` has returned, where the process really stops.

## 5. Not modelled

- The WireGuard config text (`wg_config.rs`): formatting only. The response writer is modelled by what it tells the client, not by its bytes.
- Per-user launch limits: neither the spec nor the code has one.
- Dates, binary archives and the OpenAPI types: data that no property tells apart.
- Keypair generation and the JWT signature scheme: treated as a black box.
- The bind-before-chmod permission race (`main.rs:76-85`). It concerns local users and file modes, which are outside the model.

## 6. Observations without a run

These were met while translating the code. Each is either reached directly by a unit test or unreachable through the code's own callers, so no run or hazard is spent on them:

- `configure_docker`, `set_connection_instructions` and `set_archive` answer 200 for a challenge id that does not exist (`challenges.rs:377`, `473`, `590`). `diesel::update(..).execute()` returns `Ok(0)` there and never `NotFound`, yet the documentation promises 404. `Archive` models the 200.
- `challd.rs:62` encodes the port count as `ports.len() as u8`, which wraps for 256 or more ports and would make the daemon parse a truncated list. `configure_docker` refuses more than 10 ports (`challenges.rs:335`, `374-376`) before any row reaches `host_demo` or `host_guest`, so the archive never sends such a count; `Protocol` encodes with the `Archive` bound.
- `ctfs::create` answers an impossible date (month 13, 29 February of a common year) by panicking in `try_into().unwrap()` (`ctfs.rs:91-92`). The client gets no status, although the documentation lists 201/403/409. `CreateCtf` models the dropped connection; a unit test reaches it directly.
- `get_metadata` sets `category_id: query.challenge_id` (`challenges.rs:117`). `GetMetadata` records the challenge id as the reported category.
- `start`'s second assert (`challenges.rs:280`) counts `map(Option::is_some)` with `count()`, which counts every element, so it only repeats the length check. A row with NULL ports at different positions would pair a port number with another port's protocol. The API never writes such a row, and the model keeps the port list well formed.
- `relinquish_addr`'s assert (`address_manager.rs:32`) admits `MAX_INSTANCES + 1`, one past the array, so that value would index out of bounds instead of failing the assert. Its only caller hands back an address `take_next_addr` returned, which is always in `1..MAX_INSTANCES`; `Daemon`'s `TypeOK` keeps `addr` there.
