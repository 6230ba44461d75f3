# outline-fedora: a verification project

TLA+ models of outline-fedora, a VPN client for Linux: a root daemon (`oufdee`) that
changes the network configuration of a host while a tunnel is up, and a shell script
(`ouf-panic`) that must be able to undo those changes at any moment, whatever has died
in between. TLC checks the models on small instances, TLAPS proves their main
safety properties for every instance.

## 1. The system

| Part | State it keeps | Operations | Interacts with |
|---|---|---|---|
| `internal/tun` (`Session`) | the TUN descriptor, the lwIP device, a snapshot writer | `Start`, `Close`, `cleanupOnFailure` | kernel (sysctl, interface, routes, rules), `/etc/resolv.conf`, `internal/snapshot`; runs `ouf-panic` as a child |
| `internal/snapshot` (`Writer`) | pre-state, actions, done flags in memory; `snapshot.json` and `backup/resolv.conf` on disk | `New`, `Record*`, `AppendAction`, `MarkLastDone`, `Persist` | written by a session, read by the script |
| `scripts/ouf-panic` | shell variables (`FAILED`, loop counters) | revert sysctls, rules, routes, TUN, resolv.conf; retire the snapshot | reads `snapshot.json` and the backup; started by a session, by `doUndo`, by systemd or by a user |
| `cmd/oufdee` (`Server`) | the current session and the name of its key | `connect`, `disconnect`, `undo`, `status`, key commands; shutdown on a signal | sessions, keystore; one goroutine per client |
| `systemd/oufdee.service` | - | `ExecStopPost` after any exit, no restart | starts `oufdee` and `ouf-panic` |
| `internal/keystore` (`Store`) | keys and `Active` in memory; `keys.json` | `Open`, `Add`, `Remove`, `Rename`, `Use`, `MarkConnected` | called by the server |
| `cmd/ouf` | none | one request per command; `undo` falls back to the script | socket; `ouf-panic` |
| `internal/rpc`, `internal/sstransport`, packet pumps | none | encoding, dialing, copying | - |

What is hard here:

- **Crashes in the middle of a sequence.** `Start` makes about a dozen host changes, each
  bracketed by writes of the snapshot; the process, the script or the machine may die
  between any two of them, and the revert itself is a sequence of some ten commands.
- **Partial failure.** Every command of the script and every call of `Start` may fail on its
  own; the snapshot may be removed only if nothing is left to undo.
- **Order.** The catchall rule without the bypass of the Shadowsocks server is a tunnel
  loop; installing and removing must both avoid it.
- **Repetition.** Failed reverts are retried by other actors (the daemon, systemd, the user),
  and connects are attempted over what they left behind.
- **Rollback.** The keystore changes memory first and writes the file second.
- **Concurrency.** Each client has a goroutine, and `Server.mu` is not held during `Start` and
  `Close`; scripts of two actors may overlap, and each of them reads `snapshot.json` again for every
  value it needs.

`PROJECT.json` lists each of these as hazards, at the lines where they bite, with the properties
that cover them.

## 2. Modules

| Module | Models |
|---|---|
| `Host` | host state, the snapshot file, the fixed plan of a session's actions, kernel operations |
| `OufPanic` | `scripts/ouf-panic`, one action per command, for several runners |
| `Session` | `tun.Session`: `Start` one action per call, its error returns, `Close`, `cleanupOnFailure` |
| `Lifecycle` | composes these with the daemon, systemd, the user, crashes and reboots; specification and properties |
| `Transaction` | the abstract specification: an undo transaction on the host |
| `LifecycleInv` | the inductive invariants of `Lifecycle`: `IndInv` and, on top of it, `ProgressInv` |
| `LifecycleProof`, `ProgressProof` | their proofs, and the theorems that follow |
| `TransactionProof` | that `Lifecycle` implements `Transaction` |
| `Keystore` | `internal/keystore`: specification and properties |
| `KeystoreProof` | the theorems about it |
| `Server` | `oufdee` with its concurrent handlers: composes `Lifecycle` and `Keystore` |
| `ServerInv` | its inductive invariants: owners, requests and keys, one connect at a time |
| `ServerProof` | the theorems that hold for any overlap of connects, disconnects and undos |
| `ServerSerialProof` | the theorems for clients that connect one at a time and undo alone, and that `Server` implements `Lifecycle` and `Transaction` |
| `PowerLoss` | `Lifecycle` on a disk whose directories lag behind, and loss of power |
| `PowerLossInv`, `PowerLossProof` | the invariant that failing soft deletions and power losses leave, and its theorems |
| `KeyNames` | `normalize` and `deriveName` as operators, and the names a store accumulates |
| `Validation` | `ApplyDefaults` and `Validate` against the checks of `ouf-panic` |
| `InputsProof` | the theorems about `KeyNames` and `Validation` |
| `Claims`, `ServerClaims` | statements of the docs and comments that the code does not keep |
| `MCLifecycle`, `MCKeystore`, `MCServer`, `MCPowerLoss`, `MCInputs` | the modules TLC runs |

`Host` <- `OufPanic` <- `Session` <- `Lifecycle` <- `LifecycleInv` <- `LifecycleProof` by EXTENDS.
`Server` extends `Lifecycle` and `Keystore`; `PowerLoss` extends `Lifecycle`; `MCInputs` extends
`KeyNames` and `Validation`. The proofs extend each other along the same lines: `ProgressProof`,
`TransactionProof` and `PowerLossProof` build on `LifecycleProof`, `ServerSerialProof` on
`ProgressProof`, `TransactionProof` and `ServerProof`, and `InputsProof` extends `KeyNames` and
`Validation`. `Lifecycle` instantiates `Transaction`, and `Server` instantiates `Lifecycle`: the
daemon implements the serial lifecycle, and that implements the undo transaction.

### How state and actions correspond to the code

*The plan.* `installRouting` and `Start` append actions in an order that never varies:
sysctl_set, tun_create, resolv_write, two routes, `NumBypasses` bypass rules, the catchall.
So the `actions` of a snapshot are a prefix of this plan, represented by its length, and the
Done flags are a set of positions. `Prio(a)` is the priority of the rule of action `a`.

*The snapshot.* `snapshot` is the file, `writer[s]` the copy in the memory of session `s`. `Persist`
replaces the file in one step, as its rename does. `resolv_conf.text` of a regular file stands for
`sha256_before`: comparing it with `backup` is the hash check. `BadBackup` is a backup that is
missing or torn.

*Host.* `tun` is the owner of the interface with our name: a session (its descriptor is
open), nobody, or `ForeignTun`. The interface is not persistent, so closing the descriptor or the
death of the process removes it with its routes. `rules` is the set of priorities of our rules;
`resolv` carries kind, text and mode.

*Session.* `pc[s]` names the next call. Every action is one call that changes the host or the
snapshot; `StartFails` is the error return of the call that is next, which leads to a plain return
before the first `Persist` and to `cleanupOnFailure` after it. Of the rules, the kernel refuses an
identical one (`Refusable`): a bypass depends on its priority and on the address it is for, which
may be another one for the first bypass, the Shadowsocks server's. So a first bypass may be added
beside one that was left behind.

*Script.* `script[r]` is the next command of runner `r` or its exit code. `SetFailed` is `FAILED=1`.
The script reads `snapshot.json` again for each value (`json_get`), and another run may remove the
file in between. So the test for the file (`Check`), its parsing (`Parse`), the reads of the sysctl,
of the number of rules and of what resolv.conf was (`ReadExisted`, `ReadKind`, `ReadDetail`) and the
commands that use them are steps of their own; `want[r]` holds what has been read, empty values
included, and `NoTarget` is the `die` on an empty symlink target, after resolv.conf has been
removed. Reads in a row whose empty values lead to the same end are one step. `DeleteRule` reads a
priority and deletes that rule in one step, because the priority of the i-th recorded rule is the
same in every snapshot. Commands wrapped in `soft_run` fail silently, if `SoftDeletesFail` says they
may. `Killed` and `Die` may end it early.

*Lifecycle.* `original` and `meddled` are history variables: the host as the administrator last left
it, and whether a script was run by hand under a live session. `Terminate` is SIGTERM: handlers in
flight go on (`"signalled"`) until the last has returned (`Drained`). The unit sets no `KillMode`,
so that `systemctl stop` signals the scripts of the daemon as well: `Terminate` may kill all of them
(`KillScripts`), which is no failure and is not counted as one. `Crash` kills the daemon with the
scripts it started (they are in its control group). `Reboot` clears processes and kernel state and
gives the sysctl its configured value. `AdminEdit` happens only while we own nothing.

*Keystore.* An operation is one step: the store's mutex is held to the end of `persist`, and
`persist` replaces the file by a rename. `Commit` is the common tail: success; or a failed write and
the operation's own rollback; or a process that dies when the file has been renamed and nothing has
been answered. `acked` and `doubt` are history variables: what clients were told is stored, and the
keys of operations without an answer, until a later operation on the same key has one. Timestamps
and labels are left out, and so is the order of the list (`List` sorts by time).

*Server.* Every connection `c` is a goroutine with its next step `at[c]`, its request `req[c]` (into
which the handler puts the name and URL it has read), its local session `held[c]` and its
response `resp[c]`. A section under `Server.mu` or under the keystore's mutex is one step; between
two of them anything may happen, because neither is held over `Start` and `Close`. A rename to the same
name is answered with success and changes no key. `Take`
is the section that moves the session from `Server.session` to a local variable in
`doConnect`, `doDisconnect` and `doUndo`; `Publish` is the opposite one at the end of `doConnect`. `via[s]`
is the URL in the configuration of session `s`, to compare with the key that `sessKey` names. The
steps of sessions and scripts are those of `Lifecycle`, with nothing that keeps them apart:
several `Start`s, `Close`s and runs of `ouf-panic` interleave command by command. `SigTerm` stops
the accept loop, `ShutdownTakes` waits for the handlers (`wg.Wait`) and closes the session,
`ServerExit` ends the process. `FallbackStarts` is `ouf undo` that got no answer in 30 s, or an error, or
no daemon, and runs the script itself; the daemon's handler goes on. `doStatus` answers "dirty" when
it finds a snapshot and no session.

*Server as Lifecycle.* `ImplementsLifecycle` maps every variable to itself, except that a daemon
which was signalled and still has handlers is `"signalled"`, not `"stopping"`: what those handlers
do is what clients asked for before, and the end of the last one is `Drained`. A connect to another
key is a `Disconnect` followed by a `Connect` there.

*Power loss.* `stateDir` and `etcDir` are the two directories as they are on the disk. Every step of
`Lifecycle` changes what processes see; `WriteBack` brings the disk up to date, and `LosePower` is
a `Reboot` that brings back the disk. With `OneJournal` both directories are written together:
that is what one journal for `/etc` and `/var/lib` gives (renames reach the disk in order). The
contents of files are taken to be on the disk when their names are.

*Names.* A label is a sequence of characters of three kinds (letters that are lowered, separators
that stay, others); `PutRune` is the loop body of `normalize`, `PutRunes` the loop (a recursive
function on the number of characters read), and `DeriveName` the search for a free name among the label's
own and those with a suffix, `Decimal` of up to four digits: a `base-i` that is too long gives way to `key-i`
(`Candidate`). `names` grows and shrinks as keys with derived and suggested names come and go.

*Validation.* An interface name is what the two checks know of it: its length, and whether it is `lo`
or matches one of the script's patterns. A session passes `New`, records its marks, and
some `ouf-panic` reads them.

## 3. Properties and runs

| Run | Checks | States |
|---|---|---|
| `lifecycle` | `TypeOK`, `AlwaysRevertible`, `NoTunnelLoop`, `UpMeansTunnelled`, `DoneTellsApplied`, `IndInv`, `ProgressInv`, `ImplementsTransaction` | 825,972 |
| `liveness` | `StopReverts`, `StartReturns`, `CloseReverts` | 217,990 |
| `keystore` | `KeyTypeOK`, `AckedIsDurable`, `FileWellFormed`, `ActiveStoredUnlessFault` | 61,256 |
| `power_loss` | `RevertibleExceptSoftDeletes`, `PowerInv` | 698,280 |
| `server` | `AllTypeOK`, `OkInv`, `OkMeansReverted`, `ImplementsLifecycle`, `StopUnderLoad` | 194,618 |
| `server_keys` | `ConnectedKeyStored`, `KeyedInv` | 798,256 |
| `server_answers` | `OneOwner`, `PublishedIsUp`, `OwnerInv`, `EveryRequestAnswered` | 137,196 |
| `server_pair` | `AlwaysRevertible`, `ConnectedMeansTunnelled`, `OneCommandInv` | 1,137,577 |
| `server_overlap` | `QuietIsClean`, `UndoConverges` | 237,879 |
| `inputs` | `DerivedNameIsUsable`, `NameTellsLabel`, `NumbersInLockstep`, `ZeroValuesAreSafe` | 6,049 |

- **AlwaysRevertible** - in every state, one undisturbed run of `ouf-panic` would restore the host
  (IPv6, interface, routes, rules, kind and content of resolv.conf).
- **ImplementsTransaction** - `Lifecycle` implements `Transaction`: the host changes only
  under a snapshot that was taken of the untouched host, and the snapshot goes only when the host
  is what it says. This ties the prediction in `AlwaysRevertible` to what the commands of the
  script really do.
- **NoTunnelLoop** - the catchall never exists without all the bypasses.
- **UpMeansTunnelled** - a session that is up has every change in place, until it is closed or
  someone runs the script by hand.
- **DoneTellsApplied** - while a session starts, a Done flag on disk means the effect is there,
  and of the rest only the announced action may have happened. *The second half does not hold of the first two
  actions*, the sysctl and the TUN, and leaves them out: they are logged after the fact (`ClaimRecorded`).
- **IndInv, ProgressInv, OwnerInv, KeyedInv, OneCommandInv, OkInv, PowerInv** - the inductive
  invariants of section 5, checked before they were proved.
- **RevertibleExceptSoftDeletes** - if deletions may fail silently, rules may stay behind, and a
  resolv.conf where there was none; everything else is still restored, also by the snapshot,
  the backup and the resolv.conf that a power loss leaves. `MCSoftDeletes.cfg` (module
  `MCLifecycle`, 1,350,006 states) checks it without power losses, but with edits by the
  administrator, two bypasses and every kind of host.
- **StopReverts, StartReturns, CloseReverts** - stopping the service ends with a reverted host,
  `Start` returns, `Close` returns success over a reverted host. The first and the last are
  about behaviours in which nothing fails any more (`faults = 0`): a command that fails every time
  is never cured.
- **AckedIsDurable** - what clients were told is what a restarted daemon reads; only a key whose last operation
  was never answered, because the daemon died after the rename of `keys.json`, may be either way.
- **FileWellFormed** - names and URLs unique, number of keys bounded, in the file.
- **ActiveStoredUnlessFault** - `Active` names a stored key, until a write fails.
- **ImplementsLifecycle** - for clients that have one of connect, disconnect and undo in flight at a
  time, the concurrent daemon is the serial one of `Lifecycle`, and what is proved of that
  holds of the daemon.
- **OkMeansReverted** - a disconnect or an undo is answered with success only over a reverted
  host.
- **StopUnderLoad** - a stop with requests in flight ends stopped and reverted (`faults = 0`, as above).
- **OneOwner, PublishedIsUp** - however two connects or disconnects overlap, and an undo with one of either,
  a session is referred to by the server or by one handler, is closed once, and is published
  only while it is up.
- **EveryRequestAnswered** - no handler waits for ever.
- **ConnectedMeansTunnelled**, and **AlwaysRevertible** again - with disconnects at any moment of a
  connect, what `status` calls connected is a complete tunnel with a complete snapshot.
- **ConnectedKeyStored** - the connected key stays in the keystore, under the name the server reports.
- **QuietIsClean, UndoConverges** - reverts by the daemon's `Close`, by an undo and by the fallback
  of an impatient client may run at the same time over one snapshot: the host ends as it was, *if
  its resolv.conf is no symlink*. With a symlink it may end without one: `ClaimGetBack`, section 4.
- **DerivedNameIsUsable, NameTellsLabel** - a name made of a label is valid and free. It begins with
  all letters and digits of the label, if the label leaves room for the longest suffix that a full
  store needs (`-` and three digits, for 128 keys: labels of up to 28 characters). A longer one may
  be cut, or give way to `key-i`.
- **NumbersInLockstep, ZeroValuesAreSafe** - `Validate` and the script agree on tables and priorities,
  in both directions, and the daemon's own configuration always passes both.

Each property of these runs has a mutant: an operator called *Mutant* in its comment, next to the
definition it replaces, that a plausible bug would produce and that violates the property.

### Bounds

`lifecycle`: one `Session` object, two bypasses, two failures per behaviour, two contents and one
symlink target for resolv.conf, every combination of initial IPv6 value, foreign interface and
resolv.conf (its two contents are interchangeable), and the lowest rule priority with which both
bypasses are still at 1000 or above. One session at a time is all that the serial commands of
`Lifecycle` allow, and the object is used again after it is closed; two bypasses are the least for
which "some but not all deleted" exists; two failures allow every pair (a failing start whose revert
fails, a crash of a revert after a crash of a connect), and the steps between and after them are
unbounded. `liveness` has one bypass and one failure. `keystore`: three names, three URLs, at most
two keys, three failed writes and any number of crashes: the bound and every refusal are reached.
Names and URLs are interchangeable, and at most four keys are in doubt at once (`FewDoubts`; one
crash leaves at most two). The proofs drop these bounds.

`power_loss`: one bypass, two failures (a loss of power and another one, or two losses), a regular
file or a symlink, no foreign interface. When no failure is left, and so no power loss, nothing reads the
disk any more, and states that differ in the disk alone are explored once (`WhatMatters`).

The runs of `Server` have two connections (`Conns`), which is every pair of requests that can
overlap, and one bypass. With `Reuse` a connection that is closed makes room for the next request,
without bound; without it each connection carries one request. `Methods` are the methods clients
call and `Excluded` the pairs they never have in flight together: what one administrator at one
terminal does (`Orderly`, for `server` and `server_keys`), disconnects at any time (`OneConnect`,
for `server_pair`) or nothing (`server_answers`, `server_overlap`). `Timeouts` lets `ouf undo` give
up. There are two `Session` objects where two may be alive at once. `server_pair` tries every host:
either IPv6 value, a foreign interface or none, and a resolv.conf that is a file, a symlink or
missing. `server`, `server_keys`, `server_answers` and `server_overlap` start from a host with the
IPv6 value that a session changes and no foreign interface (`Plain`), whose resolv.conf is no
symlink. `server_answers` admits every pair of requests but two undos, because a second undo is not
accepted while one is in flight. `server_overlap` starts from a connected daemon that nobody stops,
so that what ends reverted is the work of the overlapping scripts and not of `ExecStopPost`;
failures are in `server` and `server_pair` (one), failing writes in `server_keys`. `server_pair`
uses the symmetry of connections and sessions: its invariants name neither.

`inputs`: a name has at most 6 characters, a store 11 keys, and suffixes run to 12, so that both the
change from one digit to two and the last of the names happen. Labels of up to 7 characters: all of
up to 4 of two kinds and of up to 3 of four, and longer ones that differ from a row of letters at
both ends. The names in use are those that `deriveName` makes of labels that leave room for any
suffix, for one digit only and for none, with suggested names among them and holes where some are
removed again (`Removable`). Tables and priorities at both sides of every edge.

### Fairness

`FairSpec` assumes weak fairness of the steps of a session, of the commands of a script, of the
daemon's shutdown and of systemd's `ExecStopPost`: goroutines and processes that can run do.
Every call is taken to return or to fail. The one that waits for the network is the lookup of the
server's name in `BuildDevice`; it does not use the 20 s context of `Start`, but the resolver's own
time limits end it. Nobody is assumed to connect,
disconnect, reboot or start the service again, and no failure is assumed to happen.

`ServerFairness` is the same for the goroutine of every connection, of every `Start` and `Close`, for
every script, for the shutdown in `Run` and for systemd. Clients and signals are not assumed to
come. A mutex is free again after one step, so weak fairness of a handler is what Go's scheduler and
`sync.Mutex` (which does not starve a waiter) give.

## 4. What the code does not keep

Statements of the docs, the comments and the README that TLC refutes, each with its own
configuration (`tlc -config <cfg> <module>` ends with the counterexample in seconds). The first two
are runs of `PROJECT.json`: both lose a host's settings although nothing fails.

| Configuration | Module | What it shows | Statement |
|---|---|---|---|
| `ClaimGetBack` | `ServerClaims` | bug: two scripts revert one session on a host whose resolv.conf is a symlink, the daemon's own and the fallback of a client that gave up on its undo. The slower one reads `WAS_SYMLINK` (ouf-panic:152); the faster one restores the link and removes the snapshot; the slower one reads an empty target (line 153), deletes the restored link (line 173) and dies (line 175). No resolv.conf, no snapshot, and nothing has failed | README.md:22, scripts/ouf-panic:4 |
| `ClaimUndo` | `ServerClaims` | bug: an undo during a connect finds no session, reverts and retires the snapshot under the running `Start`; rules that `Start` adds after the script's rule loop and before the snapshot is retired stay, and nothing remembers them. For a moment the catchall may be there without its bypasses, which routing_linux.go:70 means to exclude | scripts/ouf-panic:3, README.md:84 |
| `ClaimConnects` | `ServerClaims` | bug: two connects at once (server.go:298 unlocks before `Start`). The second finds no snapshot yet; when the first is up, the second overwrites `backup/resolv.conf` with our resolv.conf, stops at the first one's TUN and persists nothing. The first one's snapshot is true, and its hash now refuses the backup: no revert restores resolv.conf | README.md:22 |
| `ClaimOneSession` | `ServerClaims` | an undo between `Start` and `Publish` lets a second session come up beside the first | server.go:26 |
| `ClaimRemove` | `ServerClaims` | bug: `doRemove` checks `sessKey`, unlocks and removes; a rename of the connected key in between gets it removed | server.go:231 |
| `ClaimRename` | `ServerClaims` | bug: two renames of the connected key interleave, and `sessKey` keeps a name that is gone | server.go:249 |
| `ClaimDirty` | `ServerClaims` | a status during a connect reports a dirty exit, and advises the undo of `ClaimUndo` | server.go:385 |
| `ClaimExitOne` | `ServerClaims` | of two overlapping scripts one exits with 1 (`ln -s` fails) although the host is reverted and the snapshot gone | scripts/ouf-panic:8 |
| `ClaimMode` | `Claims` | bug: a revert leaves `/etc/resolv.conf` with mode 0600, the backup's (snapshot.go:166) | README.md:84 |
| `ClaimRecorded` | `Claims` | IPv6 and the TUN are changed before their actions are recorded (harmless for the revert) | internal/tun/config.go:6 |
| `ClaimRules` | `Claims` | with a rule priority of 1000 to 1006, which `Validate` accepts, bypass rules are never removed | routing_linux.go:76 |
| `ClaimExitZero` | `Claims` | exit code 0 with rules still there, after a silent failure under `soft_run` | scripts/ouf-panic:7 |
| `ClaimNothingElse` | `Claims` | `resolv.conf.ouf.tmp` stays in `/etc` after a crash or a failed write | README.md:116 |
| `ClaimPriority` | `Claims` | the script deletes at other priorities than the one the docs allow (and must) | docs/snapshot-format.md:117 |
| `ClaimActive` | `MCKeystore` | bug: `Add` does not roll `Active` back when its write fails and other keys exist | keystore.go:232 |
| `ClaimFlock` | `MCKeystore` | two daemons on one `keys.json` lose acknowledged keys | keystore.go:36 |
| `ClaimTrimmed` | `MCInputs` | `normalize` trims before it cuts, so that a long label gives a name that ends in a separator | keystore.go:424 |
| `ClaimLockstep` | `MCInputs` | an interface name like `eth7` passes `Validate`, and the script refuses to revert it | internal/tun/config.go:88 |
| `ClaimPower` | `PowerLoss` | with `/etc` and `/var/lib` on two file systems, a power loss leaves our resolv.conf without a snapshot | docs/snapshot-format.md:19 |

The defaults (priority 23333, `ouftun0`) and `oufdee`, which sets no others, are not exposed to
`ClaimRules` and `ClaimLockstep`.

## 5. What is proved

Eight modules hold theorems. All of them are for every set of sessions, connections, names, URLs,
contents and targets, for every number of bypasses and failures and every bound on keys. The
assumptions on constants are the named ASSUMEs of the models: model values are distinct,
`RulePriority >= 1000`, which `Config.Validate` enforces, and the initial `keys.json` is well
formed; those about key names are below. A theorem that needs more says so with a proviso:

| Proviso | Says | Why it cannot be dropped |
|---|---|---|
| `SafeConfig` | deletions under `soft_run` work, and `RulePriority - NumBypasses >= 1000` (true of the defaults) | `ClaimExitZero`, `ClaimRules` |
| `OneStore` | one daemon per `keys.json` (`Server` has only one) | `ClaimFlock` |
| `KeysApart` | clients do not rename or remove keys while one of them connects or renames | `ClaimRemove`, `ClaimRename` |
| `ConnectsApart` | clients connect one at a time, undo only with no other connect, disconnect or undo in flight, and do not give up on an undo; they disconnect at any time | `ClaimConnects`, `ClaimUndo`, `ClaimOneSession`, `ClaimGetBack` |
| `Exclusive` | one of connect, disconnect and undo in flight at a time, and nobody gives up on an undo (it implies `ConnectsApart`) | `server_pair` with `OkMeansReverted` as a PROPERTY: a disconnect that has succeeded is answered when the next connect is already changing the host |
| `OneJournal` | `/etc` and `/var/lib` are on one file system | `ClaimPower` |

### The life of a host

| Theorem | Of `Spec` | Proviso |
|---|---|---|
| `LifecycleProof!Invariance` | `IndInv` | `SafeConfig` |
| `LifecycleProof!Revertible` | `AlwaysRevertible` | `SafeConfig` |
| `LifecycleProof!LoopFree` | `NoTunnelLoop` | `SafeConfig` |
| `ProgressProof!Progress` | `ProgressInv` | `SafeConfig` |
| `ProgressProof!UpIsTunnelled` | `UpMeansTunnelled` | `SafeConfig` |
| `ProgressProof!DoneTells` | `DoneTellsApplied` | `SafeConfig` |
| `TransactionProof!TransactionRefined` | `ImplementsTransaction` | `SafeConfig` |
| `PowerLossProof!SoftInvariance` | `SoftInv` | none |
| `PowerLossProof!TypeCorrect` | `TypeOK` | none |
| `PowerLossProof!RevertibleAnyway` | `RevertibleExceptSoftDeletes` | none |
| `PowerLossProof!PowerInvariance` | `PowerInv`, of `PowerSpec` | `OneJournal` |
| `PowerLossProof!RevertibleAfterPowerLoss` | `RevertibleExceptSoftDeletes`, of `PowerSpec` | `OneJournal` |

None of the properties is inductive. `AlwaysRevertible` says nothing about which pre-state a session
is about to persist, nor about what the script has undone by the time it retires the
snapshot. `IndInv` adds:

- `CleanInv` / `DirtyInv`: without a snapshot the host is untouched; with one, its pre-state is the
  true one, its backup intact and every rule recorded (or the catchall);
- `SerialInv`: one works on the host at a time. A session is `Active` from the moment it has found
  no snapshot until its script has ended, and excludes other active sessions and running scripts. A
  session that has yet to look for a snapshot (`"start"`) may overlap one that is being reverted,
  because the snapshot is still there and makes it fail; and nobody is active where it would find
  none;
- `SessionInv`: what the writer holds at each `pc` before the first `Persist`, how many actions it
  has at each `pc` after it, that file and writer agree, and exactly which rules exist;
- `ScriptInv`: what the script has undone at each command, unless `FAILED` is set.

The proof has a lemma per action. Frame lemmas (`OneSession`, `OneScript`, `SerialSession`, ...)
reduce each to the session or script that moves; arithmetic on priorities is confined to
the lemmas at the start.

`ProgressInv` looks the other way, at what *has* been done: at every call of `Start` the host has the
effects of exactly the first `Effects(s)` actions of the plan, and the Done flags on disk are the
first `Marked(s)`. `UpMeansTunnelled` and `DoneTellsApplied` are two views of it. It needs `IndInv`: that
a `Start` which gets past its checks finds no interface, no routes and no rules of an
earlier session is `CleanInv`. `ClosingAt` adds that a session which is being closed has its snapshot until its
script ends, which is what keeps the next `Start` out.

`TransactionRefined` maps `HostState`, `OriginalState` and `SavedState` to the abstract host, base
and saved state. Every action is shown to map to one abstract step or to a stutter: the first
`Persist` opens the transaction, a mutation or a reboot happens under it, and `Retire` closes it
over a host equal to what was saved; while no snapshot is there, an edit or a reboot is an abstract
edit. `AllHostStatesAssumption` keeps "no snapshot" apart from every saved state.

`SoftInv` is what is left of `IndInv` without `SafeConfig`. A rule or a resolv.conf that a soft
deletion left behind is found by the next `Start`, which fails on the rule and records the
resolv.conf as if it were the administrator's. So `SoftInv` says nothing of rules, and of
resolv.conf only for a host that had one (`Resolved`); for the rest it keeps the shape of `IndInv`,
with `StrictInv` (one command at a time, to the last answer) in the place of `SerialInv`:
`PowerLoss` has the serial client of `Lifecycle`. `RoutesNeedTun` is stated outright, because a
flush that fails leaves routes until the interface goes. New is what a script knows at `PutResolv`:
a backup it is about to copy is the one it verified, whoever wrote it. `PowerInv` adds `DiskInv`:
what has been written back satisfies `SoftClean` or `Undoes` by itself, so that a machine which
comes back with it is in a state of `SoftInv`. Reboots and power losses share one lemma
(`SoftBoot`).

### The keystore and the configuration

`KeystoreProof`, under `OneStore`: `KeyTypeCorrect`, `AckedDurable`, `FileSound`, `ActiveSound`,
from the invariant `KeyInv` (`KeyInvariance`): memory holds the keys of the file, both are well
formed, and the file differs from what was acknowledged only in keys in doubt. One lemma,
`CommitInv`, states what each operation owes to each of the three outcomes of the common tail.

`InputsProof` holds `ValidationLockstep` (`NumbersInLockstep` for every set of names, tables and
priorities) and `DefaultsAreSafe` (`ZeroValuesAreSafe`), from `ValidationInv`
(`ValidationInvariance`): what has been checked at each stage.

It also holds the theorems about key names, without a proviso: `DerivedUsable`
(`DerivedNameIsUsable`) and `DerivedTellsLabel` (`NameTellsLabel`), for labels of any length and
every set of names that a store below its bound can hold. Their assumptions are `TriesAssumption`,
up to 9999 tries (the constant of the code) and a bound on keys that is not above the number of
tries, and `MaxNameLenAssumption`, room in a name for the last `key-i`. The code's 9999 tries, 128
keys and 32 characters satisfy both. They need a property of each loop of `normalize` and
`deriveName`:

- what `PutRunes` has written consists of characters of names, is no longer than what it has read and has
  the same letters and digits, in order (`RunesWritten`);
- trimming, truncating and stripping keep that, and drop no letter of a label that is short enough
  (`Trimmed`, `Truncated`, `Stripped`, `Normalized`);
- the candidates are valid and differ from each other, so that fewer names than candidates leave one
  free (`Candidates`, `DeriveCases`): a pigeonhole argument, for which `NamesBounded` (`NamesInv`)
  gives that the set of names is finite. That they differ has to be shown of names that were made in
  two ways, `base-i` and `key-i`, with suffixes of one to four digits: the text after the last dash
  is the decimal, and the decimal tells the number (`Decimals`, `SuffixTells`, `MadeOnce`);
- `deriveName` takes the first free candidate, and by the same argument one of the first `MaxNames`
  is free. Where the label leaves room for the longest suffix among those, the name chosen is not a
  `key-i` (`RoomEnough`) and begins with the letters of the label (`LettersBegin`, `DashedLetters`).

The lemmas about loops are inductions. The induction rules of the library have an operator as a
parameter, which the provers cannot instantiate; `NatSets` states induction for a *set* of natural numbers, from
the existence of a least element (`WFMin`), and each loop lemma defines the set of positions up to which
it holds. `LabelsAssumption` says that labels are sequences over the finite alphabet `Characters`.

### The daemon

| Theorem | Of `ServerSpec` | Proviso |
|---|---|---|
| `ServerProof!Owned` | `OwnerInv` | none |
| `ServerProof!SingleOwner`, `PublishedUp` | `OneOwner`, `PublishedIsUp` | none |
| `ServerProof!RequestsInOrder` | `RequestInv` and `KeyInv` | none |
| `ServerProof!ServedKeysDurable` | `AckedIsDurable` | none |
| `ServerProof!Keyed`, `KeyKept` | `KeyedInv`, `ConnectedKeyStored` | `KeysApart` |
| `ServerSerialProof!OneCommand` | `OneCommandInv` | `ConnectsApart` |
| `ServerSerialProof!ServerInvariance` | `IndInv` and `ProgressInv` | `ConnectsApart`, `SafeConfig` |
| `ServerSerialProof!ServerTypeCorrect` | `AllTypeOK` | `ConnectsApart`, `SafeConfig` |
| `ServerSerialProof!ServerRevertible` | `AlwaysRevertible` | `ConnectsApart`, `SafeConfig` |
| `ServerSerialProof!ConnectedTunnelled` | `ConnectedMeansTunnelled` | `ConnectsApart`, `SafeConfig` |
| `ServerSerialProof!QuietClean` | `QuietIsClean` | `ConnectsApart`, `SafeConfig` |
| `ServerSerialProof!ServerTransaction` | `ImplementsTransaction` | `ConnectsApart`, `SafeConfig` |
| `ServerSerialProof!LifecycleRefined` | `ImplementsLifecycle` | `Exclusive` |
| `ServerSerialProof!OkStays`, `OkReverted` | `OkInv`, `OkMeansReverted` | `Exclusive`, `SafeConfig` |

`OwnerInv` is about who may touch a session, and holds for any overlap: handlers hold different
sessions, none holds the published one, each step of a handler admits only some steps of the session it
holds, and a session in motion without a handler is the one that the stopping daemon closes. `OneOwner`
alone is not inductive: it does not say that a session taken from the server was up.

`RequestInv` says which request a step of a handler belongs to, and that requests in flight are not
excluded ones. `KeyedInv` follows a key through a connect: stored from the look-up on, used in
the session's configuration, and reported under a name that a rename in progress is about to correct.

`OneCommandInv` turns the exclusion of *requests* into an exclusion of *actions*: a script runs only for the
handler, the session or the service that waits for it, a session is up only for its owner, nothing
is published while a connect or a standalone script is at work, and a TUN belongs to a session that will still
close it. A handler's step is then a step of `Lifecycle` or invisible to it, but for three: a connect may
begin while disconnects are still reverting (`BuildAlone`: no other session starts or is up, and
those that close hold their snapshot, so that its `Start` fails or finds nobody at work), a session may be taken
while others close, and a signalled daemon still runs the handlers it has. `ServerInvariance` covers these with
the lemmas `StartsInv`, `ClosesInv` and `LaunchInv` about `IndInv`, which do not ask for an idle host, and
everything else with the lemmas about the steps of `Lifecycle`. `ServerTransaction` is the chain from the
concurrent daemon to the abstract specification in one step.

With `Exclusive` the host is idle at these three steps, too (`CommandAlone`), and the daemon
implements `Lifecycle`: the refinement maps a daemon with handlers in flight that was told to stop
to a `"signalled"` one, so that SIGTERM is `Terminate` and the end of the last handler is `Drained`.
`OkInv` carries the success of a script to the answer that reports it; with disconnects that overlap
a connect, that answer may come when the next session is already up.

## 6. What is only model-checked

- Liveness: `StopReverts`, `StartReturns`, `CloseReverts`, `StopUnderLoad`, `EveryRequestAnswered`,
  `UndoConverges` (fairness and ENABLED are out of the prover's reach).
- `QuietIsClean` for reverts that overlap (`server_overlap`): the theorem is for `ConnectsApart` and
  every host, the run for clients that agree on nothing and hosts without a symlinked resolv.conf,
  where it is violated (`ClaimGetBack`). Overlapping scripts would need an invariant of what two of
  them know of each other's work.
- The violations of section 4.

## 7. What is not modelled

- In `Server`: edits by the administrator and reboots (they are in `Lifecycle`), a second undo while
  one is in flight, and two `oufdee` at once. The contents of the answers to `list` and `status`
  beyond "dirty". On a request that cannot be parsed, the daemon logs an error and closes the
  connection without an answer (server.go:159-162).
- A stop of the service, or a failure, in the middle of scripts that overlap: `server_overlap` has
  neither, nor a symlinked resolv.conf. In the other runs and in the theorems about the host,
  scripts do not overlap.
- In `PowerLoss`: file contents that are lost although the name is on the disk; the administrator.
- Decoding a label from the URL fragment, and redaction of URLs for display.
- `all.disable_ipv6` also overwrites the per-interface settings, which no snapshot records; the
  model has the one value the code reads and writes.
- The JSON codec of `rpc`, `sstransport`, the packet pumps, packaging and install scripts: no state of
  their own, or one-shot file copies. `OUF_DRY_RUN`, logging and wording. The socket and its
  permissions.
- `snapshot.json.tmp` and `.keys.*.tmp`: a crash may leave them in the daemon's own directories;
  nothing reads them.

## 8. Plan

1. Done: `Host`, `OufPanic`, `Session`, `Lifecycle`, `Transaction`, `Keystore`, their runs, the invariants
   and the theorems of section 5.
2. Done: `Server` over `Lifecycle` and `Keystore`, with the refinement; `Validation`, `KeyNames`, `PowerLoss`.
3. Done: the proofs of section 5: every invariant and every refinement that a run checks has a
   theorem, and so has the action property `OkMeansReverted`.
4. Next: the theorems of `ServerSerialProof` that need `SafeConfig` only for `IndInv` (types, ownership of
   the TUN) from `SoftInv` instead; `QuietIsClean` for scripts that overlap.
