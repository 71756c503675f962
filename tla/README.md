# Formal models of Doktainer

Doktainer manages servers and Docker applications from one Node.js backend
(`src/src/server`, Fastify, Prisma) that reaches its hosts over SSH. Almost
everything that can go wrong in it does so between two `await`s: requests share a
database, a Docker host, an SSH connection per server and a few maps in memory,
and every call to a host may fail after it took effect.

This directory holds TLA+ modules of that core, TLC configurations that check
them on small instances, and TLAPS proofs for every size. Paths below are those
of the repository; `services/` and `routes/` are under `src/src/server/`.

## 1. The system and its parts

| Part | State | Operations | What is hard |
|---|---|---|---|
| Deployment lock (`services/deployment-lock.service.ts`) | a row per container: token, expiry | acquire, renew by a heartbeat, `assertOwned`, release | late, failing and half-done renewals; crashed owners; the row is deleted with its container |
| Deployment history (`services/deployment.service.ts`) | `Deployment` rows | create as RUNNING, update to SUCCESS or FAILED | a row left RUNNING refuses every later rollback |
| Rollback (`services/deployment-rollback.service.ts`, `deployment-strategy.ts`) | the Docker host, one `Container` row, one `Deployment` row | replace the runtime by renaming a candidate or by recreating; recover | each of a dozen commands and writes can fail, in the recovery as well |
| Rebuild of installed apps (`services/app-install-rebuild.service.ts`) | the same, and `AppInstall` | stop, remove, run, record | the lock may be lost on the way |
| Container routes (`routes/containers.ts`) | the same | Git rebuild, sync, delete; deploy an image or a source, start, stop, rm | all but the rebuild take no lock, and use what they read earlier; an image is deployed in the background of its request |
| Process jobs (`services/process-job.service.ts`, runner and streams in `routes/containers.ts`) | a map of jobs with their logs and subscribers | create, log, cancel, follow, prune | a cancellation in the turn in which the job ends; clients that join while lines are written |
| SSH connections (`services/ssh-services/connection.ts`) | pool, pending attempts, generations | `getConnection`, `closeConnection` | attempts that end after they were closed; servers whose credentials change |
| SSH commands (`services/ssh-services/commands.ts`) | two queues of promises per server | `exec`, `execStrict`, `streamCommand`, abort and kill | timeouts of queue and command, one retry, connections closed under other commands |
| SSH access policy (`services/ssh-services/ssh-access.ts`) | files and timers on the host | apply, test, restore, revert later | a policy that locks everybody out |
| Terminals (`routes/terminal.ts`, `services/terminal-ticket.service.ts`) | tickets, sockets and sessions in memory | issue a ticket, open, reconnect, close, prune; an update or a deletion of the server ends them | the old socket closes after the new one is attached; a client or a server goes while a shell is being opened |
| Metrics cache (`routes/containers.ts:256`) | a map of values and loads | load, share, invalidate | a load that fails after an invalidation |
| App installer (`routes/apps.ts`) | jobs, compose files, rows | install, uninstall | partial failure across three stores |
| Backups and retention (`routes/backups.ts`, `services/s3-storage-retention.service.ts`) | `Backup` rows, files on the server, objects in S3 | back up, upload, restore, delete, expire | background tasks whose row is deleted; a retention that deletes objects before it clears rows; files that share a name |
| Domains, SSL (`routes/domains.ts`, `routes/ssl.ts`, `services/domain-provisioning/`) | rows, files of the web server, certificate groups | provision, renew, remove | table against host |
| Accounts and invitations (`routes/auth.ts`, `routes/users.ts`) | rows | register, invite, accept | check, slow hash, then write |
| The rest (see `PROJECT.json`) | | single-row reads and writes, sequential host commands, text | little that interleaves |

How they interact: a container route starts a job, whose runner injects the
request into the server itself; the request takes the deployment lock, writes the
history, and sends Docker commands through the SSH queues; every command of a
server shares one connection, which a timeout or an update of the server closes.
A synchronisation reads the host and overwrites the table that the others write.

What makes each part correct: nobody works on a container without its lock, and a
recorded outcome falls within it; a reported outcome is what is on the host; the
history is closed; a sync leaves a table that shows the host; a cancelled job
stays cancelled and its log is complete; a command runs on its own account, one at
a time, at most as often as promised, and its result is not invented; a terminal is
its user's own, and ends with what it depends on; a completed backup has its data,
and a restore puts back its own.

## 2. The modules

| Module | Models | Composes |
|---|---|---|
| `DeploymentLease` | abstract: a container belongs to one operation at a time and only its holder writes | |
| `DeploymentLock` | the token table, clocks, heartbeats, slow and lost database calls | refines `DeploymentLease` |
| `DockerHost` | what `docker stop / rm / run / rename` and a health check do to a host, with every way to fail (external, constrained by the calls in `ssh-services/docker-containers.ts`) | |
| `RollbackRuntime` | one rollback, command by command | `DockerHost` |
| `ContainerSync` | the pure part of `syncContainersForServers` | |
| `DeploymentOps` | rollbacks, rebuilds, syncs and deletions of one application side by side | `DockerHost`, `ContainerSync`, the lock as a lease |
| `ContainerDeploys` | new deployments of an image or a source, and actions on a container | extends `DeploymentOps`, beside whose requests they run |
| `ProcessJob` | one job, its runner, its log and its clients | |
| `SshConnections` | the pooled connection of one server | |
| `SshCommands` | both queues of one server | the connection, abstracted to who closes it under whom |
| `SshAccess` | the access policy of a host: requests and the timers they leave there | |
| `TerminalSessions` | tickets, sockets and sessions of terminals, with the changes of a server | the connection, as the settings it was opened with |
| `Backups` | backups to a server or a bucket, restores, the retention | |
| `Deployments_proofs` | theorems | `ContainerDeploys` with `DeploymentOps`, and `ProcessJob`, the job that a deployment or a rebuild runs in |
| other `*_proofs` | theorems | the module of that name |

`MC*` modules add what TLC needs (symmetry, sets of policies); the constants get
their values in the `.cfg` files. A definition named in a comment as a *mutant* is the code with a
plausible bug; it is not part of any specification and serves to show that the
property listed with it in `PROJECT.json` can fail.

### 2.1 DeploymentLock

A row of `DeploymentLock` is `row[c]`, with the owner's random token represented by
the operation. `acquireDeploymentLock` is a transaction of two statements: `Reclaim`
(or `ReclaimNothing`) deletes an expired row and `Create` (or `CreateConflict`)
inserts. The heartbeat (`Heartbeat`, `Renew`, `RenewFails`) skips a beat while a
renewal is on its way; a renewal takes effect when it arrives, and its answer can be
lost; when it finds no row or fails, `lost` is the `ownershipError`. `AssertOwned`
looks at that flag only, as the code does. `Stop`, `Release`, `Crash` and the cascade
`DeleteContainer` end it. Time is `now`; `Tick` does not pass a due timer by more than
`Jitter` nor an answer by more than `RoundTrip`.

`MutualExclusion` and `WritesUnderLock` hold under `TimingAssumption` (interval +
delay + 3 round trips < time to live; 60 s against 15 min in the code). Without it
they fail, which is why it is stated. `LeaseRefinement` says that the table
implements `DeploymentLease`.

### 2.2 RollbackRuntime

The program counter follows `rollbackContainerToDeployment` and
`replaceRuntimeForRollback`: `Prepare`, the loop of `stopAndRemoveContainer` (`TryStop`,
`TryRemove`, `NothingToRemove`, for the four places that call it), `Launch`, `Probe`,
`Rename`, `Finalize`, `Succeed`, then the catch blocks `CheckPrevious`, `Relaunch`,
`CheckRecovered`, `RecordRow`, `RecordFailure`. A Docker command or a write of the database that
fails does so with or without its effect. The previous runtime may run, have exited or be gone; its
row may name it by a current id, a stale one or none.

The properties relate the reported mode, the row and the host: see the comments in
the module. `OneFaultRecovers` is the point of the recovery: one failure anywhere, a
lost lock included, does not leave a recreated application down. `RecordsTruth` is about the row
that is left, also after writes that failed: the recovery then replaces a runtime that was recorded
already, and the row must follow it.

### 2.3 ContainerSync and DeploymentOps

An action of `DeploymentOps` is what a request does between two awaits, on coarser
commands than those of `RollbackRuntime` (stop and remove are one). Six kinds of
request run side by side: atomic and recreating rollbacks, Git rebuilds, app
rebuilds, syncs, deletions. What a request read stays with it (`seen`, `list`,
`known`) and is used later, stale or not. The lock is the lease that `DeploymentLock`
implements: `LoseLock` is a heartbeat that fails or finds no row; `Expire` is the end
of its time to live. Deleting a row deletes lock, history and source (`Cascade`, from
`onDelete: Cascade` in `prisma/schema.prisma`). `Crash` ends every request of the
process. `DatabaseFails` is a query or a write that fails without effect (`RollbackRuntime` has those
that fail after it): the error takes the request where any error at that place does (`AfterQuery`),
and in the code that handles a failure, where it is swallowed or passed on, the failure stays
unsaved. Docker restarts what ends (`restarting`, which the code reads as STARTING), so a container
may be up without running. Requests are modelled as sent directly; `ProcessJob` models the job around
them.

`ContainerDeploys` adds the requests that take no lock at all. A deployment begins with a
sync (the steps of `DeploymentOps`) and refuses a name that a row has (`CheckName`). For an
image it then creates the row as STARTING (`Insert`), answers, and goes on in the
background: `Launch`, `Record`, `RecordHistory`, or `Fail`, whose own error nothing catches.
For a source it runs first and finds its row by a second sync. An action reads the row,
runs `docker start / stop / rm` on the id or, failing that, the name (`Act`), inspects
(`InspectState`) and writes what it saw (`Note`).

### 2.4 ProcessJob

Handlers run to completion in one turn of the event loop, so each is one action:
`Begin`, `Output`, `Return` (the runner), `Cancel`, `Open`, `End`, `Close` (clients),
`Prune`. `logs` are the ids of the entries kept (newest `MAX_LOGS_PER_JOB`).

### 2.5 SshConnections and SshCommands

`SshConnections` has one server whose row can change account (`UpdateRow`,
`UpdateClose` of `PUT /servers/:id`), clients that read the row, get a connection and
run a command, and connections by number. `GetPooled`, `GetPending`, `GetNew` are the
three paths of `getConnection`; `Connected`, `Outdated`, `ConnectFails` are how an
attempt ends; a generation counts the closes, and an attempt that finds another
generation disposes of its connection.

In `SshCommands` a call waits for the promise that was the tail of its queue (`prev`)
and forgets the tail if it is still its own (`Settle`). `exec` closes, connects and
sends once more on a recoverable error; a timeout closes the shared connection, which
ends the commands of others (`Closed`); the processes on the server (`Starts`,
`Exits`, `Kill`) go on without their connection.

### 2.6 SshAccess

A request goes through the calls of `applyServerSshAccessPolicy`: `Load` (the snapshot the
administrator saw), `Submit` (`getServerSshAccessStatus` and `validateSshAccessPolicy`),
`ReadPrevious`, `Install`, `Reload`, `Test`, `CancelTimers`, `Schedule`, `Status`, and
`Restore`, `RestoreReload`, `RestoreTest` when a call of the `try` block fails. Each is one
host command and may fail with or without its effect. The host has the managed drop-in
(`managed`), what the daemon has loaded (`daemon`), and per temporary policy a directory
(`dir`) and a timer whose script checks the file, replaces it and reloads (`TimerFires`,
`TimerInstalls`, `TimerReloads`). `Effective` is sshd's rule that the first value wins, and
`Admits` is sshd's decision; both are the external part. `disturbed` is a history variable: it
says which requests had somebody else write to the host since they began.

Requests take no lock, so two of them may interleave at every command. `NotLockedOut` must
hold even then; `AnswersTrue` and `TemporaryEnds` speak of undisturbed requests, and §6 says
what happens to disturbed ones.

### 2.7 TerminalSessions

A handler of a socket awaits twice, for the row of the server (`Lookup`) and for its shell
(`Open` to `Opened` or `OpenFails`); all between two awaits is one step. `Connect` presents a
ticket (`consumeTerminalSocketTicket`, which deletes it whatever comes next) and prunes;
`Rejoin` attaches to a session of the same user, detaching the former socket. A session
object is named by the socket that opened it, and `map` is the `Map` from ids to objects, so
two objects may have had one id. `HangUp` is the client leaving; `CloseEvent` follows later
and does what the handler of "close" does, if there is one by then. `ShellExits` and
`ShellCloses` are the two sides of an ending shell, `Expires` the time to live, `Destroy` what
`destroySession` does. `PUT /servers/:id` is `UpdateRow`, then `UpdateCloses`;
`DELETE /servers/:id` is `DeleteCloses`, then `DeleteRow`: in that order.

### 2.8 Backups

The background task of a backup is a program counter: `BeginWrite`, `EndWrite`, `Read`, `Put`,
`Head`, `Complete`, `Notify`, and `Fail`, whose own errors end the process (`Died`). `disk` and
`bucket` hold whose data is under which name, and whether it is open (being written, or mixed up by
two writers), cut off or whole; a FULL archive may end cut off. `Place` says which bucket, with its
prefix, a destination has: it may be that of another. A pass of the retention lists the bucket of a
destination (`List`, with `Expired` for `getExpiredObjectKeys`), deletes objects, all or some
(`DeleteObjects`), then clears the rows of that destination (`UpdateRows`). A restore reads the row,
runs on the file or object (`RunRestore`), and removes what it fetched (`RemoveHydrated`). `lost`
is a history variable: backups whose data a step removed and whose row will never say so,
because an error or a crash came between, or because the row is of another destination.

## 3. The runs

| Run | Asks | Instance | States |
|---|---|---|---|
| `lock` | Can two operations own a container, or write without owning it? Does the table implement the lease? | 2 operations, 1 container, time to live 6, clock up to 9 | 1.4 M |
| `rollback` | Is what a rollback reports, and what row and history say, what is on the host? Does one failure leave the application down? | 1 rollback, every initial runtime and both strategies, 3 Docker failures, 2 database failures | 83 k |
| `ops` | Does a recorded SUCCESS show what is deployed, does nobody touch a runtime that another deploys, is every history closed, unless the closing itself failed, and every lock freed? | 2 requests of 4 kinds, 1 failure of a command, a query or a write, 1 crash, 1 lost renewal | 518 k |
| `sync` | Does a sync of what is still true leave a table that shows the host (but for a row that two containers share); does no row without a container wait for one that nobody starts? | 3 requests of 8 kinds, 1 failure of a command or a query | 2.8 M |
| `jobs` | Is a cancellation honoured, an outcome final, a log stream complete, and ended once the runner is? | 1 job, 2 clients, 4 lines of which 2 are kept | 6 k |
| `ssh_pool` | Does every command run on its own account; does a connection leak, a waiter starve? | 3 clients, 2 accounts, 4 connections, 4 requests | 1.2 M |
| `ssh_commands` | One at a time, at most the promised number of times, never after a queue timeout, always answered, answered with the truth? | 2 `exec` and 1 streamed command, timeouts, abort, lost connections | 728 k |
| `ssh_access` | Can a policy lock Doktainer out, does an answer say what the host does, does a temporary policy end? | 2 requests, 4 policies, 2 bases, 4 kinds of account, 2 failures | 847 k |
| `terminals` | Is every shell its user's own, is no open terminal silent, no session or shell left behind, none on former settings, but for the reasons named? | 2 sockets, 2 users, 1 id, 2 tickets, 1 server with 1 update | 3.4 M |
| `backups` | Has a completed backup its data, does a restore put back its own, does every task end in its row, does the retention keep the newest? | 2 backups, 2 file names, 2 destinations in 1 bucket, 1 restore, limit 1 | 4.6 M |
| `lock_erased` | (violated) is a second operation on an application refused? §6, 1 | 3 requests, no failure | |
| `stream_exit` | (violated) is a streamed command that is reported as done done? §6, 2 | as `ssh_commands` | |

Why these bounds. The hazards of §1 are pairwise: a request and what one other request,
failure, timer or crash does between two of its steps. Two actors meet all of them; the
third is there where the damage needs a third party to be seen (a sync that reads while one
request deploys and another deletes; a client that joins an attempt which a second one
outdates). The time to live of the lock is long enough for two heartbeats and the clock for a
reclaim after it; a retained log of two lines out of four makes it overflow; two faults are
one in the operation and one in its recovery, three reach the second fallback. A bound on a
counter is a constant of its module and part of a guard; only failures, crashes, losses, ids,
rows, connection objects, updates and the clock are bounded, and the proofs of §5 lift those of
eight modules. In `sync` each request can take a new container id or a new row once, hence 5 ids
with those that are there, and 3 rows. Two sockets are an old and a new one of a client, or two
clients with one id; two backups are two that share a file, or two objects of which one is
older. `terminals` and `backups` bound no failures: any step of them may fail any number of
times.

`CHECK_DEADLOCK FALSE` stands where the system comes to rest: every
request answered, every timer over.

## 4. Fairness

Fairness is assumed where the code or its platform schedules the step, and nowhere else.

- `DeploymentOps` (run `ops`): a request that works goes on, because every Docker
  command is sent with a timeout, every query ends, and a health check polls a bounded number
  of times. This speaks of requests sent directly: inside a process job, `exec` has no timeout
  (`services/ssh-services/commands.ts:286`). A lock expires because time passes. A crash is
  never obliged to happen, and nothing resets the history after one, which `NoneBlocked`
  excepts, and neither does it after a write of the failure that failed itself (`unsaved`).
- `ProcessJob`: turns of the event loop happen (`Begin`) and the interval timer of a stream fires
  (`End`). That the request inside the job returns is not assumed, because its commands have neither
  a timeout nor the abort signal (`commands.ts:286`): a command that hangs keeps its job and the
  streams that follow it, even after a cancellation. `EndsWithRunner` says that nothing else does.
- `SshCommands`: timers fire, callbacks are called and an attempt to connect ends
  (`readyTimeout`). A process
  on the server need not start, exit or die.
- `SshAccess`: the clock of the host runs, so timers fire and their scripts go on; they are
  assumed not to fail. Requests are under no fairness at all: each may stop at any step.
- `DeploymentLock`, `RollbackRuntime`, `SshConnections`, `TerminalSessions`, `Backups` and the run
  `sync` have no liveness property, and no fairness: each step may be the last.

## 5. What is proved

TLAPS proves the following for every value of the constants that satisfies the named
assumptions; TLC checks those assumptions for the instances.

**RollbackRuntime** (`ConstantsAssumption`: the references a rollback uses are distinct; any bounds on
faults). What a rollback may rely on at each command is where it is. `ControlInv` says what it has
touched and which candidate it knows; `TodoInv` which references `stopAndRemoveContainer` has still
to try, one that finds a container that is there among them; `PlaceInv` what is on the host. Since
a command may fail with or without its effect, each of the three is needed to keep the others. From
them `OutcomeTruth` and, with `RecordInv`, which follows the row through failing writes, `RecordsTruth`. `OneFaultRecovers` counts: `CostInv` says
that a container that does not run, a removal that did not remove and a recovery that was entered
have cost a fault each, so with one fault the recovery meets none.

**DeploymentLock** (`ConstantsAssumption`, `TimingAssumption`). `Spec => []IInv`, mutual
exclusion, writes only under the lock, and that the table implements `DeploymentLease` (every
step is a step of the lease or a stutter). Mutual exclusion alone is not inductive: that the
owner of a row is the operation that believes so rests on *when* its last renewal took effect. The
strengthening bounds, for each operation that has not been told of a loss, the age of its row by
the heartbeat's interval, its delay and the round trips still out, and `TimingAssumption` keeps
that below the time to live, so no `Reclaim` can hit it.

**SshConnections** (any clients, accounts, connections). The invariant says that an attempt
that nothing outdated is the pending one, and then nothing is pooled; that an open connection is
the pooled one; and that a client with a connection has one of its own account. From it: no command
on a foreign account, no leak, one attempt, nobody awaits one that is over, nothing handed out that
a close outdated.

**SshCommands** (any calls, streams, counts). The invariant ties how often a command was sent
to where its call stands, and a call that timed out in the queue to never having begun. The order
of a queue is a second argument: the calls that are not over stand in a line in which each waits for
the one before it, although the code keeps only the tail; hence one at a time.

**SshAccess** (any requests, policies, bases, number of failures). Two arguments.
`Installable`: whatever a request or a timer may still put into the managed file admits Doktainer,
since a policy enters a request through `validateSshAccessPolicy` or was in force when it was
read; hence `NotLockedOut` under every interleaving. `AloneKeeps`: a request that nobody disturbed
finds on the host what its last command left, its own timer being the only one alive; hence
`AnswersTrue`.

**ProcessJob** (any clients, lines and limit of the log). The invariant ties the state of the job to
where its runner stands, says that a log keeps its newest lines, and that what a client has seen is
a gapless piece of the log that reaches up to what it will be sent next. From it: a confirmed
cancellation is honoured, a stream that the server ended is complete, an outcome is final.

**TerminalSessions** (any users, servers, sockets, tickets, ids). `TicketInv`: a ticket that a socket
holds is out of the map of tickets and nobody else's, and was issued for what the socket asked for.
`SessionInv`: every id leads to a session whose shell was opened, and a connected socket is in a
session of the user of its ticket. Most steps only end, cut or release, which is one lemma (`Kept`);
hence `OwnShell`. What ends with what is a second invariant beside it. `AttachInv`: a session of
the map is attached to nobody or to a live socket that is in it, a live socket that is alone in its
session is the one attached, a running shell is in the map or was pushed out of it. `SettingsInv`: a
session, and a handler on its way to one, has the current settings of its server, or a change of
them is under way, or the handler had read the row before. Again most steps are of one kind
(`Quiet`: they end sessions and close sockets in good order), so that `Connect`, `Rejoin`, `Opened` and the
changes of a server are what remains. The assumption on names is that `None` is no session or version.

**Backups** (any backups, files, buckets, restores and limits). `OwnInv`: data under the name of a
file, on the server, in a bucket or on its way, is that of a backup of that name, even while others
of that name come and go; hence `RestoresOwnData`. `StatusInv` gives `NoneForgotten`. `RetentionInv`:
a backup that shares its name with no other uploads once, so that an object which may go when it is
listed may still go when it is deleted, since uploads only add newer ones; hence `KeepsNewest`.
`DataInv` follows the data of a backup with a name of its own through its task: what a row promises
is there as its command left it, or the removal that took it is on record in `deleting`, `lost` or the
open pass of a retention, of whichever destination of the bucket; hence `CompletedHasData`. Steps of other backups, of restores and of removals are one
lemma (`Steady`).

**DeploymentOps and ContainerDeploys** (any requests of any kinds side by side, any containers, rows,
faults, crashes and lost locks; `ConstantsAssumption`: `Absent`, `NoRow`, `NoOp`, `None` and `Erased` are no
values of the kinds they stand beside, and names of containers are no ids). `StartingIsUnderWay` is
inductive only beside what each request remembers at each of its steps:
`Suits` says which kinds of request come to a step, `Remembers` that a request that writes to its row
has read one, that a sync which writes has its list and its rows, and that an action which saw a
container has its id beside the status. Three lemmas carry most steps: one request that goes on with what it
remembered (`Goes`, `Onward`), or with what it has just read (`StepTo`); whatever a sync writes has the id of a container
(`SyncedRows`). From it `TypeOK` as well.

`SuccessIsDeployed` and `DeployedKept` are about requests that take the lock: their theorems assume
`Kinds \subseteq Deploys`, which the run `ops` meets with all four kinds. A sync without the lock breaks
the exclusion behind both (section 6). They rest on a second invariant, `DeployedInv`. Whoever is past `Acquire` owns
the lock of the first row, or was told that it is lost (`LockInv`); names on the host are unique, and
ids grow, so that an id that was removed never comes back (`NamesInv`); the row of the application is
the first (`RowsInv`); `StageInv` says for each step of the owner what it has achieved so far: the
candidate launched, then the name taken over, then the list of the host, then the row that shows the
new container. All of this holds while it is `Faithful`: no lock was lost under an owner at work. The
exceptions are an app rebuild, which may record a failure without the lock (`Apart`), and a `docker ps` that failed and was taken for an empty host: `Vanished` then says that every
row is gone for good, with its history. Most steps are those of the owner (`OwnerMoves`, `OwnerWorks`,
`OwnerWaits`) or of a request outside the lock (`Outside`), and `CurrentSync` is the sync. A query that fails takes
its request to another step and changes nothing else (`FaultTurn`, `FaultGood`).

`SyncShows` holds for all kinds of requests (`AllSpec`). It needs little of what they do: `SyncInv`, that
Docker never gives a name twice and that ids of rows grow. The rest is about the algorithm: the row
that a container's payload goes to (`Target`) is in the table, new ones are apart from each other and
from the old (`NewRowIds`, by counting), and two containers meet in one row only if it has the id of one and
the name of the other (`Collision`).

Not proved, model-checked only: every liveness property (`NoneBlocked`, `EndsWithRunner`,
`ExecAnswered`, `TemporaryEnds`), for liveness under fairness, ENABLED, induction over data and RECURSIVE
operators are beyond the prover. Every invariant and action property of a passing run is proved. No module
that is proved about uses recursion.

## 6. Where the code and what it says differ

Each of these two is a run that TLC ends with a counterexample.

1. `lock_erased`: a sync that lists the host while an operation has taken the runtime down deletes
   the application's row (`routes/containers.ts:1481`), and the row of the lock goes with it. A second
   operation on the application then starts beside the first, although `acquireDeploymentLock` says
   "Another deployment operation is already running for this container".
2. `stream_exit`: a streamed command is over at the first of its events, and "end" counts as exit code 0; a
   command that failed, or whose connection broke, can be reported as done, to an `execStrict` that is
   to "throw on non-zero exit" (`services/ssh-services/commands.ts:386`).

Seen while modelling, without a run of their own; the modules do not hide them:

- A `docker ps` that fails is returned as an empty list
  (`services/ssh-services/docker-containers.ts:63`), and the sync deletes every row of the host with its
  history. The comment at `:55` asks that permission errors not be masked. `SyncShows` speaks of lists
  that are true.
- The recovery of a rollback looks for the previous runtime by the id of the row
  (`deployment-rollback.service.ts:451`); with a stale id it reports an untouched application as FAILED. The
  row is read before the lock is taken (`:530`). An error before the host was touched writes RUNNING and an
  audit entry "recovered" (`:649`, `:667`).
- A sync that lists the host before a rollback renames its candidate, and reads the table after the rollback wrote
  its row, names the row of the application after the candidate. A second rollback writes its
  id into that row; a third, that had read the row in between (`deployment-rollback.service.ts:530`), renames its
  own candidate to the old name. Then one row has the name of one running container and the id of another, and
  the next sync, whose snapshots are current, writes both to it: the newer one has no row until the
  sync after it (`routes/containers.ts:1421`). It takes five requests, which no run has; `SyncShows` states
  it as its one exception (`Shared`), and the proof shows that there is no other.
- The failure of a rollback, a Git or an app rebuild is written down with `.catch(() => undefined)`
  (`deployment-rollback.service.ts:697`, `routes/containers.ts:4133`, `app-install-rebuild.service.ts:354`), and the
  writes of the row before it (`deployment-rollback.service.ts:650`, `app-install-rebuild.service.ts:335`) pass their
  own error on past it: then the Deployment stays RUNNING, and every later rollback of the container
  is refused. `NoneBlocked` names it as an exception (`unsaved`).
- A Git rebuild records SUCCESS without a health check (`routes/containers.ts:4073`; compare the comment
  at `:4070`).
- The retry of `exec` connects with the row that its caller read, which may have changed since.
- SSH access: a temporary policy is in force and a later request fails after it cancelled the timers: it
  restores the temporary policy, whose timer is gone. `TemporaryEnds` allows this ("or another request
  wrote since"). Two requests at once: the timer of one expects the file that it finds when it is
  scheduled (`ssh-access.ts:344`), possibly the other's, and replaces it. An `Install` that times out
  after it wrote leaves a file that is not loaded, since the call is outside the `try` block (`:405`).
  The model fixes the account of Doktainer; if it changes to a password during the temporary window,
  the timer locks it out.
- A background deployment of an image whose STARTING row a sync deletes (there is no container yet)
  throws in its error handler as well (`routes/containers.ts:3363`); nothing catches it, and with Node's
  default the process ends with all its requests.
- Terminals. A socket that closes, or a session that is destroyed, while its shell is being opened: the
  session stays attached to a dead socket and is never pruned (`routes/terminal.ts:440`, `:126`). Two
  sockets that open one id at once: two shells, of which no route leads to the first (`:214`). A
  detached session whose shell exits stays in the map, and a reconnect attaches to the dead shell
  (`:85`). The close handler of an old socket detaches the new one (`:487`). The deletion of a server
  closes the connection and not the sessions, which stay in the map, and a handler between its two
  halves opens a connection that nothing closes (`routes/servers.ts:560`).
- Backups. A crash leaves a row RUNNING for good. The file name has the time to the second
  (`routes/backups.ts:893`), so two backups of one name share file and object. A pass that fails or dies
  between objects and rows leaves rows that point to nothing
  (`services/s3-storage-retention.service.ts:75`); so does one that deletes an object before its key is
  in the row (`routes/backups.ts:1019`). Nothing keeps two destinations from one bucket and prefix
  (`routes/storage-destinations.ts:171`): the pass of one then deletes objects of the other and clears
  its own rows only (`s3-storage-retention.service.ts:77`). The command of a FULL backup ends in
  `2>/dev/null || true` (`routes/backups.ts:985`), so an archive that `tar` could not finish is COMPLETED all
  the same. The retention counts every object under its prefix. A failing
  notification turns COMPLETED into FAILED, and the error handler of a task whose row was deleted
  throws outside any catch (`:959`).

## 7. What is not modelled, and why

`PROJECT.json` lists every part. Left out for good: the user interface; text, parsing and formatting
of command output; pure reads; single-row CRUD without interleaving; shell scripts run once on a
fresh host; the schema beyond its cascades. Simplified: a host holds one application of interest
besides the candidates that operations create; hashes and tokens are the values they stand for; the
Docker daemon, sshd and the database are as the code uses them (the database serialises statements and
unique keys hold). Several Node processes are not modelled, since the code keeps its queues, pools
and jobs in memory and runs as one.


Not modelled, although it has state of its own:

- The metrics cache (`routes/containers.ts:256`): a load that fails after an invalidation removes the
  entry of a newer load (`:361`); the consequence is one more `docker stats` call.
- Invitations and registration (`routes/auth.ts:436`): the status of an invitation is checked before a
  slow hash and not again in the transaction that accepts it (`:499`), where the unique key of its
  email alone decides: of two that accept it at once, one goes through.
- The app installer (`routes/apps.ts`): a sequence of steps over compose files and rows, whose rebuild is
  in `DeploymentOps`; that two installations or an installation and a removal meet is left open.
- Domains and certificates (`routes/domains.ts`, `routes/ssl.ts`): files of a web server that each request
  writes as a whole, and tables beside them; the files are text produced by templates.
- Actions: host ports, `pause`, `unpause` and the install row of a removed container
  (`routes/containers.ts:3624`); each is one write beside those that are modelled. Without `pause` the
  statuses PAUSED and STOPPING do not occur.
- The notification after the SUCCESS of an app rebuild (`app-install-rebuild.service.ts:301`), whose own failing
  read would turn the SUCCESS into FAILED.
- Equal stamps: objects are ordered by the time of their upload, where the `LastModified` of two may
  tie and the order of the list decides.

## 8. What comes next

1. `AppInstall`: installations and removals with each step failing, on the host of `DeploymentOps`.
2. Domains and certificate groups: what the table says against what the web server has.
