# TLA+ models of SecurePanel

SecurePanel is a hosting control panel. An unprivileged FastAPI application,
run by several gunicorn workers, keeps its records in a database and asks a
privileged agent, one asyncio process behind a Unix socket, to change the host:
Linux users, nginx configurations, certificates. A Celery worker and an
installer surround them. This directory holds TLA+ models of the part that
carries the panel's own logic, TLC configurations that check them, and proofs
that TLAPS checks.

Paths below are relative to `src/`; `nginx.py` is
`backend/agent/handlers/nginx.py` and `domains.py` is
`backend/app/api/v1/domains.py`.

## Inventory

| Component | State it keeps | Operations | Hard behaviour |
|---|---|---|---|
| Agent nginx handlers (`nginx.py`) | `conf.d/<domain>.conf`, `.conf.disabled`, `.conf.bak`, webroots; what the running nginx has loaded | create, delete, suspend, unsuspend, rebuild, reload, write_vhost, delete_vhost | files change, then an external command is awaited, then more files change; handlers of other connections run in between; partial rollbacks |
| Agent user and certificate steps (`handlers/user.py`, `handlers/ssl.py`) | `/etc/passwd`, `/etc/letsencrypt` | useradd, certbot | idempotence, long-running commands |
| Command execution (`agent/utils/exec.py`) | child processes | run_command | time limits; a child that outlives its awaiter |
| Agent request pipeline (`agent/securepanel-agent.py`) | open connections | handle_client | HANDLER_TIMEOUT cancels a handler at any await; a client that has gone |
| Agent rate limiter (same file) | time stamps per peer | is_allowed, purge_stale | window edge, purging between requests |
| Agent validator (`agent/validator.py`) | none | is_allowed, get_handler | rules, handlers and callers are written apart and may disagree |
| Agent handlers for CageFS, firewall, php-fpm, `ssl.*`, `user.*` | none of their own | one command or one file each | what a failing command means to the caller |
| Domain endpoints (`domains.py`, `models/domain.py`) | table `domains` | create, delete, suspend, unsuspend, rebuild, enable_ssl, list | check, call the agent, commit: nothing is locked between |
| Username derivation (`app/utils/username.py`) | none | generate_unique_username | collisions, truncation to 32 characters |
| Agent client (`app/core/agent_client.py`) | one connection per call | call | READ_TIMEOUT equals the agent's HANDLER_TIMEOUT |
| Nginx, CageFS and certificate managers (`app/services/`) | none | create_vhost, delete_vhost, php-fpm pool, enable, issue, renew | writes a config no one tests, then reloads |
| Mail manager (`services/mail_manager.py`) | Dovecot passwd file, Postfix map and the table made of it | create_mailbox, delete_mailbox, setup_dkim | read-modify-write of shared files by four processes, without a lock; tools without a time limit |
| DNS manager (`services/dns_manager.py`) | zone files | add_record (create_zone is called by nobody) | the same; named loads the zone some time after `rndc` has returned, or refuses it |
| Cron endpoints (`api/v1/cron.py`) | crontabs | add, list | the same; a failing `crontab -l` looks like an empty crontab |
| Database, FTP, CageFS, Imunify managers | none of their own | single calls to outside services | none |
| Firewall manager, endpoints, advisor | none (nftables keeps the rules) | block, unblock, list | none in the panel |
| Migration restore (`services/migration/`, `tasks/migration_tasks.py`) | everything it restores; the task's result | upload, restore, retry | partial failure, lost workers, messages delivered again beside the run that is still going on |
| Other Celery tasks | none | renewal scan, malware scan | a column nothing writes |
| Authentication | users | login, token check | cryptography: left to libraries |
| Installer (`scripts/`) | the host | phases, cleanup on failure | failing phases, re-runs |

How they interact: an endpoint reads its row, calls the agent over the socket
and commits after the answer. The agent serves every connection as a coroutine
of one event loop, so its code is atomic between two awaits, and every await of
the domain handlers is an external command. All domains share one nginx: a
reload on behalf of one domain loads the files of all of them, and one bad file
makes `nginx -t` fail for all of them.

What makes each part correct:

* handlers and endpoints: row, files and what is served agree once no request
  is under way; a failure or a cancelled handler never leaves a config nginx
  cannot load for want of a certificate; suspension holds until it is lifted;
  what a suspension preserved can be restored; every row has a Linux user of
  its own;
* pipeline, client and command execution: every request is answered and every
  handler ends; success means that every command has ended well; nothing runs
  on without anyone knowing, unless the handler itself ran out of time;
* rate limiter: no window holds more than the limit, and nobody is refused
  without cause;
* the file-editing services: what was acknowledged stays in the files and is
  served, within the limits that the code leaves (see `HostFiles`);
* migration: a result without errors means a complete restore, until another
  execution takes it up again; nothing is served for an account whose home has
  not become its own; the task comes to rest.

## Modules

| Module | Content |
|---|---|
| `NginxAgent` | the agent: host state, handlers, external commands, what interrupts a handler, the client end of the connection |
| `DomainApi` | the endpoints and the `domains` table, composed with `NginxAgent` (EXTENDS); the properties |
| `DomainService` | the abstract specification: what is served and what is recorded move in a fixed order |
| `MCDomainApi` | small instances for TLC |
| `Allowlist` | the agent's rules per action, the keys its handlers look up, the calls the panel makes |
| `AgentCalls`, `MCAgentCalls` | one call through client, connection, handler and commands, against all their clocks (EXTENDS `Allowlist`); its instances |
| `HostFiles`, `MCHostFiles` | mailboxes, crontabs and zones edited by several workers; its instance |
| `Migration`, `MCMigration` | the restore of an account: queue, task and steps; its instance |
| `Usernames`, `MCUsernames` | how a domain gets its Linux user name, and its instance |
| `RateLimiter`, `MCRateLimiter` | the rate limiter and its instance |
| `DomainApiProofs` | type correctness of `DomainApi` |
| `DomainSafetyProofs` | `TlsHasCert` and `RowsHaveOwnUser` for every instance, `BackupIsTransient` as long as the agent does not die |
| `DomainRecordProofs` | record, files and service agree, and `DomainService` is implemented, as long as nothing fails halfway |
| `AgentCallsProofs` | the theorems about one call and its processes |
| `HostFilesProofs` | what was acknowledged stays and is served, as far as the code lets it |
| `MigrationProofs` | what a clean result means, and what is served, when steps are repeated |
| `UsernamesProofs` | generated names are accepted; nobody is turned away early |
| `RateLimiterProofs` | the rate limiter's theorems |

### NginxAgent

A connection `i` carries one request: `op[i]`, `dom[i]`, `usr[i]` are its action
and parameters, `pc[i]` the await its handler is at, `res[i]` the outcome of the
command it awaits, `chan[i]` what the client end sees. An action is the code
between two awaits of a handler (`StartSuspend`: the checks, the rename and the
stub up to the await of `nginx -t`). The command's effect is a step of its own
(`RunTest`, `RunReload`, `RunUseradd`, `RunChown`), so anything may happen
between start, effect and resumption. certbot has three: the certificate is
issued (`CertIssued`), its deploy hook reloads nginx where `ssl-setup.sh` has
installed one (`DeployHook`), and it ends (`RunCertbot`); left behind by a
cancelled handler, it still goes on to its hook (`OrphanRuns`). The hook comes
with the TLS snippet, from the same script.

A configuration file is `none`, a site (`http`, `https`) or the 503 stub
(`stub`, `stubtls`): what it serves, and whether it names a certificate and the
TLS snippet. `Loadable` is what `nginx -t` answers: no vhost written by
`write_vhost` is bad, and every TLS file finds its certificate and the snippet.
`live` is the configuration the running nginx has loaded.

Failures are admitted per run by `Faults`: a command that fails or is killed
(`TimeoutError`, which the handlers' `except RuntimeError` does not catch), a
handler cancelled by HANDLER_TIMEOUT whose command goes on (`orphans`), a crash
of the agent (systemd ends the control group and restarts it), a refused or
rejected request, a client that gives up, a failing commit, a vhost nginx
rejects, a host without the TLS snippet.

Folded together: the DNS lookup before certbot belongs to the await of certbot
and the CageFS enrolment to that of useradd, because nothing is written between
them. certbot's own limit of 300 s cannot be reached within the 60 s of
HANDLER_TIMEOUT. The index page, modes of files and log lines are left out. The
sandbox of the systemd unit is not modelled: commands are taken to be able to
write where they write.

### DomainApi

`rowStatus`, `rowUser`, `rowSsl` are the columns of the `domains` table the
endpoints use. Each endpoint is cut at its awaits: the reads and checks
(`BeginCreate`, `DeriveUsername`, `CallCreate`; `BeginOn` for an existing row),
the agent call, the commit (`CommitCreate`, `CommitDelete`, `CommitStatus`,
`CommitRebuild`) or its failure. `held` remembers which requests still find the
row they read: a row deleted and created again has another id, deleting a row
that is gone only draws a warning, updating one fails the request.

`Candidates` gives the names `generate_unique_username` tries for a domain.
`Overlap` says which requests may be in flight together: one, one per domain, or
any. `Legacy` are records without a Linux user.

`enable_ssl` is no action here: its `ssl.issue` request (`EnableSslCalls`) never passes the
validator, so no state changes; `list_domains` only reads.

### DomainService

Per domain, `served` (none, site, stub) leaves the service its `status` settles
on before the status follows. One nginx reload may move several domains at
once. `ImplementsService` maps `live` and `rowStatus` to it.

### Allowlist and AgentCalls

`Allowlist` translates the table of `validator.py` and `is_allowed`. A
parameter's value is the class of texts it belongs to (`"domain"`, `"DOMAIN"`
with an upper-case letter, `"acme webroot"`), a pattern the set of classes it
matches. Beside the rules stand `Needed`, the keys the handlers subscript, and
the calls of the panel's services as their code builds them. The services check
their parameters with patterns of their own, which take more than the agent's:
`MCAgentCalls` makes these calls too (`"ipv6"` in `FirewallCalls`, `"DOMAIN"` in
`NginxManagerCalls` and `SSLManagerCalls`, the empty name an archive may give
in `RestoreCalls`), and the agent refuses them.

`AgentCalls` follows one call: `cli` is where `AgentClient.call` is, `srv` where
`handle_client` is, `step` the command its handler is at, `command` the process
`run_command` awaits (with its age and whether it was sent SIGTERM or SIGKILL),
`orphans` the processes nobody awaits. Clocks count from where the code starts
its timers; event loops take no time (`Tick` waits for whatever is due), while
commands and clients take any time, and a command, even a killed one, may never
end. `Receive` stands for the checks of `handle_client` from the bytes read to
the first command. `CommandTimesOut`, `Sigkill` and `KilledExits` are
`run_command`'s timeout and `_kill_process`; `HandlerTimeout` cancels whichever
of these is awaited, and leaves the process behind. What a handler does is the
sequence of its commands (`Commands`), which failures it passes over
(`Tolerated`) and whether its end may raise (`MayRaise`). The handlers of the
domain actions are in `NginxAgent`; connections share nothing but the rate
limiter, so a single one shows every clock.

Folded together: the rejections of what is no proper request (size, JSON, keys,
token) are left out, since the client sends none; a handler's work beside its
commands takes no time.

### HostFiles

A request is a program of system calls (`CreateMailbox`, `DeleteMailbox`,
`AddCronJob`, `AddRecord`); none of these handlers awaits anything in between,
so one worker process serves one of them at a time and the workers interleave
step by step. A file is the set of entries its lines are about. Opening for
writing truncates; what is written goes to the start of the file, over what
others have appended since, so which of their lines survive is left open
(`Write`). `index` is what the program behind the file serves. postmap makes its
table before it returns; `rndc` returns when named has been asked (`queued`),
and `LoadZone` comes at any time after that, also while another request has the
file truncated. named loads a zone as a whole or keeps the one it has
(`Loadable`): without an SOA it refuses, and so it does for a set of records in
`Refused`, which stands for a malformed record and for two that conflict, since
`add_record` writes name and value unchecked. Tools may fail, or hang for ever
(no `timeout` is given); a worker whose event loop is blocked is killed after
gunicorn's `--timeout`; any worker may die.

Updates do get lost here, and the model says when: `exposed` collects the
entries that the code puts at risk (`Risked` when requests overlap, `Abandoned`
when one ends early, a failing `crontab -l`). The properties are about all
others, so they state exactly how far an acknowledgement can be relied upon:
not for an address another starts with, not across overlapping rewrites. They
do not find those losses: the losses happen, and the hazards about them in
`PROJECT.json` say so. A record may also be kept and never served:
`AcknowledgedServed` leaves the cases in which a load is still due or named
refuses the zone as it is on disk.

### Migration

`queue`, `runs` and `result` are Celery: messages by their number of retries,
the executions, the stored state. Messages are acknowledged late, so a lost
worker or the broker's visibility timeout brings them back, the latter beside
the execution that is still running. The rest is the host: user, home, lines
per mailbox, databases, vhost, pool, CageFS. Each step of `restore_account` is
an action, with its failure as another (`Raise` for what ends the restore,
`Done` for what is noted per mailbox or database); agent calls may also fail
after they have taken effect. The archive is what a parser makes of it: an
account, an exception, or an account without a name.

A step that is repeated starts again from what it finds. `tar.extract` replaces
every member and, run by root, gives it the owner the archive names: from
`StartExtract` on the home is in pieces and no longer wholly the account's,
until that run has ended (`EndExtract`) and `FixOwnership` has succeeded. The
owner `"mixed"` stands for the time after the home was the account's once. Two
runs that extract or import at the same time may leave what neither has in its
archive. `home.run` and `db[d].run` name the run that worked on each last,
alone.

### Usernames

`names` is the `linux_username` column by domain. A text is a sequence of
characters over a small alphabet; `derive_username` and
`generate_unique_username` are defined by what the code's substitutions and cuts
come to. The code's widths (32, 28, suffixes `_001` to `_999`) are constants,
scaled down so that truncation and exhaustion happen: the instance has domains
that differ only in punctuation, that are cut, whose cut leaves an underscore
or a text that looks like a suffix, that begin with a digit, and two reserved
names. Each request is one step here; the race between requests is in
`DomainApi`, where `Candidates` stands for the names this module computes.

### RateLimiter

`buckets` is `_RateLimiter._buckets`; equal time stamps are told apart by a
number, so a bucket is a set. `admitted` is a history variable. Both methods
hold a lock and await nothing inside it, so each is one action. The clock
is discrete and bounded by `MaxTime` in a run.

## Runs

| Run | Instance | Shows |
|---|---|---|
| `api_healthy` | 2 domains with names of their own, 2 connections, one request per domain at a time, all operations, `refuse` and `nosnippet`; 399,278 states | `TypeOK`; `RowMatchesDisk` and `RowTellsTheTruth`: rows, files, owners and what is served agree whenever nothing is under way; `SuspendedServesStub`; `PreservedIsSite`; `ImplementsService`: refinement of `DomainService` |
| `faults_one` | 1 domain, 1 connection, every failure but a bad vhost and a crash; 328,780 states | `TlsHasCert`, `RowsHaveOwnUser`, `BackupIsTransient` |
| `create_race` | 2 domains of one base name, both pre-isolation records at first, 2 connections, create and delete in any overlap; 678,228 states | `RowsHaveOwnUser`: the unique column settles the race |
| `requests_answered` | 1 domain, 1 connection, failing and hanging commands, crashes; 17,513 states | liveness `Answered` and `HandlersEnd`, under `TimedSpec`; `TlsHasCert` with crashes |
| `usernames` | 9 domains, 2 suffixes, names of at most 8 characters; 3,220 states | `GeneratedIsAccepted`, `TurnedAwayOnlyWhenFull` |
| `rate_limiter` | 2 peers, limit 2, window 2, time to 5; 41,897 states | `TypeOK`, `WindowBoundSoFar`, `RefusedOnlyWhenFull` |
| `agent_calls` | every call of the panel, those the agent refuses included, and malformed ones; a unit is 5 s: HANDLER_TIMEOUT and READ_TIMEOUT 12, REQUEST_TIMEOUT 2, grace 1, certbot 14; 5,654 states | `OkMeansDone`, `UnattendedAfterTimeout`, `LateMeansOver`, and under fairness `ConnectionsClose`; `TypeOK` |
| `host_files` | 2 workers, 3 requests, 2 addresses of which one starts with the other, 2 cron jobs, 2 records that named does not load together; 216,595 states | `AcknowledgedKept`, `AcknowledgedServed`, `DeletedGone`, under fairness `WorkersReturn`; `TypeOK` |
| `migration` | 1 mailbox, 1 database, three kinds of archives, 1 lost worker or redelivery; 1,315,006 states | `CleanIsComplete`, `ServedAfterOwner`, `LinesPerDelivery`, `OneOriginal`; `TypeOK` |
| `task_settles` | as `migration`, without a database; 253,146 states | under fairness `Settles` |
| `rejected_but_served`, `command_outlives` | small instances | expected violations, see Findings |

Further configurations are kept to be run by hand, as `tlc -config X.cfg M.tla`,
and are no part of the list in `PROJECT.json`. `api_sequential.cfg` (`MCDomainApi`)
has three domains, two of one base name and one pre-isolation record, one request
at a time: 43,672 states, in which `OneUserPerWebroot` holds through deletes and
re-creations, as is proved. Six others end in a violation and are described under
Findings.

Why these bounds. The agent's handlers share state per domain and the loaded
configuration across domains, so two domains and two connections already give
every pair of interleaved segments; `api_healthy` gives two requests the whole
alphabet. A failure needs no second request to be harmful, so `faults_one`
admits all failures and an orphaned command supplies the overlap; its one
connection may be used again and again. With any number of connections and
overlapping requests the properties are proved. Username collisions need two domains
of the same base name; that `create_race` begins with pre-isolation records only
adds the deletions that do not ask the agent. The rate limiter's instance has a limit of 2 in a window of 2
and runs to time 5, long enough for a window to pass twice.

`api_healthy` admits only failures that come before anything was changed
(`Benign`): with failed commits or killed commands the panel has no repair, and
rows and files do disagree (the findings below are cases of it). It has one
request per domain at a time: the endpoints do not lock a row between check and
commit, and two suspensions of one domain that both read an active row already
lose the preserved site. These limits are properties of the code, not of the
model.

The calls of `agent_calls` are all the panel makes; scaled time keeps the order
of the limits: each command's limit is below HANDLER_TIMEOUT except
`cagefsctl`'s, which equals it, and certbot's, 300 s, which is far beyond it and
stands as 14. `MaxAge` only stops clocks that nobody reads any more.
`host_files` needs two workers for every overlap of two requests and a third
request that comes after both. `migration` needs one loss to bring a message
back in the middle of any step; one mailbox and one database are enough because
the loops treat their entries alike and a failure of one changes nothing for
another. `task_settles` leaves the database out, since an import only adds
steps that end like any other: liveness over all of `migration`'s states takes
too long.

Deadlock is checked in every run but `host_files`, where the bound on requests
ends every behaviour, and `migration` and `task_settles`, where the task ends.

Fairness. `DomainApi`'s `TimedSpec`: a handler whose command has returned is resumed by the
event loop, an endpoint goes on once it has its answer, and HANDLER_TIMEOUT is
a timer of the agent's own loop. External commands get no fairness: they may
hang for ever. No fairness is assumed of clients, crashes or `OrphanRuns`.
`AgentCalls`: the event loops run what is ready or due, and time passes;
processes need not end. `HostFiles`: a worker that is not blocked goes on, a
tool that has not hung ends, and gunicorn's master kills a blocked worker.
`Migration`: messages are delivered and workers go on; agent calls end because
of READ_TIMEOUT, mysql and postmap are assumed to end, since nothing in the
code limits them.

### Findings

Each states what the repository's own comments and documents say of the program,
and TLC finds it violated by what the code does. Two are runs of `PROJECT.json`:

* `rejected_but_served` (`RejectedNotServed`): a creation that `nginx -t`
  rejects is rolled back without a reload, after another request's reload has
  loaded it.
* `command_outlives` (`TimeoutEnforced`): `run_command` promises that a command
  is terminated at its limit. certbot's limit is longer than the handler's:
  HANDLER_TIMEOUT cancels `run_command` at its await, no one signals the
  process, and it runs on without any limit.

The others are to be run by hand. The first four are configurations of
`MCDomainApi`, then one of `MCAgentCalls` and one of `MCMigration`. Three of them
check a property that is proved under `Healthy` and show where it ends.

* `preserved_config_lost` (`PreservedIsSite`): a suspension whose commit fails
  leaves the row active; the next suspension renames the 503 stub over the
  preserved site, which was to be "restored verbatim by unsuspend_domain"
  (`nginx.py:634`).
* `failed_unsuspend` (`SuspendedServesStub`): the rollback of an unsuspension
  renames the site back "so domain stays suspended" (`nginx.py:712`) but cannot
  restore the stub the first rename has replaced; the next reload ends the 503
  answers.
* `backup_lost` (`BackupKept`): "On failure: restore the backup" (`nginx.py:746`);
  of two rebuilds of one domain, the first to finish removes the backup the
  second would restore.
* `shared_user` (`OneUserPerWebroot`): two creations whose domains derive the
  same name pass the "defence against races" (`domains.py:126`) together, and
  both webroots get the same Linux user.
* `enable_ssl` (`EnableSslAccepted`): the comment at `domains.py:501` promises
  the domain's own webroot, "so certbot can verify"; the code passes the panel's
  ACME webroot, which the agent's rule for `ssl.issue` never accepts. No
  certificate can be requested for an existing domain.
* `ownership_left` (`OwnedAfterRestore`): file ownership is to be "corrected
  programmatically after every restore operation"
  (`docs/security-checklist.md:84`); a restore that raises inside the archive, or
  whose `user.fix_ownership` fails, ends as SUCCESS and leaves the files to the
  owner the archive names.

Met while modelling and not worth a run:

* the docstring of `derive_username` (`username.py:126`) gives `xn__nxasmq6b_com`
  as the name of `xn--nxasmq6b.com`; the code collapses the two underscores;
* `delete_mailbox` takes every address with the deleted one as its prefix
  (`mail_manager.py:74`); concurrent deletions, cron additions and record
  additions lose each other's updates (`exposed` in `HostFiles`);
* a restore that fails in the middle ends as SUCCESS for Celery, with the error
  inside the result (`restore_engine.py:96`);
* the panel's checks take what the agent's rules refuse: IPv6 networks in
  `block_ip` (`firewall_manager.py:20` and `validator.py:31`), domains with
  upper-case letters in `NginxManager` and `SSLManager` (`nginx_manager.py:22`
  and `validator.py:29`); the caller gets an error;
* a record that named cannot load with the rest of its zone stops every later
  change of that zone from being served, while each is acknowledged
  (`dns_manager.py:70`);
* `celery_app.py:12` includes `app.tasks.backup_tasks`, which does not exist;
* `block_ip`'s `duration_hours` is used by nothing, and `unblock_ip` deletes a
  rule by its handle where `block_ip` has added an element to a set;
* the systemd units withhold rights that the code needs (the agent's
  `ReadWritePaths` lack `/etc/letsencrypt` and `/etc/passwd`, the panel's lack
  the mail files and zones): the models take every process to have the rights
  its code needs.

## Proofs

Every safety property that a passing run checks is also the property of a
theorem, and `OneUserPerWebroot` besides. The theorems are about the specifications TLC runs, for every value of
the constants the modules' assumptions allow: any sets of domains, users,
connections, workers, any limits. A theorem that needs more says so in its
ASSUME, and each such hypothesis is described here. Most proofs have the
same shape: an inductive invariant, one lemma per action that it is kept, and
lemmas about the operators these need. `Usernames` needs none: its properties
hold of every table.

The modules' own assumptions are what the code makes true by its form: the
special values are no domains or users; the option sets are drawn from those
that exist; every address starts with itself, as every text does, and an SOA
record is none of the records `add_record` appends (`HostFiles`); a domain name
is a text, names are wide enough for a suffix, and suffixes have one digit
(`Usernames`, the code's three scaled down).

* `DomainApiProofs!SpecTypeOK`. `TypeOK` is not inductive: a segment writes at
  `dom[i]` and hands `usr[i]` to useradd, so the proof carries that a handler
  that is not idle has a domain (or is a service request) and, for a creation,
  a user, and that orphans have the arguments of their command. `TypeInv` adds
  exactly that.
* `DomainSafetyProofs!SpecTlsHasCert`. `CertInv` states the property file by
  file and adds that a creation which certbot has answered finds its
  certificate: no step ever removes one. Reloads copy `conf` to `live`, renames
  and backups copy files whose property is known, templates ask for the
  certificate first.
* `DomainSafetyProofs!SpecRowsHaveOwnUser`. `UserInv` says that a creation past
  useradd has its user, up to the answer in the channel, and `SpecHeldInv`
  ties the row a request holds to its domain. The unique column does the rest:
  a commit whose name was taken meanwhile fails.
* `DomainSafetyProofs!SpecBackupIsTransient`, assuming that `Faults` admits no
  crash (a crash does leave the file, and the next rebuild removes it). Every
  step of a handler leaves no backup of its domain unless it is inside the try
  statement after it, or was outside before; other connections are untouched.
* `DomainRecordProofs`: `RowMatchesDisk`, `RowTellsTheTruth`,
  `SuspendedServesStub`, `PreservedIsSite`, `OneUserPerWebroot` and the refinement
  `ImplementsService`, all under `Healthy`. `Healthy` admits the failures that
  come before anything was changed, and any number of requests at a time as
  long as no two are about one domain or about domains that may derive the same
  Linux user. None of this can be left out: `failed_unsuspend.cfg`,
  `preserved_config_lost.cfg` and `shared_user.cfg` are counterexamples with a
  failing command, a failing commit, and two creations of one base name.
  The properties speak of one domain, but a reload is shared: it loads the
  files of every domain at whatever point their requests are. So the invariant
  (`AgreeInv`) follows each request by what its handler has done with the files
  of its own domain and how much of that is loaded (`StageInv`), says that a
  domain without a request has the files of its row (`SettledInv`), and that
  `live` shows what the files say or what the row says and never a third thing
  (`LagInv`). A reload then moves any set of domains from one to the other,
  which is a `Serve` step of `DomainService`. The refinement also asks for
  `Legacy = {}`: deleting a pre-isolation record leaves its site served, and the
  abstract service has no such step.
* `AgentCallsProofs`, for any calls and any time limits. `Control` says which
  states of client, connection and processes go together (none is left behind
  before the connection is closed, none is awaited after), `Progress` that the
  commands before `step` have succeeded or may fail, `Clocks` that the handler's
  clock is the client's as long as the client waits. With them `OkMeansDone` and
  `UnattendedAfterTimeout` follow; `LateMeansOver` needs
  `READ_TIMEOUT >= HANDLER_TIMEOUT`, which two files of the code must agree on
  (60 seconds in both).
* `HostFilesProofs`, for any numbers of workers and requests, without further
  hypotheses: workers may die or be killed at any step, and tools hang or fail.
  `AcknowledgedKept` is not inductive, because a handler holds a copy of the
  file between its read and its write. `MailInv` says of each worker what it
  has read or written so far (`Creating`, `Removing`) and, of two workers whose
  requests overlap, that what one of them may undo for the other is in
  `exposed` already (`MailOverlap`); then a rewrite from a copy that is too old can
  only cost entries that are excepted. `CronInv` and `ZoneInv` are made the same
  way. For `AcknowledgedServed`, `ZoneKept` says that what must be kept is
  served, or a load is due, or the zone as it is on disk is refused, or an
  addition is at work whose own `rndc` is still to come: that one makes good a
  load that met the file truncated. The sets in `Refused` are arbitrary. That
  `exposed` is no larger than it must be is TLC's part: each property has a
  mutant that breaks it.
* `MigrationProofs`, for any numbers of losses, mailboxes and databases.
  `Restoring` says what a run at each step may rely on although another run may
  repeat an earlier step at any time: that the account exists, that the home has
  been its own once (`OwnerFirst`), and that what is marked as this run's alone
  is whole (`HasHome`, `HasDumps`; `SoleWriters` says that nobody else is at
  work on it). `Counting` bounds messages and runs together: a line that may
  still be written is in a message or in a run before its mailbox, a message of
  the first attempt is in the queue or held by one run, a result is stored once
  for each upload and each loss (`RestoreBound`), and the sum grows only with a
  loss or a redelivery. From that follows what holds as long as nothing is lost:
  only one run ever restores, and what is there is its work (`Undisturbed`).
  The parts of `CleanIsComplete` and `ServedAfterOwner` about `losses = 0` rest on
  it, the others on `Restoring`.
* `UsernamesProofs`. What a name consists of is shown along the normalisation:
  its alphabet by induction over the text (the least position at which the
  claim fails, from the library's theorem on well-founded sets), its length and
  first character from the cuts. `TurnedAwayOnlyWhenFull` needs that candidates
  with different suffixes differ, whatever is cut off in front of them: then
  all of them being taken or reserved takes as many names as there are suffixes.
* `RateLimiterProofs`. The invariant relates each bucket to the history: what
  is recent in the history is in the bucket. A window that ends at `t` has its
  last request at some time; when that was admitted, all others of the window
  were recent and in the bucket, which held fewer than `Max`. `WindowBound`
  quantifies over all times, `WindowBoundSoFar` is what TLC can enumerate.

Only model-checked: liveness (`Answered`, `HandlersEnd`, `ConnectionsClose`,
`WorkersReturn`, `Settles`), since fairness and ENABLED are beyond TLAPS as used
here. The modules use no RECURSIVE operators. `SpecAcknowledgedKept` and the
theorems beside it say nothing of entries in `exposed`, and the theorems under
`Healthy` nothing of a panel whose commands or commits fail; what holds then is
`TlsHasCert`, `RowsHaveOwnUser` and `BackupIsTransient`.

## Not modelled

See `components` in `PROJECT.json` for every part and the reason.

* Authentication: password hashing and signed tokens, left to libraries.
* Anomaly detection, advisor and assistant: averages of real numbers over a log
  and calls to an outside service; nothing else depends on their answers.
* Installer: phases of a shell script run once by hand.
* Renewal: `ssl_tasks.py:24` selects on `ssl_expiry`, which nothing writes, so the
  scan changes nothing; certbot's own timer renews.
* Firewall: the rules in force are nftables' state, which the panel neither
  records nor reads back; its calls are in `Allowlist`.
* Single-call managers (FTP, Imunify, the rest of the database manager),
  `setup_dkim`, `create_zone`: no state that two requests share, or no caller.

## Plan

Done: `NginxAgent`, `DomainApi`, `DomainService`, `RateLimiter`, `Usernames`,
`Allowlist`, `HostFiles`, `Migration` and `AgentCalls`, and a theorem for every
safety property of a passing run.

Next, theorems that say more than the runs' properties: `Healthy` with commands
that fail where the handlers repair what they did (a creation's useradd, a
rebuild's `nginx -t`); the refinement of `DomainService` with pre-isolation
records, which needs an abstract step for a site that outlives its record; and
action properties of `HostFiles` (an entry leaves a file only by a deletion or a
rewrite, so that `exposed` grows only with the request that is to blame).
