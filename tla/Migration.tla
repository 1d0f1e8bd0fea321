------------------------------ MODULE Migration ------------------------------
(***************************************************************************)
(* Restoring an uploaded account backup: the Celery task run_migration,    *)
(* the queue that delivers it, and the steps of RestoreEngine.             *)
(*                                                                         *)
(* Messages are acknowledged late (task_acks_late) and come back when a    *)
(* worker is lost (task_reject_on_worker_lost) or when they are not        *)
(* acknowledged within the broker's visibility timeout, then beside the    *)
(* execution that is still going on.  A run is one execution of the task.  *)
(***************************************************************************)
EXTENDS Naturals, Sequences, FiniteSets

CONSTANTS
    Mailboxes,      \* the mail accounts the parser found in the archive
    Databases,      \* the dumps it found
    Archives,       \* kinds of archives: "good", "unsafe" (the parser raises),
                    \* "anonymous" (it finds no user name)
    MaxLosses       \* bound: lost workers and visibility timeouts in a behaviour

ASSUME LossAssumption == MaxLosses \in Nat

VARIABLES
    archive,        \* the uploaded archive
    queue,          \* messages ready for delivery, by their number of retries
    runs,           \* the executions, in the order they began
    result,         \* what the result backend holds for the task
    losses,
    user,           \* the system user exists
    home,           \* its home: how much of the archive is there, whose it is
    lines,          \* lines of each mailbox in dovecot's file
    db,             \* each database: how much of its dump is there
    vhost, pool,    \* "none", "written" or "live"
    caged

host == <<user, home, lines, db, vhost, pool, caged>>
vars == <<archive, queue, runs, result, losses, host>>

\* run: the run that has worked on it last, 0 if several did at a time.
DbState == [state : {"none", "part", "full"}, run : Nat]

\* owner: whose the extracted files are.  "mixed": after they were the
\* account's, the archive's again in whole or in part.
HomeState ==
    [state : {"none", "part", "full"}, owner : {"none", "archive", "mixed", "account"},
     run : Nat]

Result ==
    [state : {"none", "PENDING", "RETRY", "SUCCESS", "FAILURE"}, clean : BOOLEAN, run : Nat]

Live(x) == x \in DOMAIN runs /\ runs[x].at # "over"
At(x, step) == x \in DOMAIN runs /\ runs[x].at = step

\* Run x goes on to a step.
To(x, step) == runs' = [runs EXCEPT ![x].at = step]

\* error: a step raised, or an entry of a loop has failed.
NewRun(n) ==
    [at |-> "parse", retries |-> n, held |-> TRUE, todo |-> {}, current |-> {},
     error |-> FALSE]

\* Run x ends.
Over(x) == runs' = [runs EXCEPT ![x] = [NewRun(@.retries) EXCEPT !.at = "over", !.held = FALSE]]

-----------------------------------------------------------------------------
(* The queue and the task.                                                 *)

\* upload_backup: the file is on disk, the message is published or the broker
\* refuses it.
Upload(published) ==
    /\ result.state = "none"
    /\ queue' = IF published THEN [queue EXCEPT ![0] = 1] ELSE queue
    /\ result' = [result EXCEPT !.state = IF published THEN "PENDING" ELSE "FAILURE"]
    /\ UNCHANGED <<archive, runs, losses, host>>

\* Mutant: the message is acknowledged when it is delivered.
DeliverAcked(n) ==
    /\ queue[n] > 0
    /\ queue' = [queue EXCEPT ![n] = @ - 1]
    /\ runs' = Append(runs, [NewRun(n) EXCEPT !.held = FALSE])
    /\ UNCHANGED <<archive, result, losses, host>>

\* Mutant: a delivery is counted as a retry.
DeliverCounted(n) ==
    /\ queue[n] > 0
    /\ queue' = [queue EXCEPT ![n] = @ - 1]
    /\ runs' = Append(runs, NewRun(n + 1))
    /\ UNCHANGED <<archive, result, losses, host>>

Deliver(n) ==
    /\ queue[n] > 0
    /\ queue' = [queue EXCEPT ![n] = @ - 1]
    /\ runs' = Append(runs, NewRun(n))
    /\ UNCHANGED <<archive, result, losses, host>>

\* The message of run x is not acknowledged yet and goes back to the queue.
Requeue(x) ==
    IF runs[x].held THEN queue' = [queue EXCEPT ![runs[x].retries] = @ + 1]
                    ELSE UNCHANGED queue

WorkerLost(x) ==
    /\ Live(x) /\ losses < MaxLosses
    /\ losses' = losses + 1
    /\ Requeue(x)
    /\ Over(x)
    /\ UNCHANGED <<archive, result, host>>

VisibilityTimeout(x) ==
    /\ Live(x) /\ runs[x].held /\ losses < MaxLosses
    /\ losses' = losses + 1
    /\ Requeue(x)
    /\ runs' = [runs EXCEPT ![x].held = FALSE]
    /\ UNCHANGED <<archive, result, host>>

\* The backend keeps a result once it is SUCCESS.
Stored(r) == result' = IF result.state = "SUCCESS" THEN result ELSE r

Parse(x) ==
    /\ At(x, "parse")
    /\ archive # "unsafe"
    /\ To(x, "user")
    /\ UNCHANGED <<archive, queue, result, losses, host>>

\* Mutant: the retry is published as a first attempt.
ParseRaisesForgets(x) ==
    /\ At(x, "parse")
    /\ queue' = [queue EXCEPT ![0] = @ + 1]
    /\ Stored([result EXCEPT !.state = "RETRY"])
    /\ To(x, "ack")
    /\ UNCHANGED <<archive, losses, host>>

\* Any exception up to the parser: retried once, in a new message, before the
\* old one is acknowledged.
ParseRaises(x) ==
    /\ At(x, "parse")
    /\ IF runs[x].retries = 0
       THEN queue' = [queue EXCEPT ![1] = @ + 1] /\ Stored([result EXCEPT !.state = "RETRY"])
       ELSE UNCHANGED queue /\ Stored([result EXCEPT !.state = "FAILURE"])
    /\ To(x, "ack")
    /\ UNCHANGED <<archive, losses, host>>

-----------------------------------------------------------------------------
(* RestoreEngine.restore_account.                                          *)

\* Mutant: the exception leaves the task, which retries it.
RaiseRetried(x) ==
    /\ IF runs[x].retries = 0 THEN queue' = [queue EXCEPT ![1] = @ + 1] ELSE UNCHANGED queue
    /\ To(x, "ack")
    /\ UNCHANGED <<archive, result, losses>>

\* A step raised: the rest is left out and the result says so.
Raise(x) ==
    /\ runs' = [runs EXCEPT ![x].at = "store", ![x].error = TRUE]
    /\ UNCHANGED <<archive, queue, result, losses>>

Passed(x, step) == To(x, step) /\ UNCHANGED <<archive, queue, result, losses>>

\* user.create accepts a user that exists; the agent refuses an empty name.
CreateUser(x) ==
    /\ At(x, "user") /\ archive # "anonymous"
    /\ user' = TRUE
    /\ Passed(x, "home") \/ Raise(x)        \* an answer that is lost
    /\ UNCHANGED <<home, lines, db, vhost, pool, caged>>

CreateUserFails(x) == At(x, "user") /\ Raise(x) /\ UNCHANGED host

Extracting == {x \in DOMAIN runs : At(x, "extract")}

\* Members are extracted one by one and replace what is there, as files of
\* the owner the archive names: a home that is complete and the account's is
\* neither while a run extracts again.
StartExtract(x) ==
    /\ At(x, "home")
    /\ home' = [state |-> "part",
                owner |-> IF home.owner \in {"none", "archive"} THEN "archive" ELSE "mixed",
                run |-> IF Extracting = {} THEN x ELSE 0]
    /\ Passed(x, "extract")
    /\ UNCHANGED <<user, lines, db, vhost, pool, caged>>

\* A file that two runs write at a time may come out as neither's.
EndExtract(x) ==
    /\ At(x, "extract")
    /\ \E s \in {"part", "full"} :
        /\ home.run = x => s = "full"
        /\ Extracting # {x} => s = "part"
        /\ home' = [home EXCEPT !.state = s]
    /\ Passed(x, "ownership")
    /\ UNCHANGED <<user, lines, db, vhost, pool, caged>>

\* The files become the account's, except for those another run extracts
\* meanwhile; or the answer is lost.  After it, the list of what is left to do
\* in a loop over accounts or dumps.
FixOwnership(x) ==
    /\ At(x, "ownership")
    /\ \E o \in {"mixed", "account"} :
        /\ home.run = x \/ home.owner = "account" => o = "account"
        /\ Extracting # {} => o = "mixed"
        /\ home' = [home EXCEPT !.owner = o]
    /\ \/ /\ runs' = [runs EXCEPT ![x].at = "mail", ![x].todo = Mailboxes]
          /\ UNCHANGED <<archive, queue, result, losses>>
       \/ Raise(x)
    /\ UNCHANGED <<user, lines, db, vhost, pool, caged>>

\* Mutant: the restore goes on with the files of the archive's owner.
FixOwnershipFailsIgnored(x) ==
    /\ At(x, "ownership")
    /\ runs' = [runs EXCEPT ![x].at = "mail", ![x].todo = Mailboxes]
    /\ UNCHANGED <<archive, queue, result, losses, host>>

FixOwnershipFails(x) == At(x, "ownership") /\ Raise(x) /\ UNCHANGED host

\* Mutant: the exception is dropped.
DoneSilently(x, e, ok) == runs' = [runs EXCEPT ![x].todo = @ \ {e}, ![x].current = {}]

\* Entry e of a loop is done; an exception is noted and the loop goes on.
Done(x, e, ok) ==
    runs' = [runs EXCEPT ![x].todo = @ \ {e}, ![x].current = {},
                         ![x].error = @ \/ ~ok]

\* create_mailbox adds its lines whatever is there; it may fail before that,
\* or after it (postmap).
RestoreMailbox(x, m) ==
    /\ At(x, "mail") /\ m \in runs[x].todo
    /\ \/ lines' = [lines EXCEPT ![m] = @ + 1] /\ \E ok \in BOOLEAN : Done(x, m, ok)
       \/ UNCHANGED lines /\ Done(x, m, FALSE)
    /\ UNCHANGED <<archive, queue, result, losses, user, home, db, vhost, pool, caged>>

MailboxesDone(x) ==
    /\ At(x, "mail") /\ runs[x].todo = {}
    /\ runs' = [runs EXCEPT ![x].at = "databases", ![x].todo = Databases]
    /\ UNCHANGED <<archive, queue, result, losses, host>>

Importing(d) == {x \in DOMAIN runs : At(x, "databases") /\ d \in runs[x].current}

\* create_database, then mysql starts to read the dump, which drops and
\* creates the tables.
StartImport(x, d) ==
    /\ At(x, "databases") /\ runs[x].current = {} /\ d \in runs[x].todo
    /\ runs' = [runs EXCEPT ![x].current = {d}]
    /\ db' = [db EXCEPT ![d] = [state |-> "part", run |-> IF Importing(d) = {} THEN x ELSE 0]]
    /\ UNCHANGED <<archive, queue, result, losses, user, home, lines, vhost, pool, caged>>

\* No such member, a name that is not accepted, no connection.
DatabaseFails(x, d) ==
    /\ At(x, "databases") /\ runs[x].current = {} /\ d \in runs[x].todo
    /\ Done(x, d, FALSE)
    /\ UNCHANGED <<archive, queue, result, losses, host>>

\* While another import of the same dump is under way the database stays a
\* part, and after two at a time it may be one.
EndImport(x, d, ok) ==
    /\ x \in Importing(d)
    /\ \E s \in {"part", "full"} :
        /\ db[d].run = x => s = (IF ok THEN "full" ELSE "part")
        /\ Importing(d) # {x} => s = "part"
        /\ db' = [db EXCEPT ![d].state = s]
    /\ Done(x, d, ok)
    /\ UNCHANGED <<archive, queue, result, losses, user, home, lines, vhost, pool, caged>>

DatabasesDone(x) ==
    /\ At(x, "databases") /\ runs[x].todo = {}
    /\ Passed(x, "vhost")
    /\ UNCHANGED host

\* nginx.write_vhost and nginx.reload; a vhost that is live is replaced by
\* the same text.
WriteVhost(x) ==
    /\ At(x, "vhost")
    /\ vhost' = IF vhost = "none" THEN "written" ELSE vhost
    /\ Passed(x, "reload") \/ Raise(x)
    /\ UNCHANGED <<user, home, lines, db, pool, caged>>

Reload(x) ==
    /\ At(x, "reload")
    /\ vhost' = "live"
    /\ Passed(x, "pool") \/ Raise(x)
    /\ UNCHANGED <<user, home, lines, db, pool, caged>>

\* phpfpm.write_pool and phpfpm.reload.
WritePool(x) ==
    /\ At(x, "pool")
    /\ pool' = IF pool = "none" THEN "written" ELSE pool
    /\ Passed(x, "fpm") \/ Raise(x)
    /\ UNCHANGED <<user, home, lines, db, vhost, caged>>

ReloadFpm(x) ==
    /\ At(x, "fpm")
    /\ pool' = "live"
    /\ Passed(x, "cagefs") \/ Raise(x)
    /\ UNCHANGED <<user, home, lines, db, vhost, caged>>

EnableCagefs(x) ==
    /\ At(x, "cagefs")
    /\ caged' = TRUE
    /\ Passed(x, "store") \/ Raise(x)
    /\ UNCHANGED <<user, home, lines, db, vhost, pool>>

\* A call of the agent fails, the archive cannot be opened, or a member of it
\* cannot be written.
StepFails(x) ==
    /\ x \in DOMAIN runs
    /\ runs[x].at \in {"home", "extract", "vhost", "reload", "pool", "fpm", "cagefs"}
    /\ Raise(x)
    /\ UNCHANGED host

-----------------------------------------------------------------------------
\* The task returns results, errors or not: Celery stores SUCCESS, and
\* acknowledges the message afterwards.
StoreResult(x) ==
    /\ At(x, "store")
    /\ Stored([state |-> "SUCCESS", clean |-> ~runs[x].error, run |-> x])
    /\ To(x, "ack")
    /\ UNCHANGED <<archive, queue, losses, host>>

Acknowledge(x) ==
    /\ At(x, "ack")
    /\ Over(x)
    /\ UNCHANGED <<archive, queue, result, losses, host>>

Init ==
    /\ archive \in Archives
    /\ queue = [n \in {0, 1} |-> 0]
    /\ runs = <<>>
    /\ result = [state |-> "none", clean |-> FALSE, run |-> 0]
    /\ losses = 0
    /\ user = FALSE /\ home = [state |-> "none", owner |-> "none", run |-> 0]
    /\ lines = [m \in Mailboxes |-> 0]
    /\ db = [d \in Databases |-> [state |-> "none", run |-> 0]]
    /\ vhost = "none" /\ pool = "none" /\ caged = FALSE

\* What a worker does with the task it runs.
Step(x) ==
    \/ Parse(x) \/ ParseRaises(x)
    \/ CreateUser(x) \/ CreateUserFails(x) \/ StartExtract(x) \/ EndExtract(x)
    \/ FixOwnership(x) \/ FixOwnershipFails(x)
    \/ MailboxesDone(x) \/ DatabasesDone(x)
    \/ \E m \in Mailboxes : RestoreMailbox(x, m)
    \/ \E d \in Databases :
          StartImport(x, d) \/ DatabaseFails(x, d) \/ \E ok \in BOOLEAN : EndImport(x, d, ok)
    \/ WriteVhost(x) \/ Reload(x) \/ WritePool(x) \/ ReloadFpm(x) \/ EnableCagefs(x)
    \/ StepFails(x) \/ StoreResult(x) \/ Acknowledge(x)

\* Deliveries that a behaviour can need: every loss brings one back, and
\* every first execution may publish a retry.
MaxRuns == 2 + 2 * MaxLosses

Next ==
    \/ \E published \in BOOLEAN : Upload(published)
    \/ \E n \in {0, 1} : Deliver(n)
    \/ \E x \in DOMAIN runs : Step(x) \/ WorkerLost(x) \/ VisibilityTimeout(x)

\* Workers take messages and go on; agent calls end (AgentCalls), and so, it
\* is assumed, do mysql and postmap, which have no timeout.
Spec ==
    /\ Init /\ [][Next]_vars
    /\ \A n \in {0, 1} : WF_vars(Deliver(n))
    /\ \A x \in 1..MaxRuns : WF_vars(Step(x))

-----------------------------------------------------------------------------
Steps ==
    {"parse", "user", "home", "extract", "ownership", "mail", "databases", "vhost", "reload",
     "pool", "fpm", "cagefs", "store", "ack", "over"}

\* Types; a task is retried at most once (max_retries) and runs no more often
\* than its messages were lost or retried.
TypeOK ==
    /\ archive \in Archives
    /\ queue \in [{0, 1} -> 0..MaxRuns]
    /\ runs \in Seq([at : Steps, retries : {0, 1}, held : BOOLEAN,
                     todo : SUBSET (Mailboxes \cup Databases), current : SUBSET Databases,
                     error : BOOLEAN])
    /\ Len(runs) <= MaxRuns
    /\ result \in Result
    /\ losses \in 0..MaxLosses
    /\ user \in BOOLEAN /\ home \in HomeState
    /\ lines \in [Mailboxes -> Nat] /\ db \in [Databases -> DbState]
    /\ {vhost, pool} \subseteq {"none", "written", "live"} /\ caged \in BOOLEAN

\* A result without any error tells the truth, and goes on telling it while
\* other executions of the same task repeat its steps: only the home and the
\* databases may be in pieces again, and only where another run has worked on
\* them since, or at the same time, for which a message was delivered again.
CleanIsComplete ==
    result.state = "SUCCESS" /\ result.clean =>
        /\ user /\ vhost = "live" /\ pool = "live" /\ caged
        /\ \A m \in Mailboxes : lines[m] >= 1
        /\ home.run = result.run => home.state = "full" /\ home.owner = "account"
        /\ \A d \in Databases : db[d].run = result.run => db[d].state = "full"
        /\ losses = 0 => \A r \in {home.run} \cup {db[d].run : d \in Databases} : r = result.run

\* php-fpm is never given a pool, nor nginx a vhost, of a user who does not
\* exist or whose home has not become his, whatever failed before.  That it is
\* not his any more takes a message that was delivered again.
ServedAfterOwner ==
    /\ vhost # "none" =>
        /\ user /\ home.owner \in {"account", "mixed"}
        /\ losses = 0 => home.owner = "account"
    /\ pool # "none" => vhost = "live"

\* "File ownership and permissions corrected programmatically after every
\* restore operation" (docs/security-checklist.md): not after one that raises
\* in the middle of the archive.
OwnedAfterRestore ==
    result.state = "SUCCESS" => home.owner \in {"none", "account"}

\* A mailbox is added again only because a message was delivered again, never
\* by the task's own retry: what is retried has restored nothing.
LinesPerDelivery == \A m \in Mailboxes : lines[m] <= 1 + losses

\* There is one message of the first attempt, ready or being worked on,
\* however often it comes back, and none before the retry is published.
OneOriginal ==
    queue[0] + Cardinality({x \in DOMAIN runs : Live(x) /\ runs[x].held /\ runs[x].retries = 0})
        <= 1

\* The status of a task that was queued comes to rest at SUCCESS or FAILURE,
\* although workers die in the middle.
Settles == <>[](result.state \in {"none", "SUCCESS", "FAILURE"})

=============================================================================
