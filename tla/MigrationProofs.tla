--------------------------- MODULE MigrationProofs ---------------------------
(***************************************************************************)
(* Theorems about Migration, for any mailboxes, databases, archives and    *)
(* any bound on lost workers.                                              *)
(*                                                                         *)
(* The inductive invariant has three parts.  Restoring: what each run has  *)
(* passed is there, except where another run has worked since (Progress),  *)
(* and a run without an error has left nothing out (Truth, ResultTruth).   *)
(* Counting: every line of a mailbox, every result, every message and      *)
(* every run that may still add one is paid for by the upload or by a loss *)
(* (LinesBound, RestoreBound, RunsBound, OriginalBound).  Types: TypeOK    *)
(* without the limits that RunsBound gives.  On top of it, Undisturbed:    *)
(* while nothing is lost there is one run that restores, and all that is   *)
(* restored is its work.                                                   *)
(***************************************************************************)
EXTENDS Migration, SequenceTheorems, FiniteSetTheorems, TLAPS

Run == [at : Steps, retries : {0, 1}, held : BOOLEAN,
        todo : SUBSET (Mailboxes \cup Databases), current : SUBSET Databases,
        error : BOOLEAN]

HostTypes ==
    /\ user \in BOOLEAN /\ home \in HomeState
    /\ lines \in [Mailboxes -> Nat] /\ db \in [Databases -> DbState]
    /\ vhost \in {"none", "written", "live"} /\ pool \in {"none", "written", "live"}
    /\ caged \in BOOLEAN

Types ==
    /\ archive \in Archives
    /\ queue \in [{0, 1} -> Nat]
    /\ runs \in Seq(Run)
    /\ result \in Result
    /\ losses \in 0..MaxLosses
    /\ HostTypes

-----------------------------------------------------------------------------
(* Restoring.                                                              *)

\* The steps from one on to the end of the restore.
FromFpm == {"fpm", "cagefs"}
FromPool == {"pool"} \cup FromFpm
FromReload == {"reload"} \cup FromPool
FromVhost == {"vhost"} \cup FromReload
FromDatabases == {"databases"} \cup FromVhost
FromMail == {"mail"} \cup FromDatabases

LoopOK(r) ==
    /\ r.current \subseteq r.todo
    /\ r.current # {} => r.at = "databases"
    /\ r.at = "mail" => r.todo \subseteq Mailboxes
    /\ r.at = "databases" => r.todo \subseteq Databases
    /\ r.at = "over" => ~r.held

Given == home.owner \in {"account", "mixed"}

\* What run x has made of the home, as long as no other works on it.
HasFiles(x) == home.run = x => home.state = "full"
HasHome(x) == home.run = x => home.state = "full" /\ home.owner = "account"

\* What run x has passed when it has come to a step.
Progress(x, at) ==
    /\ at \in {"home", "extract", "ownership"} \cup FromMail => user
    /\ at = "ownership" => HasFiles(x)
    /\ at \in FromMail => Given /\ HasHome(x)
    /\ at \in FromReload => vhost # "none"
    /\ at \in FromPool => vhost = "live"
    /\ at \in FromFpm => pool # "none"
    /\ at = "cagefs" => pool = "live"

HasLines(M) == \A m \in M : lines[m] >= 1
HasDumps(D, x) == \A d \in D : db[d].run = x => db[d].state = "full"
Served == user /\ vhost = "live" /\ pool = "live" /\ caged

\* What run x has restored if it has seen no error.
Truth(x, r) ==
    ~r.error =>
        /\ r.at = "mail" => HasLines(Mailboxes \ r.todo)
        /\ r.at \in FromDatabases \cup {"store"} => HasLines(Mailboxes)
        /\ r.at = "databases" => HasDumps(Databases \ r.todo, x)
        /\ r.at \in FromVhost \cup {"store"} => HasDumps(Databases, x)
        /\ r.at = "store" => Served /\ HasHome(x)

ResultTruth ==
    result.state = "SUCCESS" /\ result.clean =>
        /\ result.run \in DOMAIN runs
        /\ runs[result.run].at \in {"ack", "over"}
        /\ Served /\ HasHome(result.run)
        /\ HasLines(Mailboxes) /\ HasDumps(Databases, result.run)

\* nginx and php-fpm are given what is of a user and of a home that was his.
OwnerFirst ==
    /\ vhost # "none" => user /\ Given
    /\ pool # "none" => vhost = "live"

\* Where a run is named as the last, no other is at work.
SoleWriters ==
    /\ home.run # 0 => Extracting \subseteq {home.run}
    /\ \A d \in Databases : db[d].run # 0 => Importing(d) \subseteq {db[d].run}

RunsOK ==
    \A x \in DOMAIN runs : LoopOK(runs[x]) /\ Progress(x, runs[x].at) /\ Truth(x, runs[x])

Restoring == RunsOK /\ ResultTruth /\ OwnerFirst /\ SoleWriters

-----------------------------------------------------------------------------
(* Counting.                                                               *)

Uploads == IF result.state = "none" THEN 0 ELSE 1

\* The runs that may still add mailbox m, that may still store a result, that
\* may still publish a retry, and that hold the message of the first attempt.
MayAdd(r, m) ==
    \/ r.at \in {"parse", "user", "home", "extract", "ownership"}
    \/ r.at = "mail" /\ m \in r.todo
MayStore(r) == r.at \notin {"ack", "over"}
MayRetry(r) == r.at = "parse" /\ r.retries = 0
HoldsFirst(r) == r.at # "over" /\ r.held /\ r.retries = 0

Adders(m) == {x \in DOMAIN runs : MayAdd(runs[x], m)}
Restorers == {x \in DOMAIN runs : MayStore(runs[x])}
Retriers == {x \in DOMAIN runs : MayRetry(runs[x])}
Holders == {x \in DOMAIN runs : HoldsFirst(runs[x])}

LinesBound ==
    \A m \in Mailboxes :
        lines[m] + Cardinality(Adders(m)) + queue[0] + queue[1] <= Uploads + losses

One(b) == IF b THEN 1 ELSE 0

RestoreBound ==
    One(result.state = "SUCCESS") + Cardinality(Restorers) + queue[0] + queue[1]
        <= Uploads + losses

RunsBound ==
    Len(runs) + 2 * queue[0] + queue[1] + Cardinality(Retriers) <= 2 * (Uploads + losses)

OriginalBound == queue[0] + Cardinality(Holders) <= Uploads

Counting == LinesBound /\ RestoreBound /\ RunsBound /\ OriginalBound

IInv == Types /\ Restoring /\ Counting

-----------------------------------------------------------------------------
(* Without losses.                                                         *)

\* The home and the databases are the work of run x, as far as it has come.
Mine(x, r) ==
    /\ r.at \in {"extract", "ownership"} \cup FromMail => home.run = x
    /\ ~r.error =>
        /\ r.at = "store" => home.run = x
        /\ r.at = "databases" =>
              \A d \in (Databases \ r.todo) \cup r.current : db[d].run = x
        /\ r.at \in FromVhost \cup {"store"} => \A d \in Databases : db[d].run = x

WrittenBy(x) == home.run = x /\ \A d \in Databases : db[d].run = x

\* What there is of a vhost is of the run that restores, or of the result.
Undisturbed ==
    losses = 0 =>
        /\ \A x \in DOMAIN runs : Mine(x, runs[x])
        /\ result.state = "SUCCESS" /\ result.clean => WrittenBy(result.run)
        /\ vhost # "none" =>
            /\ home.owner = "account"
            /\ \/ result.state = "SUCCESS"
               \/ \E x \in DOMAIN runs : runs[x].at \in FromReload \cup {"store"}

-----------------------------------------------------------------------------
(* Types.                                                                  *)

\* Replacing the record of one run.
LEMMA Replace ==
    ASSUME Types, NEW x \in DOMAIN runs, NEW r \in Run
    PROVE  /\ [runs EXCEPT ![x] = r] \in Seq(Run)
           /\ Len([runs EXCEPT ![x] = r]) = Len(runs)
           /\ DOMAIN [runs EXCEPT ![x] = r] = DOMAIN runs
<1>1. runs \in Seq(Run) /\ x \in 1..Len(runs)
    BY DEF Types
<1> QED
    BY <1>1, ExceptSeq

\* r is run x's record after a step of it.
Becomes(x, r) ==
    /\ x \in DOMAIN runs /\ r \in Run
    /\ runs' = [runs EXCEPT ![x] = r]

LEMMA BecomesType ==
    ASSUME Types, NEW x, NEW r, Becomes(x, r)
    PROVE  /\ runs' \in Seq(Run) /\ Len(runs') = Len(runs) /\ DOMAIN runs' = DOMAIN runs
           /\ runs'[x] = r /\ \A y \in DOMAIN runs \ {x} : runs'[y] = runs[y]
BY Replace DEF Becomes

LEMMA RunAt ==
    ASSUME Types, NEW x \in DOMAIN runs
    PROVE  runs[x] \in Run /\ x \in 1..Len(runs)
BY DEF Types

LEMMA ToBecomes ==
    ASSUME Types, NEW x \in DOMAIN runs, NEW s \in Steps, To(x, s)
    PROVE  Becomes(x, [runs[x] EXCEPT !.at = s])
<1>1. runs[x] \in Run
    BY RunAt
<1> QED
    BY <1>1 DEF To, Becomes, Run

LEMMA RaiseBecomes ==
    ASSUME Types, NEW x \in DOMAIN runs, Raise(x)
    PROVE  Becomes(x, [runs[x] EXCEPT !.at = "store", !.error = TRUE])
<1>1. runs[x] \in Run
    BY RunAt
<1> QED
    BY <1>1 DEF Raise, Becomes, Run, Steps

LEMMA DoneBecomes ==
    ASSUME Types, NEW x \in DOMAIN runs, NEW e, NEW ok \in BOOLEAN, Done(x, e, ok)
    PROVE  Becomes(x, [runs[x] EXCEPT !.todo = @ \ {e}, !.current = {}, !.error = @ \/ ~ok])
<1>1. runs[x] \in Run
    BY RunAt
<1>2. runs[x].error \in BOOLEAN /\ (runs[x].error \/ ~ok) \in BOOLEAN
    BY <1>1 DEF Run
<1>3. [runs[x] EXCEPT !.todo = @ \ {e}, !.current = {}, !.error = @ \/ ~ok] \in Run
    BY <1>1, <1>2 DEF Run
<1> QED
    BY <1>3 DEF Done, Becomes

LEMMA OverBecomes ==
    ASSUME Types, NEW x \in DOMAIN runs, Over(x)
    PROVE  Becomes(x, [NewRun(runs[x].retries) EXCEPT !.at = "over", !.held = FALSE])
<1>1. runs[x] \in Run
    BY RunAt
<1>2. [NewRun(runs[x].retries) EXCEPT !.at = "over", !.held = FALSE] \in Run
    BY <1>1 DEF NewRun, Run, Steps
<1> QED
    BY <1>2 DEF Over, Becomes

-----------------------------------------------------------------------------
(* What a step of one run has to do with the others.                       *)

\* Nothing that is restored goes away; where another run is named as the last,
\* what it has done stays.
Monotone(x) ==
    /\ user => user'
    /\ Given => Given'
    /\ \/ home'.run \in {0, x}
       \/ /\ home'.run = home.run
          /\ home.state = "full" => home'.state = "full"
          /\ home.owner = "account" => home'.owner = "account"
    /\ vhost # "none" => vhost' # "none"
    /\ vhost = "live" => vhost' = "live"
    /\ pool # "none" => pool' # "none"
    /\ pool = "live" => pool' = "live"
    /\ caged => caged'
    /\ \A m \in Mailboxes : lines'[m] \in Nat /\ lines'[m] >= lines[m]
    /\ \A d \in Databases : db'[d] = db[d] \/ db'[d].run \in {0, x}

LEMMA OthersKeep ==
    ASSUME Types, RunsOK, NEW x, NEW r, Becomes(x, r), Monotone(x),
           NEW y \in DOMAIN runs \ {x}
    PROVE  LoopOK(runs[y])' /\ Progress(y, runs[y].at)' /\ Truth(y, runs[y])'
<1>1. runs'[y] = runs[y] /\ y # 0
    BY BecomesType, RunAt
<1>2. LoopOK(runs[y]) /\ Progress(y, runs[y].at) /\ Truth(y, runs[y])
    BY DEF RunsOK
<1>7. (HasFiles(y) => HasFiles(y)') /\ (HasHome(y) => HasHome(y)')
    BY <1>1 DEF HasFiles, HasHome, Monotone
<1>3. Progress(y, runs[y].at)'
    BY <1>1, <1>2, <1>7 DEF Progress, Monotone
<1>4. ASSUME NEW M \in SUBSET Mailboxes, HasLines(M)
      PROVE  HasLines(M)'
    BY <1>4 DEF HasLines, Monotone, Types, HostTypes
<1>5. ASSUME NEW D \in SUBSET Databases, HasDumps(D, y)
      PROVE  HasDumps(D, y)'
    BY <1>1, <1>5 DEF HasDumps, Monotone
<1>6. Truth(y, runs[y])'
    <2> SUFFICES ASSUME ~runs[y].error, runs'[y] = runs[y]
                 PROVE  Truth(y, runs[y])'
        BY <1>1 DEF Truth
    <2>1. runs[y].at = "mail" => HasLines(Mailboxes \ runs[y].todo)'
        BY <1>2, <1>4 DEF Truth
    <2>2. runs[y].at \in FromDatabases \cup {"store"} => HasLines(Mailboxes)'
        BY <1>2, <1>4 DEF Truth
    <2>3. runs[y].at = "databases" => HasDumps(Databases \ runs[y].todo, y)'
        BY <1>2, <1>5 DEF Truth
    <2>4. runs[y].at \in FromVhost \cup {"store"} => HasDumps(Databases, y)'
        BY <1>2, <1>5 DEF Truth
    <2>5. runs[y].at = "store" => Served' /\ HasHome(y)'
        BY <1>2, <1>7 DEF Truth, Served, Monotone
    <2> QED
        BY <1>1, <2>1, <2>2, <2>3, <2>4, <2>5 DEF Truth
<1> QED
    BY <1>1, <1>2, <1>3, <1>6

\* Whoever has not just begun to work on something is still the last.
LEMMA SoleKept ==
    ASSUME Types, SoleWriters, NEW x, NEW r, Becomes(x, r), home'.run = home.run,
           r.at = "extract" => runs[x].at = "extract",
           \A d \in Databases :
              /\ db'[d].run = db[d].run
              /\ r.at = "databases" /\ d \in r.current =>
                    runs[x].at = "databases" /\ d \in runs[x].current
    PROVE  SoleWriters'
<1>1. /\ DOMAIN runs' = DOMAIN runs /\ runs'[x] = r /\ x \in DOMAIN runs
      /\ \A y \in DOMAIN runs \ {x} : runs'[y] = runs[y]
    BY BecomesType DEF Becomes
<1>2. Extracting' \subseteq Extracting
    BY <1>1 DEF Extracting, At
<1>3. \A d \in Databases : Importing(d)' \subseteq Importing(d)
    BY <1>1 DEF Importing, At
<1> QED
    BY <1>2, <1>3 DEF SoleWriters

\* A step of run x that stores no result.
LEMMA StepKeeps ==
    ASSUME Types, Restoring, NEW x, NEW r, Becomes(x, r), Monotone(x),
           LoopOK(r), Progress(x, r.at)', Truth(x, r)', OwnerFirst', SoleWriters',
           UNCHANGED result,
           runs[x].at \in {"ack", "over"} => r.at \in {"ack", "over"} /\ UNCHANGED <<home, db>>
    PROVE  Restoring'
<1>1. RunsOK'
    <2> SUFFICES ASSUME NEW y \in DOMAIN runs'
                 PROVE  LoopOK(runs[y])' /\ Progress(y, runs[y].at)' /\ Truth(y, runs[y])'
        BY DEF RunsOK
    <2>1. CASE y = x
        BY <2>1, BecomesType
    <2>2. CASE y # x
        BY <2>2, BecomesType, OthersKeep DEF Restoring
    <2> QED
        BY <2>1, <2>2
<1>2. ResultTruth'
    <2> SUFFICES ASSUME result.state = "SUCCESS", result.clean
                 PROVE  /\ result.run \in DOMAIN runs'
                        /\ runs'[result.run].at \in {"ack", "over"}
                        /\ Served' /\ HasHome(result.run)'
                        /\ HasLines(Mailboxes)' /\ HasDumps(Databases, result.run)'
        BY DEF ResultTruth
    <2> DEFINE z == result.run
    <2>1. /\ z \in DOMAIN runs /\ runs[z].at \in {"ack", "over"}
          /\ Served /\ HasHome(z) /\ HasLines(Mailboxes) /\ HasDumps(Databases, z) /\ z # 0
        BY RunAt DEF Restoring, ResultTruth
    <2>2. z \in DOMAIN runs' /\ runs'[z].at \in {"ack", "over"}
        BY <2>1, BecomesType
    <2>3. Served' /\ HasLines(Mailboxes)'
        BY <2>1 DEF Served, HasLines, Monotone, Types, HostTypes
    <2>4. ASSUME NEW d \in Databases, db'[d].run = z
          PROVE  db'[d].state = "full"
        <3>1. db'[d] = db[d]
            BY <2>1, <2>4 DEF Monotone
        <3> QED
            BY <2>1, <2>4, <3>1 DEF HasDumps
    <2>5. HasHome(z)'
        BY <2>1 DEF HasHome, Monotone
    <2> QED
        BY <2>2, <2>3, <2>4, <2>5 DEF HasDumps
<1> QED
    BY <1>1, <1>2 DEF Restoring

\* What a step of run x costs: nothing, a line that it might add, the result it
\* might store, or the retry that it might publish.
Pays(x, r) ==
    /\ UNCHANGED losses
    /\ result.state # "none" => result'.state # "none"
    /\ r.retries = runs[x].retries
    /\ HoldsFirst(r) => HoldsFirst(runs[x])
    /\ MayRetry(r) => MayRetry(runs[x])
    /\ MayStore(r) => MayStore(runs[x])
    /\ \A m \in Mailboxes : MayAdd(r, m) => MayAdd(runs[x], m)
    /\ \/ result'.state = "SUCCESS" => result.state = "SUCCESS"
       \/ UNCHANGED queue /\ MayStore(runs[x]) /\ ~MayStore(r)
    /\ \/ UNCHANGED <<queue, lines>>
       \/ /\ UNCHANGED queue
          /\ \E m \in Mailboxes :
                lines' = [lines EXCEPT ![m] = @ + 1] /\ MayAdd(runs[x], m) /\ ~MayAdd(r, m)
       \/ /\ UNCHANGED lines
          /\ queue' = [queue EXCEPT ![1] = @ + 1]
          /\ MayRetry(runs[x]) /\ r.at = "ack"

\* What every step of run x achieves.
Sound(x) == Types' /\ Restoring' /\ \E r : Becomes(x, r) /\ Pays(x, r)

-----------------------------------------------------------------------------
(* The steps of a run.                                                     *)

\* What the parser, the agent's calls and the loops before and after them
\* leave alone of the host.
HostStep(x) ==
    /\ HostTypes' /\ Monotone(x) /\ OwnerFirst'
    /\ UNCHANGED <<lines, db>> /\ home'.run = home.run

LEMMA HostUnchanged ==
    ASSUME Types, Restoring, NEW x, UNCHANGED host
    PROVE  HostStep(x)
BY DEF HostStep, host, Types, HostTypes, Monotone, Restoring, OwnerFirst, Given

AgentSteps == {"user", "home", "extract", "ownership", "vhost", "reload", "pool", "fpm", "cagefs"}

LEMMA RaiseSound ==
    ASSUME Types, Restoring, NEW x \in DOMAIN runs, Raise(x), HostStep(x),
           runs[x].at \in AgentSteps
    PROVE  Sound(x)
<1>0. runs[x] \in Run /\ LoopOK(runs[x])
    BY RunAt DEF Restoring, RunsOK
<1>1. PICK r : r = [runs[x] EXCEPT !.at = "store", !.error = TRUE]
    OBVIOUS
<1>2. Becomes(x, r)
    BY <1>1, RaiseBecomes
<1>3. /\ r.at = "store" /\ r.error /\ r.todo = runs[x].todo /\ r.current = runs[x].current
      /\ r.held = runs[x].held /\ r.retries = runs[x].retries
    BY <1>0, <1>1 DEF Run
<1>4. LoopOK(r) /\ Progress(x, r.at)' /\ Truth(x, r)'
    BY <1>0, <1>3 DEF LoopOK, Progress, Truth, AgentSteps, FromMail, FromDatabases, FromVhost,
        FromReload, FromPool, FromFpm
<1>8. SoleWriters'
    BY <1>2, <1>3, SoleKept DEF HostStep, Restoring
<1>5. Restoring'
    BY <1>2, <1>3, <1>4, <1>8, StepKeeps DEF Raise, HostStep, AgentSteps
<1>6. Types'
    BY <1>2, BecomesType DEF Types, Raise, HostStep
<1>7. Pays(x, r)
    BY <1>3 DEF Pays, Raise, HostStep, HoldsFirst, MayRetry, MayStore, MayAdd, AgentSteps
<1> QED
    BY <1>2, <1>5, <1>6, <1>7 DEF Sound

\* A step that goes on to s, outside the loop over the mailboxes.
LEMMA PassedSound ==
    ASSUME Types, Restoring, NEW x \in DOMAIN runs, HostStep(x),
           NEW s \in {"user", "home", "ownership", "store"} \cup FromVhost,
           Passed(x, s), Progress(x, s)', s = "store" => Served',
           s = "ownership" => runs[x].at = "extract",
           s \in {"user", "home"} => runs[x].at \in {"parse", "user"},
           s \in FromVhost \cup {"store"} => UNCHANGED home,
           s \in FromVhost \cup {"store"} =>
                \/ runs[x].at \in FromVhost
                \/ runs[x].at = "databases" /\ runs[x].todo = {},
           runs[x].at \notin {"ack", "over"}
    PROVE  Sound(x)
<1> USE DEF FromVhost, FromReload, FromPool, FromFpm
<1>0. runs[x] \in Run /\ LoopOK(runs[x]) /\ Truth(x, runs[x])
    BY RunAt DEF Restoring, RunsOK
<1>1. PICK r : r = [runs[x] EXCEPT !.at = s]
    OBVIOUS
<1>2. Becomes(x, r)
    BY <1>1, ToBecomes DEF Passed, Steps
<1>3. /\ r.at = s /\ r.error = runs[x].error /\ r.todo = runs[x].todo
      /\ r.current = runs[x].current /\ r.held = runs[x].held /\ r.retries = runs[x].retries
    BY <1>0, <1>1 DEF Run
<1>4. LoopOK(r)
    BY <1>0, <1>3 DEF LoopOK
<1>9. s = "store" => HasHome(x) /\ UNCHANGED home
    BY DEF Restoring, RunsOK, Progress, FromMail, FromDatabases
<1>5. Truth(x, r)'
    <2> SUFFICES ASSUME ~runs[x].error
                 PROVE  Truth(x, r)'
        BY <1>3 DEF Truth
    <2>1. s \in FromVhost \cup {"store"} => HasLines(Mailboxes) /\ HasDumps(Databases, x)
        BY <1>0 DEF Truth, FromDatabases, HasDumps
    <2>2. s \in FromVhost \cup {"store"} => HasLines(Mailboxes)' /\ HasDumps(Databases, x)'
        BY <2>1 DEF HasLines, HasDumps, HostStep
    <2>3. s = "store" => HasHome(x)'
        BY <1>9 DEF HasHome
    <2> QED
        BY <1>3, <2>2, <2>3 DEF Truth, FromDatabases
<1>10. SoleWriters'
    BY <1>2, <1>3, SoleKept DEF HostStep, Restoring
<1>6. Restoring'
    BY <1>2, <1>3, <1>4, <1>5, <1>10, StepKeeps DEF Passed, HostStep
<1>7. Types'
    BY <1>2, BecomesType DEF Types, Passed, HostStep
<1>8. Pays(x, r)
    BY <1>3 DEF Pays, Passed, HostStep, HoldsFirst, MayRetry, MayStore, MayAdd
<1> QED
    BY <1>2, <1>6, <1>7, <1>8 DEF Sound

LEMMA ParseSound ==
    ASSUME Types, Restoring, NEW x \in DOMAIN runs, Parse(x)
    PROVE  Sound(x)
<1>1. HostStep(x)
    BY HostUnchanged DEF Parse
<1> QED
    BY <1>1, PassedSound DEF Parse, At, Passed, Progress, FromMail, FromDatabases, FromVhost,
        FromReload, FromPool, FromFpm

LEMMA ParseRaisesSound ==
    ASSUME Types, Restoring, NEW x \in DOMAIN runs, ParseRaises(x)
    PROVE  Sound(x)
<1>0. runs[x] \in Run /\ LoopOK(runs[x]) /\ runs[x].at = "parse"
    BY RunAt DEF Restoring, RunsOK, ParseRaises, At
<1>1. PICK r : r = [runs[x] EXCEPT !.at = "ack"]
    OBVIOUS
<1>2. Becomes(x, r)
    BY <1>1, ToBecomes DEF ParseRaises, Steps
<1>3. /\ r.at = "ack" /\ r.todo = runs[x].todo /\ r.current = runs[x].current
      /\ r.held = runs[x].held /\ r.retries = runs[x].retries
    BY <1>0, <1>1 DEF Run
<1>4. UNCHANGED host /\ HostStep(x)
    BY HostUnchanged DEF ParseRaises
<1>5. LoopOK(r) /\ Progress(x, r.at)' /\ Truth(x, r)'
    BY <1>0, <1>3 DEF LoopOK, Progress, Truth, FromMail, FromDatabases, FromVhost,
        FromReload, FromPool, FromFpm
<1>6. /\ result'.state = "SUCCESS" => result' = result
      /\ result' \in Result /\ result'.state # "none"
    BY DEF ParseRaises, Stored, Types, Result
<1>7. Restoring'
    <2>1. RunsOK'
        <3> SUFFICES ASSUME NEW y \in DOMAIN runs'
                     PROVE  LoopOK(runs[y])' /\ Progress(y, runs[y].at)' /\ Truth(y, runs[y])'
            BY DEF RunsOK
        <3>1. CASE y = x
            BY <1>2, <1>5, <3>1, BecomesType
        <3>2. CASE y # x
            BY <1>2, <1>4, <3>2, BecomesType, OthersKeep DEF Restoring, HostStep
        <3> QED
            BY <3>1, <3>2
    <2>2. ResultTruth'
        BY <1>0, <1>2, <1>4, <1>6, BecomesType
        DEF Restoring, ResultTruth, Served, HasHome, HasLines, HasDumps, host
    <2>3. SoleWriters'
        BY <1>2, <1>3, <1>4, SoleKept DEF HostStep, Restoring
    <2> QED
        BY <1>4, <2>1, <2>2, <2>3 DEF Restoring, HostStep
<1>8. Types'
    <2>1. queue' \in [{0, 1} -> Nat]
        BY DEF ParseRaises, Types
    <2> QED
        BY <1>2, <1>4, <1>6, <2>1, BecomesType DEF Types, ParseRaises, HostStep
<1>9. Pays(x, r)
    BY <1>0, <1>3, <1>4, <1>6 DEF Pays, ParseRaises, HostStep, HoldsFirst, MayRetry, MayStore, MayAdd
<1> QED
    BY <1>2, <1>7, <1>8, <1>9 DEF Sound

\* A run begins to extract: it alone is named if no other extracts.
LEMMA StartExtractSound ==
    ASSUME Types, Restoring, NEW x \in DOMAIN runs, StartExtract(x)
    PROVE  Sound(x)
<1>0. /\ runs[x] \in Run /\ LoopOK(runs[x]) /\ Progress(x, runs[x].at) /\ runs[x].at = "home"
      /\ x \in Nat /\ home \in HomeState
    BY RunAt DEF Restoring, RunsOK, StartExtract, At, Types, HostTypes
<1>1. PICK r : r = [runs[x] EXCEPT !.at = "extract"]
    OBVIOUS
<1>2. Becomes(x, r)
    BY <1>1, ToBecomes DEF StartExtract, Passed, Steps
<1>3. /\ r.at = "extract" /\ r.todo = runs[x].todo /\ r.current = runs[x].current
      /\ r.held = runs[x].held /\ r.retries = runs[x].retries /\ r.error = runs[x].error
    BY <1>0, <1>1 DEF Run
<1>4. UNCHANGED <<archive, queue, result, losses, user, lines, db, vhost, pool, caged>>
    BY DEF StartExtract, Passed
<1>5. /\ home' \in HomeState /\ home'.run = (IF Extracting = {} THEN x ELSE 0)
      /\ home'.run \in {0, x} /\ (Given => Given')
    BY <1>0 DEF StartExtract, HomeState, Given
<1>6. HostTypes' /\ Monotone(x) /\ OwnerFirst'
    BY <1>4, <1>5 DEF Types, HostTypes, Monotone, Restoring, OwnerFirst
<1>7. LoopOK(r) /\ Progress(x, r.at)' /\ Truth(x, r)'
    BY <1>0, <1>3, <1>4 DEF LoopOK, Progress, Truth, FromMail, FromDatabases, FromVhost,
        FromReload, FromPool, FromFpm
<1>8. SoleWriters'
    <2>1. /\ DOMAIN runs' = DOMAIN runs /\ runs'[x] = r
          /\ \A y \in DOMAIN runs \ {x} : runs'[y] = runs[y]
        BY <1>2, BecomesType
    <2>2. Extracting' \subseteq Extracting \cup {x}
        BY <2>1 DEF Extracting, At
    <2>3. \A d \in Databases : Importing(d)' \subseteq Importing(d)
        BY <1>3, <2>1 DEF Importing, At
    <2> QED
        BY <1>4, <1>5, <2>2, <2>3 DEF SoleWriters, Restoring
<1>9. Restoring'
    BY <1>0, <1>2, <1>4, <1>6, <1>7, <1>8, StepKeeps
<1>10. Types'
    BY <1>2, <1>4, <1>6, BecomesType DEF Types
<1>11. Pays(x, r)
    BY <1>0, <1>3, <1>4 DEF Pays, HoldsFirst, MayRetry, MayStore, MayAdd
<1> QED
    BY <1>2, <1>9, <1>10, <1>11 DEF Sound

\* The steps that call the agent, and the end of the extraction.
LEMMA AgentSound ==
    ASSUME Types, Restoring, NEW x \in DOMAIN runs,
           \/ CreateUser(x) \/ CreateUserFails(x) \/ EndExtract(x) \/ FixOwnershipFails(x)
           \/ WriteVhost(x) \/ Reload(x) \/ WritePool(x) \/ ReloadFpm(x) \/ EnableCagefs(x)
           \/ StepFails(x)
    PROVE  Sound(x)
<1>0. Progress(x, runs[x].at) /\ HostTypes /\ OwnerFirst /\ home \in HomeState /\ x # 0
    BY RunAt DEF Restoring, RunsOK, Types, HostTypes
<1> USE DEF At, AgentSteps, FromMail, FromDatabases, FromVhost, FromReload, FromPool, FromFpm
<1>1. CASE CreateUser(x)
    <2>1. HostStep(x)
        BY <1>0, <1>1 DEF CreateUser, HostStep, HostTypes, Monotone, OwnerFirst, Given
    <2>2. Progress(x, "home")'
        BY <1>1 DEF CreateUser, Progress
    <2> QED
        BY <1>1, <2>1, <2>2, RaiseSound, PassedSound DEF CreateUser
<1>2. CASE CreateUserFails(x) \/ FixOwnershipFails(x) \/ StepFails(x)
    BY <1>2, HostUnchanged, RaiseSound DEF CreateUserFails, FixOwnershipFails, StepFails
<1>3. CASE EndExtract(x)
    <2>1. PICK t \in {"part", "full"} : (home.run = x => t = "full") /\ home' = [home EXCEPT !.state = t]
        BY <1>3 DEF EndExtract
    <2>2. home.run \in {0, x}
        BY <1>3 DEF EndExtract, Restoring, SoleWriters, Extracting
    <2>3. home' \in HomeState /\ home'.run = home.run /\ home'.owner = home.owner /\ home'.state = t
        BY <1>0, <2>1 DEF HomeState
    <2>4. HostStep(x)
        BY <1>0, <1>3, <2>2, <2>3
        DEF EndExtract, HostStep, HostTypes, Monotone, OwnerFirst, Given
    <2>5. Progress(x, "ownership")'
        BY <1>0, <1>3, <2>1, <2>3 DEF EndExtract, Progress, HasFiles
    <2> QED
        BY <1>3, <2>4, <2>5, PassedSound DEF EndExtract
<1>4. CASE WriteVhost(x)
    <2>1. HostStep(x)
        BY <1>0, <1>4 DEF WriteVhost, HostStep, HostTypes, Monotone, OwnerFirst, Given, Progress
    <2>2. Progress(x, "reload")'
        BY <1>0, <1>4 DEF WriteVhost, Progress, Given, HasHome
    <2> QED
        BY <1>4, <2>1, <2>2, RaiseSound, PassedSound DEF WriteVhost
<1>5. CASE Reload(x)
    <2>1. HostStep(x)
        BY <1>0, <1>5 DEF Reload, HostStep, HostTypes, Monotone, OwnerFirst, Given, Progress
    <2>2. Progress(x, "pool")'
        BY <1>0, <1>5 DEF Reload, Progress, Given, HasHome
    <2> QED
        BY <1>5, <2>1, <2>2, RaiseSound, PassedSound DEF Reload
<1>6. CASE WritePool(x)
    <2>1. HostStep(x)
        BY <1>0, <1>6 DEF WritePool, HostStep, HostTypes, Monotone, OwnerFirst, Given, Progress
    <2>2. Progress(x, "fpm")'
        BY <1>0, <1>6 DEF WritePool, Progress, Given, HasHome
    <2> QED
        BY <1>6, <2>1, <2>2, RaiseSound, PassedSound DEF WritePool
<1>7. CASE ReloadFpm(x)
    <2>1. HostStep(x)
        BY <1>0, <1>7 DEF ReloadFpm, HostStep, HostTypes, Monotone, OwnerFirst, Given, Progress
    <2>2. Progress(x, "cagefs")'
        BY <1>0, <1>7 DEF ReloadFpm, Progress, Given, HasHome
    <2> QED
        BY <1>7, <2>1, <2>2, RaiseSound, PassedSound DEF ReloadFpm
<1>8. CASE EnableCagefs(x)
    <2>1. HostStep(x)
        BY <1>0, <1>8 DEF EnableCagefs, HostStep, HostTypes, Monotone, OwnerFirst, Given, Progress
    <2>2. Progress(x, "store")' /\ Served'
        BY <1>0, <1>8 DEF EnableCagefs, Progress, Given, HasHome, Served
    <2> QED
        BY <1>8, <2>1, <2>2, RaiseSound, PassedSound DEF EnableCagefs
<1> QED
    BY <1>1, <1>2, <1>3, <1>4, <1>5, <1>6, <1>7, <1>8

LEMMA DatabasesDoneSound ==
    ASSUME Types, Restoring, NEW x \in DOMAIN runs, DatabasesDone(x)
    PROVE  Sound(x)
<1>1. HostStep(x)
    BY HostUnchanged DEF DatabasesDone
<1>2. Progress(x, "vhost")'
    BY DEF Restoring, RunsOK, DatabasesDone, At, Progress, Given, HasHome, host, FromMail, FromDatabases,
        FromVhost, FromReload, FromPool, FromFpm
<1> QED
    BY <1>1, <1>2, PassedSound DEF DatabasesDone, host, At, FromVhost, FromReload, FromPool, FromFpm

LEMMA FixOwnershipSound ==
    ASSUME Types, Restoring, NEW x \in DOMAIN runs, FixOwnership(x)
    PROVE  Sound(x)
<1>0. /\ runs[x] \in Run /\ LoopOK(runs[x]) /\ Progress(x, runs[x].at)
      /\ runs[x].at = "ownership" /\ home \in HomeState
    BY RunAt DEF Restoring, RunsOK, FixOwnership, At, Types, HostTypes
<1>1. PICK o \in {"mixed", "account"} :
          /\ home.run = x \/ home.owner = "account" => o = "account"
          /\ home' = [home EXCEPT !.owner = o]
    BY DEF FixOwnership
<1>2. /\ home' \in HomeState /\ home'.run = home.run /\ home'.state = home.state
      /\ home'.owner = o
    BY <1>0, <1>1 DEF HomeState
<1>3. UNCHANGED <<user, lines, db, vhost, pool, caged>>
    BY DEF FixOwnership
<1>4. HostStep(x)
    BY <1>1, <1>2, <1>3
    DEF HostStep, HostTypes, Types, Monotone, Restoring, OwnerFirst, Given
<1>5. CASE Raise(x)
    BY <1>0, <1>4, <1>5, RaiseSound DEF AgentSteps
<1>6. CASE /\ runs' = [runs EXCEPT ![x].at = "mail", ![x].todo = Mailboxes]
           /\ UNCHANGED <<archive, queue, result, losses>>
    <2>1. PICK r : r = [runs[x] EXCEPT !.at = "mail", !.todo = Mailboxes]
        OBVIOUS
    <2>2. Becomes(x, r)
        BY <1>0, <1>6, <2>1 DEF Becomes, Run, Steps
    <2>3. /\ r.at = "mail" /\ r.todo = Mailboxes /\ r.current = runs[x].current
          /\ r.held = runs[x].held /\ r.retries = runs[x].retries /\ r.error = runs[x].error
        BY <1>0, <2>1 DEF Run
    <2>4. Progress(x, r.at)'
        BY <1>0, <1>1, <1>2, <1>3, <2>3 DEF Progress, Given, HasFiles, HasHome, FromMail,
            FromDatabases, FromVhost, FromReload, FromPool, FromFpm
    <2>5. LoopOK(r) /\ Truth(x, r)'
        BY <1>0, <2>3 DEF LoopOK, Truth, HasLines, FromDatabases, FromVhost, FromReload,
            FromPool, FromFpm
    <2>6. SoleWriters'
        BY <1>2, <1>3, <2>2, <2>3, SoleKept DEF Restoring
    <2>7. Restoring'
        BY <1>0, <1>4, <1>6, <2>2, <2>4, <2>5, <2>6, StepKeeps DEF HostStep
    <2>8. Types'
        BY <1>4, <1>6, <2>2, BecomesType DEF Types, HostStep
    <2>9. Pays(x, r)
        BY <1>0, <1>3, <1>6, <2>3 DEF Pays, HoldsFirst, MayRetry, MayStore, MayAdd
    <2> QED
        BY <2>2, <2>7, <2>8, <2>9 DEF Sound
<1> QED
    BY <1>5, <1>6 DEF FixOwnership

LEMMA RestoreMailboxSound ==
    ASSUME Types, Restoring, NEW x \in DOMAIN runs, NEW m \in Mailboxes, RestoreMailbox(x, m)
    PROVE  Sound(x)
<1>0. /\ runs[x] \in Run /\ LoopOK(runs[x]) /\ Progress(x, runs[x].at) /\ runs[x].at = "mail"
      /\ Truth(x, runs[x]) /\ m \in runs[x].todo
    BY RunAt DEF Restoring, RunsOK, RestoreMailbox, At
<1>1. PICK ok \in BOOLEAN :
          /\ Done(x, m, ok)
          /\ \/ lines' = [lines EXCEPT ![m] = @ + 1]
             \/ ~ok /\ UNCHANGED lines
    BY DEF RestoreMailbox
<1>2. PICK r : r = [runs[x] EXCEPT !.todo = @ \ {m}, !.current = {}, !.error = @ \/ ~ok]
    OBVIOUS
<1>3. Becomes(x, r)
    BY <1>1, <1>2, DoneBecomes
<1>4. /\ r.at = "mail" /\ r.todo = runs[x].todo \ {m} /\ r.current = {}
      /\ r.held = runs[x].held /\ r.retries = runs[x].retries
      /\ ~r.error => ok /\ ~runs[x].error
    BY <1>0, <1>2 DEF Run
<1>5. /\ lines' \in [Mailboxes -> Nat]
      /\ \A n \in Mailboxes : lines'[n] >= lines[n]
      /\ ok => lines'[m] >= 1
    <2>0. lines \in [Mailboxes -> Nat]
        BY DEF Types, HostTypes
    <2>1. CASE lines' = [lines EXCEPT ![m] = @ + 1]
        <3>1. \A n \in Mailboxes : lines'[n] = IF n = m THEN lines[n] + 1 ELSE lines[n]
            BY <2>0, <2>1
        <3>2. \A n \in Mailboxes : lines[n] \in Nat
            BY <2>0
        <3>3. lines' \in [Mailboxes -> Nat]
            BY <2>0, <2>1, <3>2
        <3> QED
            BY <3>1, <3>2, <3>3
    <2>2. CASE ~ok /\ UNCHANGED lines
        BY <2>0, <2>2
    <2> QED
        BY <1>1, <2>1, <2>2
<1>6. UNCHANGED <<archive, queue, result, losses, user, home, db, vhost, pool, caged>>
    BY DEF RestoreMailbox
<1>7. HostTypes' /\ Monotone(x) /\ OwnerFirst'
    BY <1>5, <1>6 DEF HostTypes, Types, Monotone, Restoring, OwnerFirst, Given
<1>8. LoopOK(r) /\ Progress(x, r.at)'
    BY <1>0, <1>4, <1>6 DEF LoopOK, Progress, Given, HasFiles, HasHome
<1>13. SoleWriters'
    BY <1>3, <1>4, <1>6, SoleKept DEF Restoring
<1>9. Truth(x, r)'
    <2> SUFFICES ASSUME ~r.error, NEW n \in Mailboxes \ r.todo
                 PROVE  lines'[n] >= 1
        BY <1>4 DEF Truth, HasLines, FromDatabases, FromVhost, FromReload, FromPool, FromFpm
    <2>0. lines[n] \in Nat /\ lines'[n] \in Nat
        BY <1>5 DEF Types, HostTypes
    <2>1. CASE n = m
        BY <1>4, <1>5, <2>1
    <2>2. CASE n # m
        <3>1. lines[n] >= 1
            BY <1>0, <1>4, <2>2 DEF Truth, HasLines
        <3> QED
            BY <1>5, <2>0, <3>1
    <2> QED
        BY <2>1, <2>2
<1>10. Restoring'
    BY <1>0, <1>3, <1>6, <1>7, <1>8, <1>9, <1>13, StepKeeps
<1>11. Types'
    BY <1>3, <1>6, <1>7, BecomesType DEF Types
<1>12. Pays(x, r)
    <2>1. MayAdd(runs[x], m) /\ ~MayAdd(r, m)
        BY <1>0, <1>4 DEF MayAdd
    <2> QED
        BY <1>0, <1>1, <1>4, <1>6, <2>1 DEF Pays, HoldsFirst, MayRetry, MayStore, MayAdd
<1> QED
    BY <1>3, <1>10, <1>11, <1>12 DEF Sound

LEMMA MailboxesDoneSound ==
    ASSUME Types, Restoring, NEW x \in DOMAIN runs, MailboxesDone(x)
    PROVE  Sound(x)
<1>0. /\ runs[x] \in Run /\ LoopOK(runs[x]) /\ Progress(x, runs[x].at) /\ Truth(x, runs[x])
      /\ runs[x].at = "mail" /\ runs[x].todo = {}
    BY RunAt DEF Restoring, RunsOK, MailboxesDone, At
<1>1. PICK r : r = [runs[x] EXCEPT !.at = "databases", !.todo = Databases]
    OBVIOUS
<1>2. Becomes(x, r)
    BY <1>0, <1>1 DEF MailboxesDone, Becomes, Run, Steps
<1>3. /\ r.at = "databases" /\ r.todo = Databases /\ r.current = runs[x].current
      /\ r.held = runs[x].held /\ r.retries = runs[x].retries /\ r.error = runs[x].error
    BY <1>0, <1>1 DEF Run
<1>4. UNCHANGED host /\ HostStep(x)
    BY HostUnchanged DEF MailboxesDone
<1>5. LoopOK(r) /\ Progress(x, r.at)' /\ Truth(x, r)'
    BY <1>0, <1>3, <1>4 DEF host, LoopOK, Progress, Given, HasHome, Truth, HasLines, HasDumps, FromMail,
        FromDatabases, FromVhost, FromReload, FromPool, FromFpm
<1>9. SoleWriters'
    BY <1>0, <1>2, <1>3, <1>4, SoleKept DEF HostStep, LoopOK, Restoring
<1>6. Restoring'
    BY <1>0, <1>2, <1>4, <1>5, <1>9, StepKeeps DEF MailboxesDone, HostStep
<1>7. Types'
    BY <1>2, <1>4, BecomesType DEF Types, MailboxesDone, HostStep
<1>8. Pays(x, r)
    BY <1>0, <1>3, <1>4 DEF Pays, MailboxesDone, HostStep, HoldsFirst, MayRetry, MayStore, MayAdd
<1> QED
    BY <1>2, <1>6, <1>7, <1>8 DEF Sound

LEMMA StartImportSound ==
    ASSUME Types, Restoring, NEW x \in DOMAIN runs, NEW d \in Databases, StartImport(x, d)
    PROVE  Sound(x)
<1>0. /\ runs[x] \in Run /\ LoopOK(runs[x]) /\ Progress(x, runs[x].at) /\ Truth(x, runs[x])
      /\ runs[x].at = "databases" /\ d \in runs[x].todo
    BY RunAt DEF Restoring, RunsOK, StartImport, At
<1>1. PICK r : r = [runs[x] EXCEPT !.current = {d}]
    OBVIOUS
<1>2. Becomes(x, r)
    BY <1>0, <1>1 DEF StartImport, Becomes, Run
<1>3. /\ r.at = "databases" /\ r.todo = runs[x].todo /\ r.current = {d}
      /\ r.held = runs[x].held /\ r.retries = runs[x].retries /\ r.error = runs[x].error
    BY <1>0, <1>1 DEF Run
<1>4. /\ UNCHANGED <<archive, queue, result, losses, user, home, lines, vhost, pool, caged>>
      /\ db' = [db EXCEPT ![d] = [state |-> "part", run |-> IF Importing(d) = {} THEN x ELSE 0]]
    BY DEF StartImport
<1>5. HostTypes' /\ Monotone(x) /\ OwnerFirst'
    <2>1. x \in Nat
        BY RunAt
    <2>2. db' \in [Databases -> DbState]
        BY <1>4, <2>1 DEF Types, HostTypes, DbState
    <2>3. \A e \in Databases : db'[e] = db[e] \/ db'[e].run \in {0, x}
        BY <1>4 DEF Types, HostTypes
    <2> QED
        BY <1>4, <2>2, <2>3 DEF HostTypes, Types, Monotone, Restoring, OwnerFirst, Given
<1>6. LoopOK(r) /\ Progress(x, r.at)'
    BY <1>0, <1>3, <1>4 DEF LoopOK, Progress, Given, HasFiles, HasHome
<1>7. Truth(x, r)'
    <2>1. ~r.error => HasLines(Mailboxes)' /\ HasDumps(Databases \ r.todo, x)'
        BY <1>0, <1>3, <1>4 DEF Truth, HasLines, HasDumps, FromDatabases, Types, HostTypes
    <2> QED
        BY <1>3, <2>1 DEF Truth, FromVhost, FromReload, FromPool, FromFpm
<1>11. SoleWriters'
    <2>1. /\ DOMAIN runs' = DOMAIN runs /\ runs'[x] = r
          /\ \A y \in DOMAIN runs \ {x} : runs'[y] = runs[y]
        BY <1>2, BecomesType
    <2>2. Extracting' \subseteq Extracting
        BY <1>3, <2>1 DEF Extracting, At
    <2>3. /\ Importing(d)' \subseteq Importing(d) \cup {x}
          /\ \A c \in Databases \ {d} : Importing(c)' \subseteq Importing(c)
        BY <1>3, <2>1 DEF Importing, At
    <2>4. \A c \in Databases : db'[c] = IF c = d
                THEN [state |-> "part", run |-> IF Importing(d) = {} THEN x ELSE 0] ELSE db[c]
        BY <1>4 DEF Types, HostTypes
    <2>5. db'[d].run # 0 => Importing(d)' \subseteq {db'[d].run}
        <3>1. CASE Importing(d) = {}
            <4>1. db'[d].run = x
                BY <2>4, <3>1
            <4>2. Importing(d)' \subseteq {x}
                BY <2>3, <3>1
            <4> QED
                BY <4>1, <4>2
        <3>2. CASE Importing(d) # {}
            <4>1. db'[d] = [state |-> "part", run |-> 0]
                BY <2>4, <3>2, Zenon
            <4> QED
                BY <4>1
        <3> QED
            BY <3>1, <3>2
    <2>6. ASSUME NEW c \in Databases \ {d}, db'[c].run # 0
          PROVE  Importing(c)' \subseteq {db'[c].run}
        BY <2>3, <2>4, <2>6 DEF SoleWriters, Restoring
    <2>7. home'.run # 0 => Extracting' \subseteq {home'.run}
        BY <1>4, <2>2 DEF SoleWriters, Restoring
    <2> QED
        BY <2>5, <2>6, <2>7 DEF SoleWriters
<1>8. Restoring'
    BY <1>0, <1>2, <1>4, <1>5, <1>6, <1>7, <1>11, StepKeeps
<1>9. Types'
    BY <1>2, <1>4, <1>5, BecomesType DEF Types
<1>10. Pays(x, r)
    BY <1>0, <1>3, <1>4 DEF Pays, HoldsFirst, MayRetry, MayStore, MayAdd
<1> QED
    BY <1>2, <1>8, <1>9, <1>10 DEF Sound

LEMMA DatabaseFailsSound ==
    ASSUME Types, Restoring, NEW x \in DOMAIN runs, NEW d \in Databases, DatabaseFails(x, d)
    PROVE  Sound(x)
<1>0. /\ runs[x] \in Run /\ LoopOK(runs[x]) /\ Progress(x, runs[x].at)
      /\ runs[x].at = "databases"
    BY RunAt DEF Restoring, RunsOK, DatabaseFails, At
<1>1. PICK r : r = [runs[x] EXCEPT !.todo = @ \ {d}, !.current = {}, !.error = @ \/ ~FALSE]
    OBVIOUS
<1>2. Becomes(x, r)
    BY <1>1, DoneBecomes DEF DatabaseFails
<1>3. /\ r.at = "databases" /\ r.todo = runs[x].todo \ {d} /\ r.current = {}
      /\ r.held = runs[x].held /\ r.retries = runs[x].retries /\ r.error
    BY <1>0, <1>1 DEF Run
<1>4. UNCHANGED host /\ HostStep(x)
    BY HostUnchanged DEF DatabaseFails
<1>5. LoopOK(r) /\ Progress(x, r.at)' /\ Truth(x, r)'
    BY <1>0, <1>3, <1>4 DEF host, LoopOK, Progress, Given, HasFiles, HasHome, Truth
<1>9. SoleWriters'
    BY <1>0, <1>2, <1>3, <1>4, SoleKept DEF HostStep, Restoring
<1>6. Restoring'
    BY <1>0, <1>2, <1>4, <1>5, <1>9, StepKeeps DEF DatabaseFails, HostStep
<1>7. Types'
    BY <1>2, <1>4, BecomesType DEF Types, DatabaseFails, HostStep
<1>8. Pays(x, r)
    BY <1>0, <1>3, <1>4 DEF Pays, DatabaseFails, HostStep, HoldsFirst, MayRetry, MayStore, MayAdd
<1> QED
    BY <1>2, <1>6, <1>7, <1>8 DEF Sound

LEMMA EndImportSound ==
    ASSUME Types, Restoring, NEW x \in DOMAIN runs, NEW d \in Databases, NEW ok \in BOOLEAN,
           EndImport(x, d, ok)
    PROVE  Sound(x)
<1>0. /\ runs[x] \in Run /\ LoopOK(runs[x]) /\ Progress(x, runs[x].at) /\ Truth(x, runs[x])
      /\ runs[x].at = "databases" /\ x \in Nat
    BY RunAt DEF Restoring, RunsOK, EndImport, Importing, At
<1>1. PICK r : r = [runs[x] EXCEPT !.todo = @ \ {d}, !.current = {}, !.error = @ \/ ~ok]
    OBVIOUS
<1>2. Becomes(x, r)
    BY <1>1, DoneBecomes DEF EndImport
<1>3. /\ r.at = "databases" /\ r.todo = runs[x].todo \ {d} /\ r.current = {}
      /\ r.held = runs[x].held /\ r.retries = runs[x].retries
      /\ ~r.error => ok /\ ~runs[x].error
    BY <1>0, <1>1 DEF Run
<1>4. UNCHANGED <<archive, queue, result, losses, user, home, lines, vhost, pool, caged>>
    BY DEF EndImport
<1>5. PICK t \in {"part", "full"} :
          /\ db[d].run = x => t = (IF ok THEN "full" ELSE "part")
          /\ db' = [db EXCEPT ![d].state = t]
    BY DEF EndImport
<1>6. /\ \A c \in Databases \ {d} : db'[c] = db[c]
      /\ db[d] \in DbState /\ db'[d].run = db[d].run /\ db'[d].state = t /\ db'[d] \in DbState
      /\ db[d].run \in {0, x}
    <2>1. db \in [Databases -> DbState]
        BY DEF Types, HostTypes
    <2>2. db'[d] = [db[d] EXCEPT !.state = t] /\ \A c \in Databases \ {d} : db'[c] = db[c]
        BY <1>5, <2>1
    <2>3. db[d].run \in {0, x}
        BY DEF EndImport, Restoring, SoleWriters
    <2> QED
        BY <2>1, <2>2, <2>3 DEF DbState
<1>7. HostTypes' /\ Monotone(x) /\ OwnerFirst'
    <2>1. db' \in [Databases -> DbState]
        BY <1>5, <1>6 DEF Types, HostTypes
    <2>2. \A c \in Databases : db'[c] = db[c] \/ db'[c].run \in {0, x}
        BY <1>6
    <2> QED
        BY <1>4, <2>1, <2>2 DEF HostTypes, Types, Monotone, Restoring, OwnerFirst, Given
<1>8. LoopOK(r) /\ Progress(x, r.at)'
    BY <1>0, <1>3, <1>4 DEF LoopOK, Progress, Given, HasFiles, HasHome
<1>13. SoleWriters'
    BY <1>2, <1>3, <1>4, <1>6, SoleKept DEF Restoring
<1>9. Truth(x, r)'
    <2> SUFFICES ASSUME ~r.error
                 PROVE  HasLines(Mailboxes)' /\ HasDumps(Databases \ r.todo, x)'
        BY <1>3 DEF Truth, FromVhost, FromReload, FromPool, FromFpm
    <2>1. HasLines(Mailboxes) /\ HasDumps(Databases \ runs[x].todo, x) /\ ok
        BY <1>0, <1>3 DEF Truth, FromDatabases
    <2>2. HasLines(Mailboxes)'
        BY <1>4, <2>1 DEF HasLines
    <2>3. ASSUME NEW c \in Databases \ r.todo, db'[c].run = x
          PROVE  db'[c].state = "full"
        <3>1. CASE c = d
            BY <1>5, <1>6, <2>1, <2>3, <3>1
        <3>2. CASE c # d
            BY <1>3, <1>6, <2>1, <2>3, <3>2 DEF HasDumps
        <3> QED
            BY <3>1, <3>2
    <2> QED
        BY <2>2, <2>3 DEF HasDumps
<1>10. Restoring'
    BY <1>0, <1>2, <1>4, <1>7, <1>8, <1>9, <1>13, StepKeeps
<1>11. Types'
    BY <1>2, <1>4, <1>7, BecomesType DEF Types
<1>12. Pays(x, r)
    BY <1>0, <1>3, <1>4 DEF Pays, HoldsFirst, MayRetry, MayStore, MayAdd
<1> QED
    BY <1>2, <1>10, <1>11, <1>12 DEF Sound

LEMMA StoreResultSound ==
    ASSUME Types, Restoring, NEW x \in DOMAIN runs, StoreResult(x)
    PROVE  Sound(x)
<1>0. /\ runs[x] \in Run /\ LoopOK(runs[x]) /\ Truth(x, runs[x]) /\ runs[x].at = "store"
      /\ x \in Nat
    BY RunAt DEF Restoring, RunsOK, StoreResult, At
<1>1. PICK r : r = [runs[x] EXCEPT !.at = "ack"]
    OBVIOUS
<1>2. Becomes(x, r)
    BY <1>1, ToBecomes DEF StoreResult, Steps
<1>3. /\ r.at = "ack" /\ r.todo = runs[x].todo /\ r.current = runs[x].current
      /\ r.held = runs[x].held /\ r.retries = runs[x].retries
    BY <1>0, <1>1 DEF Run
<1>4. UNCHANGED host /\ HostStep(x) /\ UNCHANGED <<archive, queue, losses>>
    BY HostUnchanged DEF StoreResult
<1>5. LoopOK(r) /\ Progress(x, r.at)' /\ Truth(x, r)'
    BY <1>0, <1>3 DEF LoopOK, Progress, Truth, FromMail, FromDatabases, FromVhost,
        FromReload, FromPool, FromFpm
<1>6. /\ \/ result.state = "SUCCESS" /\ result' = result
         \/ result' = [state |-> "SUCCESS", clean |-> ~runs[x].error, run |-> x]
      /\ result' \in Result /\ result'.state # "none"
    <2>1. (~runs[x].error) \in BOOLEAN
        BY <1>0 DEF Run
    <2>2. [state |-> "SUCCESS", clean |-> ~runs[x].error, run |-> x] \in Result
        BY <1>0, <2>1 DEF Result
    <2> QED
        BY <2>2 DEF StoreResult, Stored, Types
<1>7. RunsOK'
    <2> SUFFICES ASSUME NEW y \in DOMAIN runs'
                 PROVE  LoopOK(runs[y])' /\ Progress(y, runs[y].at)' /\ Truth(y, runs[y])'
        BY DEF RunsOK
    <2>1. CASE y = x
        BY <1>2, <1>5, <2>1, BecomesType
    <2>2. CASE y # x
        BY <1>2, <1>4, <2>2, BecomesType, OthersKeep DEF Restoring, HostStep
    <2> QED
        BY <2>1, <2>2
<1>8. ResultTruth'
    <2>1. CASE result.state = "SUCCESS" /\ result' = result
        BY <1>0, <1>2, <1>3, <1>4, <2>1, BecomesType
        DEF Restoring, ResultTruth, Served, HasHome, HasLines, HasDumps, host
    <2>2. CASE result' = [state |-> "SUCCESS", clean |-> ~runs[x].error, run |-> x]
        <3> SUFFICES ASSUME ~runs[x].error
                     PROVE  ResultTruth'
            BY <2>2 DEF ResultTruth
        <3>1. Served /\ HasHome(x) /\ HasLines(Mailboxes) /\ HasDumps(Databases, x)
            BY <1>0 DEF Truth
        <3>2. Served' /\ HasHome(x)' /\ HasLines(Mailboxes)' /\ HasDumps(Databases, x)'
            BY <1>4, <3>1 DEF Served, HasHome, HasLines, HasDumps, host
        <3>3. x \in DOMAIN runs' /\ runs'[x].at = "ack" /\ result'.run = x
            BY <1>2, <1>3, <2>2, BecomesType
        <3> QED
            BY <3>2, <3>3 DEF ResultTruth, HasHome, HasDumps
    <2> QED
        BY <1>6, <2>1, <2>2
<1>12. SoleWriters'
    BY <1>2, <1>3, <1>4, SoleKept DEF HostStep, Restoring
<1>9. Restoring'
    BY <1>4, <1>7, <1>8, <1>12 DEF Restoring, HostStep
<1>10. Types'
    BY <1>2, <1>4, <1>6, BecomesType DEF Types, HostStep
<1>11. Pays(x, r)
    BY <1>0, <1>3, <1>4, <1>6 DEF Pays, HostStep, HoldsFirst, MayRetry, MayStore, MayAdd
<1> QED
    BY <1>2, <1>9, <1>10, <1>11 DEF Sound

\* A run ends, or gives its message back, and nothing else happens to the host.
LEMMA LeavesHost ==
    ASSUME Types, Restoring, NEW x \in DOMAIN runs, UNCHANGED <<result, host>>,
           NEW r, Becomes(x, r),
           \/ r = [NewRun(runs[x].retries) EXCEPT !.at = "over", !.held = FALSE]
           \/ r = [runs[x] EXCEPT !.held = FALSE]
    PROVE  Restoring'
<1>0. runs[x] \in Run /\ LoopOK(runs[x]) /\ Progress(x, runs[x].at) /\ Truth(x, runs[x])
    BY RunAt DEF Restoring, RunsOK
<1>1. HostStep(x)
    BY HostUnchanged
<1>2. LoopOK(r) /\ Progress(x, r.at)' /\ Truth(x, r)' /\ (r.at = "over" \/ r.at = runs[x].at)
    <2>1. CASE r = [NewRun(runs[x].retries) EXCEPT !.at = "over", !.held = FALSE]
        BY <2>1 DEF NewRun, LoopOK, Progress, Truth, FromMail, FromDatabases, FromVhost,
            FromReload, FromPool, FromFpm
    <2>2. CASE r = [runs[x] EXCEPT !.held = FALSE]
        <3>1. /\ r.at = runs[x].at /\ r.todo = runs[x].todo /\ r.current = runs[x].current
              /\ r.error = runs[x].error /\ ~r.held
            BY <1>0, <2>2 DEF Run
        <3> QED
            BY <1>0, <3>1 DEF LoopOK, Progress, Given, HasFiles, HasHome, Truth, HasLines, HasDumps, Served, host
    <2> QED
        BY <2>1, <2>2
<1>3. SoleWriters'
    <2>1. r.at = "over" \/ r.current = runs[x].current
        BY <1>0 DEF NewRun, Run
    <2> QED
        BY <1>1, <1>2, <2>1, SoleKept DEF HostStep, Restoring
<1> QED
    BY <1>1, <1>2, <1>3, StepKeeps DEF HostStep, host

LEMMA AcknowledgeSound ==
    ASSUME Types, Restoring, NEW x \in DOMAIN runs, Acknowledge(x)
    PROVE  Sound(x)
<1>1. PICK r : r = [NewRun(runs[x].retries) EXCEPT !.at = "over", !.held = FALSE]
    OBVIOUS
<1>2. Becomes(x, r)
    BY <1>1, OverBecomes DEF Acknowledge
<1>3. HostStep(x) /\ UNCHANGED <<archive, queue, result, losses, host>>
    BY HostUnchanged DEF Acknowledge
<1>4. Restoring'
    BY <1>1, <1>2, <1>3, LeavesHost
<1>5. Types'
    BY <1>2, <1>3, BecomesType DEF Types, HostStep
<1>6. Pays(x, r)
    BY <1>1, <1>3 DEF Pays, NewRun, HostStep, HoldsFirst, MayRetry, MayStore, MayAdd
<1> QED
    BY <1>2, <1>4, <1>5, <1>6 DEF Sound

LEMMA StepSound ==
    ASSUME Types, Restoring, NEW x \in DOMAIN runs, Step(x)
    PROVE  Sound(x)
BY ParseSound, ParseRaisesSound, StartExtractSound, AgentSound, FixOwnershipSound, RestoreMailboxSound,
   MailboxesDoneSound, StartImportSound, DatabaseFailsSound, EndImportSound, DatabasesDoneSound,
   StoreResultSound, AcknowledgeSound
DEF Step

-----------------------------------------------------------------------------
(* Counting the runs.                                                      *)

\* Two sets that differ at most in x.
LEMMA CountStep ==
    ASSUME NEW S, NEW T, NEW x, IsFiniteSet(S), S \ {x} = T \ {x}
    PROVE  /\ IsFiniteSet(T) /\ Cardinality(S) \in Nat /\ Cardinality(T) \in Nat
           /\ Cardinality(T) = Cardinality(S) - One(x \in S) + One(x \in T)
<1>1. /\ IsFiniteSet(S \ {x}) /\ Cardinality(S) \in Nat
      /\ Cardinality(S \ {x}) = IF x \in S THEN Cardinality(S) - 1 ELSE Cardinality(S)
    BY FS_RemoveElement, FS_CardinalityType
<1>2. T = IF x \in T THEN (S \ {x}) \cup {x} ELSE S \ {x}
    OBVIOUS
<1>3. /\ IsFiniteSet((S \ {x}) \cup {x})
      /\ Cardinality((S \ {x}) \cup {x}) = Cardinality(S \ {x}) + 1
    BY <1>1, FS_AddElement
<1>4. IsFiniteSet(T)
    BY <1>1, <1>2, <1>3
<1>5. Cardinality(T) = Cardinality(S \ {x}) + One(x \in T)
    <2>1. CASE x \in T
        BY <1>2, <1>3, <2>1 DEF One
    <2>2. CASE x \notin T
        <3>1. T = S \ {x} /\ Cardinality(S \ {x}) \in Nat
            BY <1>1, <2>2, FS_CardinalityType
        <3> QED
            BY <2>2, <3>1 DEF One
    <2> QED
        BY <2>1, <2>2
<1>6. Cardinality(T) \in Nat
    BY <1>4, FS_CardinalityType
<1> QED
    BY <1>1, <1>4, <1>5, <1>6 DEF One

LEMMA RunsFinite ==
    ASSUME Types, NEW S \in SUBSET (DOMAIN runs)
    PROVE  IsFiniteSet(S) /\ Cardinality(S) \in Nat
<1>1. DOMAIN runs = 1..Len(runs) /\ Len(runs) \in Nat
    BY DEF Types
<1>2. IsFiniteSet(DOMAIN runs)
    BY <1>1, FS_Interval
<1> QED
    BY <1>2, FS_Subset, FS_CardinalityType

\* The counts after run x has become r.
LEMMA CountRun ==
    ASSUME Types, NEW x, NEW r, Becomes(x, r)
    PROVE  /\ \A m : /\ Cardinality(Adders(m)) \in Nat /\ Cardinality(Adders(m))' \in Nat
                    /\ Cardinality(Adders(m))' =
                            Cardinality(Adders(m)) - One(MayAdd(runs[x], m)) + One(MayAdd(r, m))
           /\ Cardinality(Restorers) \in Nat /\ Cardinality(Restorers)' \in Nat
           /\ Cardinality(Restorers)' =
                    Cardinality(Restorers) - One(MayStore(runs[x])) + One(MayStore(r))
           /\ Cardinality(Retriers) \in Nat /\ Cardinality(Retriers)' \in Nat
           /\ Cardinality(Retriers)' =
                    Cardinality(Retriers) - One(MayRetry(runs[x])) + One(MayRetry(r))
           /\ Cardinality(Holders) \in Nat /\ Cardinality(Holders)' \in Nat
           /\ Cardinality(Holders)' =
                    Cardinality(Holders) - One(HoldsFirst(runs[x])) + One(HoldsFirst(r))
<1>1. /\ x \in DOMAIN runs /\ DOMAIN runs' = DOMAIN runs /\ runs'[x] = r
      /\ \A y \in DOMAIN runs \ {x} : runs'[y] = runs[y]
    BY BecomesType DEF Becomes
<1>2. ASSUME NEW m
      PROVE  /\ Cardinality(Adders(m)) \in Nat /\ Cardinality(Adders(m))' \in Nat
             /\ Cardinality(Adders(m))' =
                    Cardinality(Adders(m)) - One(MayAdd(runs[x], m)) + One(MayAdd(r, m))
    <2>1. IsFiniteSet(Adders(m))
        BY RunsFinite DEF Adders
    <2>2. Adders(m) \ {x} = Adders(m)' \ {x}
        BY <1>1 DEF Adders, MayAdd
    <2>3. (x \in Adders(m) <=> MayAdd(runs[x], m)) /\ (x \in Adders(m)' <=> MayAdd(r, m))
        BY <1>1 DEF Adders, MayAdd
    <2> QED
        BY <2>1, <2>2, <2>3, CountStep DEF One
<1>3. /\ Cardinality(Retriers) \in Nat /\ Cardinality(Retriers)' \in Nat
      /\ Cardinality(Retriers)' =
                    Cardinality(Retriers) - One(MayRetry(runs[x])) + One(MayRetry(r))
    <2>1. IsFiniteSet(Retriers)
        BY RunsFinite DEF Retriers
    <2>2. Retriers \ {x} = Retriers' \ {x}
        BY <1>1 DEF Retriers, MayRetry
    <2>3. (x \in Retriers <=> MayRetry(runs[x])) /\ (x \in Retriers' <=> MayRetry(r))
        BY <1>1 DEF Retriers, MayRetry
    <2> QED
        BY <2>1, <2>2, <2>3, CountStep DEF One
<1>4. /\ Cardinality(Holders) \in Nat /\ Cardinality(Holders)' \in Nat
      /\ Cardinality(Holders)' =
                    Cardinality(Holders) - One(HoldsFirst(runs[x])) + One(HoldsFirst(r))
    <2>1. IsFiniteSet(Holders)
        BY RunsFinite DEF Holders
    <2>2. Holders \ {x} = Holders' \ {x}
        BY <1>1 DEF Holders, HoldsFirst
    <2>3. (x \in Holders <=> HoldsFirst(runs[x])) /\ (x \in Holders' <=> HoldsFirst(r))
        BY <1>1 DEF Holders, HoldsFirst
    <2> QED
        BY <2>1, <2>2, <2>3, CountStep DEF One
<1>5. /\ Cardinality(Restorers) \in Nat /\ Cardinality(Restorers)' \in Nat
      /\ Cardinality(Restorers)' =
                    Cardinality(Restorers) - One(MayStore(runs[x])) + One(MayStore(r))
    <2>1. IsFiniteSet(Restorers)
        BY RunsFinite DEF Restorers
    <2>2. Restorers \ {x} = Restorers' \ {x}
        BY <1>1 DEF Restorers, MayStore
    <2>3. (x \in Restorers <=> MayStore(runs[x])) /\ (x \in Restorers' <=> MayStore(r))
        BY <1>1 DEF Restorers, MayStore
    <2> QED
        BY <2>1, <2>2, <2>3, CountStep DEF One
<1> QED
    BY <1>2, <1>3, <1>4, <1>5

\* The types of what is counted.
LEMMA CountTypes ==
    ASSUME Types
    PROVE  /\ queue[0] \in Nat /\ queue[1] \in Nat /\ losses \in Nat /\ Uploads \in {0, 1}
           /\ \A m \in Mailboxes : lines[m] \in Nat
           /\ Len(runs) \in Nat
BY LossAssumption DEF Types, HostTypes, Uploads

\* The arithmetic of the bounds, on plain numbers: l runs or lines, p and q messages,
\* a runs that may add to them, u uploads, s losses.
LEMMA RunsPaid ==
    ASSUME NEW l \in Nat, NEW p \in Nat, NEW q \in Nat, NEW a \in Nat,
           NEW u \in Nat, NEW s \in Nat, NEW w \in Nat, NEW b \in Nat,
           NEW t \in Nat,
           l + 2 * p + q + a <= 2 * (u + s), w + b <= q + a, u <= t
    PROVE  l + 2 * p + w + b <= 2 * (t + s)
OBVIOUS

LEMMA LinesPaid ==
    ASSUME NEW l \in Nat, NEW a \in Nat, NEW p \in Nat, NEW q \in Nat,
           NEW u \in Nat, NEW s \in Nat, NEW k \in Nat, NEW b \in Nat,
           NEW w \in Nat, NEW t \in Nat,
           l + a + p + q <= u + s, k + b + w <= l + a + q, u <= t
    PROVE  k + b + p + w <= t + s
OBVIOUS

LEMMA RunsLost ==
    ASSUME NEW l \in Nat, NEW p \in Nat, NEW q \in Nat, NEW a \in Nat,
           NEW u \in Nat, NEW s \in Nat, NEW v \in Nat, NEW w \in Nat,
           NEW b \in Nat,
           l + 2 * p + q + a <= 2 * (u + s), b <= a, 2 * v + w <= 2 * p + q + 2
    PROVE  l + 2 * v + w + b <= 2 * (u + (s + 1))
OBVIOUS

LEMMA LinesLost ==
    ASSUME NEW l \in Nat, NEW a \in Nat, NEW p \in Nat, NEW q \in Nat,
           NEW u \in Nat, NEW s \in Nat, NEW b \in Nat, NEW v \in Nat,
           NEW w \in Nat,
           l + a + p + q <= u + s, b <= a, v + w <= p + q + 1
    PROVE  l + b + v + w <= u + (s + 1)
OBVIOUS

LEMMA FirstDelivered ==
    ASSUME NEW l \in Nat, NEW p \in Nat, NEW q \in Nat, NEW a \in Nat, NEW u \in Nat,
           NEW s \in Nat, l + 2 * p + q + a <= 2 * (u + s), p > 0
    PROVE  (l + 1) + 2 * (p - 1) + q + (a + 1) <= 2 * (u + s)
OBVIOUS

LEMMA RetryDelivered ==
    ASSUME NEW l \in Nat, NEW p \in Nat, NEW q \in Nat, NEW a \in Nat, NEW u \in Nat,
           NEW s \in Nat, l + 2 * p + q + a <= 2 * (u + s), q > 0
    PROVE  (l + 1) + 2 * p + (q - 1) + a <= 2 * (u + s)
OBVIOUS

LEMMA LinesDelivered ==
    ASSUME NEW l \in Nat, NEW a \in Nat, NEW p \in Nat, NEW q \in Nat,
           NEW u \in Nat, NEW s \in Nat, NEW v \in Nat, NEW w \in Nat,
           l + a + p + q <= u + s, v + w + 1 <= p + q
    PROVE  l + (a + 1) + v + w <= u + s
OBVIOUS

LEMMA RunsUploaded ==
    ASSUME NEW l \in Nat, NEW p \in Nat, NEW q \in Nat, NEW a \in Nat,
           NEW s \in Nat, NEW v \in Nat,
           l + 2 * p + q + a <= 2 * s, v <= p + 1
    PROVE  l + 2 * v + q + a <= 2 * (1 + s)
OBVIOUS

LEMMA LinesUploaded ==
    ASSUME NEW l \in Nat, NEW a \in Nat, NEW p \in Nat, NEW q \in Nat,
           NEW s \in Nat, NEW v \in Nat,
           l + a + p + q <= s, v <= p + 1
    PROVE  l + a + v + q <= 1 + s
OBVIOUS

LEMMA RunsLimit ==
    ASSUME NEW l \in Nat, NEW p \in Nat, NEW q \in Nat, NEW a \in Nat,
           NEW u \in Nat, NEW s \in Nat, NEW m \in Nat,
           l + 2 * p + q + a <= 2 * (u + s), u <= 1, s <= m
    PROVE  l <= 2 + 2 * m /\ p <= 2 + 2 * m /\ q <= 2 + 2 * m
OBVIOUS

\* What a step of a run costs is covered by what it gives up.
LEMMA PaysCounting ==
    ASSUME Types, Types', Counting, NEW x, NEW r, Becomes(x, r), Pays(x, r)
    PROVE  Counting'
<1>1. Uploads' >= Uploads /\ losses' = losses /\ Len(runs)' = Len(runs)
    BY BecomesType DEF Pays, Uploads
<1>2. /\ Uploads' \in {0, 1} /\ Uploads \in {0, 1} /\ losses \in Nat /\ Len(runs) \in Nat
      /\ queue[0] \in Nat /\ queue[1] \in Nat
    BY CountTypes DEF Types, Uploads
<1>3. queue'[0] = queue[0]
    BY DEF Pays, Types
<1>4. \/ queue'[1] = queue[1]
      \/ queue'[1] = queue[1] + 1 /\ MayRetry(runs[x]) /\ ~MayRetry(r)
    BY DEF Pays, Types, MayRetry
<1>5. OriginalBound'
    <2>1. Cardinality(Holders)' <= Cardinality(Holders) /\ Cardinality(Holders) \in Nat
          /\ Cardinality(Holders)' \in Nat
        BY CountRun DEF Pays, One
    <2> QED
        BY <1>1, <1>2, <1>3, <2>1 DEF OriginalBound, Counting
<1>6. RunsBound'
    <2>1. /\ Cardinality(Retriers) \in Nat /\ Cardinality(Retriers)' \in Nat
          /\ queue'[1] + Cardinality(Retriers)' <= queue[1] + Cardinality(Retriers)
        <3>1. CASE queue'[1] = queue[1]
            BY <1>2, <3>1, CountRun, SMTT(40) DEF Pays, One
        <3>2. CASE queue'[1] = queue[1] + 1 /\ MayRetry(runs[x]) /\ ~MayRetry(r)
            BY <1>2, <3>2, CountRun, SMTT(30) DEF One
        <3> QED
            BY <1>4, <3>1, <3>2
    <2>2. queue'[1] \in Nat
        BY <1>2, <1>4
    <2>3. Len(runs) + 2 * queue[0] + queue[1] + Cardinality(Retriers) <= 2 * (Uploads + losses)
        BY DEF RunsBound, Counting
    <2>4. Len(runs)' + 2 * queue'[0] + queue'[1] + Cardinality(Retriers)'
             <= 2 * (Uploads' + losses')
        <3>1. /\ Len(runs) \in Nat /\ queue[0] \in Nat /\ queue[1] \in Nat /\ losses \in Nat
              /\ Uploads \in Nat /\ Uploads' \in Nat /\ Uploads <= Uploads'
            BY <1>1, <1>2
        <3>2. Len(runs) + 2 * queue[0] + queue'[1] + Cardinality(Retriers)'
                 <= 2 * (Uploads' + losses)
            BY <2>1, <2>2, <2>3, <3>1, RunsPaid, Zenon
        <3> QED
            BY <1>1, <1>3, <3>2
    <2> QED
        BY <2>4 DEF RunsBound
<1>7. LinesBound'
    <2> SUFFICES ASSUME NEW m \in Mailboxes
                 PROVE  lines'[m] + Cardinality(Adders(m))' + queue'[0] + queue'[1]
                            <= Uploads' + losses'
        BY DEF LinesBound
    <2>0. lines[m] \in Nat /\ lines \in [Mailboxes -> Nat] /\ queue \in [{0, 1} -> Nat]
        BY DEF Types, HostTypes
    <2>1. lines[m] + Cardinality(Adders(m)) + queue[0] + queue[1] <= Uploads + losses
        BY DEF LinesBound, Counting
    <2>2. /\ Cardinality(Adders(m)) \in Nat /\ Cardinality(Adders(m))' \in Nat
          /\ Cardinality(Adders(m))' =
                    Cardinality(Adders(m)) - One(MayAdd(runs[x], m)) + One(MayAdd(r, m))
        BY CountRun
    <2>3. MayAdd(r, m) => MayAdd(runs[x], m)
        BY DEF Pays
    <2>4. lines'[m] + Cardinality(Adders(m))' + queue'[1]
             <= lines[m] + Cardinality(Adders(m)) + queue[1]
        <3>1. CASE UNCHANGED <<queue, lines>>
            BY <1>2, <2>0, <2>2, <2>3, <3>1 DEF One
        <3>2. ASSUME UNCHANGED queue, NEW n \in Mailboxes, lines' = [lines EXCEPT ![n] = @ + 1],
                     MayAdd(runs[x], n), ~MayAdd(r, n)
              PROVE  lines'[m] + Cardinality(Adders(m))' + queue'[1]
                        <= lines[m] + Cardinality(Adders(m)) + queue[1]
            <4>1. CASE m = n
                <5>1. lines'[m] = lines[m] + 1
                    BY <2>0, <3>2, <4>1
                <5>2. Cardinality(Adders(m))' = Cardinality(Adders(m)) - 1
                    BY <2>2, <3>2, <4>1 DEF One
                <5> QED
                    BY <1>2, <2>0, <2>2, <3>2, <5>1, <5>2
            <4>2. CASE m # n
                <5>1. lines'[m] = lines[m]
                    BY <2>0, <3>2, <4>2
                <5> QED
                    BY <1>2, <2>0, <2>2, <2>3, <3>2, <5>1, SMTT(30) DEF One
            <4> QED
                BY <4>1, <4>2
        <3>3. CASE /\ UNCHANGED lines
                   /\ queue' = [queue EXCEPT ![1] = @ + 1]
                   /\ MayRetry(runs[x]) /\ r.at = "ack"
            <4>1. MayAdd(runs[x], m) /\ ~MayAdd(r, m)
                BY <3>3 DEF MayAdd, MayRetry
            <4>2. queue'[1] = queue[1] + 1
                BY <2>0, <3>3
            <4> QED
                BY <1>2, <2>0, <2>2, <3>3, <4>1, <4>2 DEF One
        <3> QED
            BY <3>1, <3>2, <3>3 DEF Pays
    <2>5. lines'[m] \in Nat /\ queue'[1] \in Nat
        BY DEF Types, HostTypes
    <2> QED
        <3>1. /\ queue[0] \in Nat /\ queue[1] \in Nat /\ losses \in Nat /\ lines[m] \in Nat
              /\ Uploads \in Nat /\ Uploads' \in Nat /\ Uploads <= Uploads'
            BY <1>1, <1>2, <2>0
        <3>2. Cardinality(Adders(m)) \in Nat /\ Cardinality(Adders(m))' \in Nat
            BY <2>2
        <3>3. lines'[m] + Cardinality(Adders(m))' + queue[0] + queue'[1] <= Uploads' + losses
            BY <2>1, <2>4, <2>5, <3>1, <3>2, LinesPaid, SMT
        <3> QED
            BY <1>1, <1>3, <3>3
<1>8. RestoreBound'
    <2> DEFINE k == One(result.state = "SUCCESS")
               c == Cardinality(Restorers)
    <2>1. k + c + queue[0] + queue[1] <= Uploads + losses
        BY DEF RestoreBound, Counting
    <2>2. c \in Nat /\ c' \in Nat /\ c' = c - One(MayStore(runs[x])) + One(MayStore(r))
        BY CountRun
    <2>3. k \in Nat /\ k' \in Nat
        BY DEF One
    <2>4. queue'[1] \in Nat
        BY <1>2, <1>4
    <2>5. k' + c' + queue'[1] <= k + c + queue[1]
        <3>1. MayStore(r) => MayStore(runs[x])
            BY DEF Pays
        <3>2. CASE queue'[1] = queue[1] + 1 /\ MayRetry(runs[x]) /\ ~MayRetry(r)
            <4>1. MayStore(runs[x]) /\ ~MayStore(r)
                BY <1>2, <3>2 DEF Pays, MayStore, MayRetry
            <4>2. result'.state = "SUCCESS" => result.state = "SUCCESS"
                BY <1>2, <3>2 DEF Pays
            <4> QED
                BY <1>2, <2>2, <3>2, <4>1, <4>2 DEF One
        <3>3. CASE queue'[1] = queue[1] /\ (result'.state = "SUCCESS" => result.state = "SUCCESS")
            BY <1>2, <2>2, <3>1, <3>3 DEF One
        <3>4. CASE queue'[1] = queue[1] /\ MayStore(runs[x]) /\ ~MayStore(r)
            BY <1>2, <2>2, <3>4 DEF One
        <3> QED
            BY <1>4, <3>2, <3>3, <3>4 DEF Pays
    <2> HIDE DEF k, c
    <2>6. /\ queue[0] \in Nat /\ queue[1] \in Nat /\ losses \in Nat
          /\ Uploads \in Nat /\ Uploads' \in Nat /\ Uploads <= Uploads'
        BY <1>1, <1>2
    <2>7. k' + c' + queue[0] + queue'[1] <= Uploads' + losses
        BY <2>1, <2>2, <2>3, <2>4, <2>5, <2>6, LinesPaid, SMT
    <2> QED
        BY <1>1, <1>3, <2>7 DEF RestoreBound, k, c
<1> QED
    BY <1>5, <1>6, <1>7, <1>8 DEF Counting

-----------------------------------------------------------------------------
(* The queue.                                                              *)

\* A worker is lost, or the visibility timeout passes.
LEMMA LossInv ==
    ASSUME IInv, NEW x \in DOMAIN runs, WorkerLost(x) \/ VisibilityTimeout(x)
    PROVE  IInv'
<1>0. /\ Types /\ Restoring /\ Counting /\ runs[x] \in Run
      /\ UNCHANGED <<archive, result, host>> /\ losses < MaxLosses /\ losses' = losses + 1
      /\ Requeue(x) /\ Live(x)
    BY RunAt DEF IInv, WorkerLost, VisibilityTimeout
<1>1. PICK r :
          /\ Becomes(x, r)
          /\ \/ r = [NewRun(runs[x].retries) EXCEPT !.at = "over", !.held = FALSE]
             \/ r = [runs[x] EXCEPT !.held = FALSE]
    <2>1. CASE WorkerLost(x)
        BY <1>0, <2>1, OverBecomes DEF WorkerLost
    <2>2. CASE VisibilityTimeout(x)
        BY <1>0, <2>2 DEF VisibilityTimeout, Becomes, Run
    <2> QED
        BY <2>1, <2>2
<1>2. /\ ~r.held /\ (r.at = "over" \/ (r.at = runs[x].at /\ r.todo = runs[x].todo))
      /\ r.retries = runs[x].retries
    BY <1>0, <1>1 DEF NewRun, Run
<1>3. Restoring'
    BY <1>0, <1>1, LeavesHost
<1>4. /\ queue \in [{0, 1} -> Nat] /\ runs[x].retries \in {0, 1}
      /\ queue' = IF runs[x].held THEN [queue EXCEPT ![runs[x].retries] = @ + 1] ELSE queue
    BY <1>0 DEF Types, Run, Requeue
<1>5. Types'
    <2>1. queue' \in [{0, 1} -> Nat]
        BY <1>4
    <2>2. losses' \in 0..MaxLosses
        BY <1>0, LossAssumption DEF Types
    <2> QED
        BY <1>0, <1>1, <2>1, <2>2, BecomesType DEF Types, HostTypes, host
<1>6. /\ queue[0] \in Nat /\ queue[1] \in Nat /\ losses \in Nat /\ Uploads \in {0, 1}
      /\ Len(runs) \in Nat /\ Len(runs)' = Len(runs) /\ Uploads' = Uploads
      /\ queue'[0] \in Nat /\ queue'[1] \in Nat
    BY <1>0, <1>1, <1>5, CountTypes, BecomesType DEF Uploads, Types
<1>7. \/ queue'[0] = queue[0] /\ queue'[1] = queue[1]
      \/ queue'[0] = queue[0] + 1 /\ queue'[1] = queue[1] /\ runs[x].held /\ runs[x].retries = 0
      \/ queue'[0] = queue[0] /\ queue'[1] = queue[1] + 1
    BY <1>4
<1>8. OriginalBound'
    <2>1. /\ ~HoldsFirst(r) /\ Cardinality(Holders) \in Nat /\ Cardinality(Holders)' \in Nat
          /\ runs[x].held /\ runs[x].retries = 0 => HoldsFirst(runs[x])
        BY <1>0, <1>1, <1>2, CountRun DEF HoldsFirst, Live
    <2>2. Cardinality(Holders)' = Cardinality(Holders) - One(HoldsFirst(runs[x]))
        BY <1>0, <1>1, <2>1, CountRun DEF One
    <2>3. queue[0] + Cardinality(Holders) <= Uploads
        BY <1>0 DEF OriginalBound, Counting
    <2>4. queue'[0] + Cardinality(Holders)' <= queue[0] + Cardinality(Holders)
        BY <1>6, <1>7, <2>1, <2>2 DEF One
    <2> QED
        BY <1>6, <2>1, <2>3, <2>4 DEF OriginalBound
<1>9. RunsBound'
    <2>1. /\ MayRetry(r) => MayRetry(runs[x])
          /\ Cardinality(Retriers) \in Nat /\ Cardinality(Retriers)' \in Nat
        BY <1>0, <1>1, <1>2, CountRun DEF MayRetry
    <2>2. Cardinality(Retriers)' <= Cardinality(Retriers)
        BY <1>0, <1>1, <2>1, CountRun DEF One
    <2>3. Len(runs) + 2 * queue[0] + queue[1] + Cardinality(Retriers) <= 2 * (Uploads + losses)
        BY <1>0 DEF RunsBound, Counting
    <2>4. 2 * queue'[0] + queue'[1] <= 2 * queue[0] + queue[1] + 2
        BY <1>6, <1>7, SMTT(30)
    <2>5. Len(runs)' + 2 * queue'[0] + queue'[1] + Cardinality(Retriers)'
             <= 2 * (Uploads' + losses')
        <3>1. losses' = losses + 1 /\ Len(runs)' = Len(runs) /\ Uploads' = Uploads
            BY <1>0, <1>6
        <3>2. /\ Len(runs) \in Nat /\ queue[0] \in Nat /\ queue[1] \in Nat /\ Uploads \in Nat
              /\ losses \in Nat /\ queue'[0] \in Nat /\ queue'[1] \in Nat
            BY <1>6
        <3>3. Len(runs) + 2 * queue'[0] + queue'[1] + Cardinality(Retriers)'
                 <= 2 * (Uploads + (losses + 1))
            BY <2>1, <2>2, <2>3, <2>4, <3>2, RunsLost, Zenon
        <3> QED
            BY <3>1, <3>3
    <2> QED
        BY <2>5 DEF RunsBound
<1>10. LinesBound'
    <2> SUFFICES ASSUME NEW m \in Mailboxes
                 PROVE  lines'[m] + Cardinality(Adders(m))' + queue'[0] + queue'[1]
                            <= Uploads' + losses'
        BY DEF LinesBound
    <2>1. lines[m] \in Nat /\ lines'[m] = lines[m]
        BY <1>0, CountTypes DEF host
    <2>2. lines[m] + Cardinality(Adders(m)) + queue[0] + queue[1] <= Uploads + losses
        BY <1>0 DEF LinesBound, Counting
    <2>3. /\ MayAdd(r, m) => MayAdd(runs[x], m)
          /\ Cardinality(Adders(m)) \in Nat /\ Cardinality(Adders(m))' \in Nat
        BY <1>0, <1>1, <1>2, CountRun DEF MayAdd
    <2>4. Cardinality(Adders(m))' <= Cardinality(Adders(m))
        BY <1>0, <1>1, <2>3, CountRun DEF One
    <2>5. queue'[0] + queue'[1] <= queue[0] + queue[1] + 1
        BY <1>6, <1>7
    <2> QED
        <3>1. losses' = losses + 1 /\ Uploads' = Uploads
            BY <1>0, <1>6
        <3>2. /\ Uploads \in Nat /\ losses \in Nat /\ queue[0] \in Nat /\ queue[1] \in Nat
              /\ queue'[0] \in Nat /\ queue'[1] \in Nat /\ lines[m] \in Nat
              /\ Cardinality(Adders(m)) \in Nat /\ Cardinality(Adders(m))' \in Nat
            BY <1>6, <2>1, <2>3
        <3>3. lines[m] + Cardinality(Adders(m))' + queue'[0] + queue'[1] <= Uploads + (losses + 1)
            BY <2>2, <2>4, <2>5, <3>2, LinesLost, Zenon
        <3> QED
            BY <2>1, <3>1, <3>3
<1>11. RestoreBound'
    <2> DEFINE k == One(result.state = "SUCCESS")
               c == Cardinality(Restorers)
    <2>1. k \in Nat /\ k' = k
        BY <1>0 DEF One
    <2>2. k + c + queue[0] + queue[1] <= Uploads + losses
        BY <1>0 DEF RestoreBound, Counting
    <2>3. c \in Nat /\ c' \in Nat /\ c' = c - One(MayStore(runs[x])) + One(MayStore(r))
        BY <1>0, <1>1, CountRun
    <2>4. MayStore(r) => MayStore(runs[x])
        BY <1>2 DEF MayStore
    <2>5. c' <= c
        BY <2>3, <2>4 DEF One
    <2> HIDE DEF k, c
    <2>6. queue'[0] + queue'[1] <= queue[0] + queue[1] + 1
        BY <1>6, <1>7
    <2>7. /\ Uploads \in Nat /\ losses \in Nat /\ queue[0] \in Nat /\ queue[1] \in Nat
          /\ queue'[0] \in Nat /\ queue'[1] \in Nat
        BY <1>6
    <2>8. k + c' + queue'[0] + queue'[1] <= Uploads + (losses + 1)
        BY <2>1, <2>2, <2>3, <2>5, <2>6, <2>7, LinesLost, SMT
    <2>9. k' + c' + queue'[0] + queue'[1] <= Uploads' + losses'
        BY <1>0, <1>6, <2>1, <2>8, Zenon
    <2> QED
        BY <2>9 DEF RestoreBound, k, c
<1> QED
    BY <1>3, <1>5, <1>8, <1>9, <1>10, <1>11 DEF IInv, Counting

\* A delivery: the message's share of each bound goes to the new run.
LEMMA DeliverInv ==
    ASSUME IInv, NEW n \in {0, 1}, Deliver(n)
    PROVE  IInv'
<1>0. /\ Types /\ Restoring /\ Counting /\ queue[n] > 0
      /\ UNCHANGED <<archive, result, losses, host>>
      /\ queue' = [queue EXCEPT ![n] = @ - 1] /\ runs' = Append(runs, NewRun(n))
      /\ runs \in Seq(Run) /\ queue \in [{0, 1} -> Nat]
    BY DEF IInv, Deliver, Types
<1>1. PICK x : x = Len(runs) + 1
    OBVIOUS
<1>2. NewRun(n) \in Run
    BY DEF NewRun, Run, Steps
<1>3. /\ runs' \in Seq(Run) /\ Len(runs)' = Len(runs) + 1 /\ Len(runs) \in Nat
      /\ DOMAIN runs = 1..Len(runs) /\ DOMAIN runs' = 1..x
      /\ runs'[x] = NewRun(n) /\ \A y \in DOMAIN runs : runs'[y] = runs[y]
    BY <1>0, <1>1, <1>2, AppendProperties, LenProperties
<1>4. x \notin DOMAIN runs /\ DOMAIN runs' = DOMAIN runs \cup {x}
    BY <1>1, <1>3
<1>5. Types'
    <2>1. queue' \in [{0, 1} -> Nat]
        BY <1>0
    <2> QED
        BY <1>0, <1>3, <2>1 DEF Types, HostTypes, host
<1>6. Restoring'
    <2>1. RunsOK'
        <3> SUFFICES ASSUME NEW y \in DOMAIN runs'
                     PROVE  LoopOK(runs[y])' /\ Progress(y, runs[y].at)' /\ Truth(y, runs[y])'
            BY DEF RunsOK
        <3>1. CASE y = x
            BY <1>3, <3>1 DEF NewRun, LoopOK, Progress, Truth, FromMail, FromDatabases,
                FromVhost, FromReload, FromPool, FromFpm
        <3>2. CASE y \in DOMAIN runs
            BY <1>0, <1>3, <3>2
            DEF Restoring, RunsOK, host, LoopOK, Progress, Given, HasFiles, HasHome, Truth,
                HasLines, HasDumps, Served
        <3> QED
            BY <1>4, <3>1, <3>2
    <2>2. ResultTruth'
        BY <1>0, <1>3, <1>4
        DEF Restoring, ResultTruth, host, HasHome, HasLines, HasDumps, Served
    <2>3. OwnerFirst'
        BY <1>0 DEF Restoring, OwnerFirst, Given, host
    <2>4. SoleWriters'
        <3>1. runs'[x].at = "parse"
            BY <1>3 DEF NewRun
        <3>2. Extracting' = Extracting /\ \A d \in Databases : Importing(d)' = Importing(d)
            BY <1>3, <1>4, <3>1 DEF Extracting, Importing, At
        <3> QED
            BY <1>0, <3>2 DEF Restoring, SoleWriters, host
    <2> QED
        BY <2>1, <2>2, <2>3, <2>4 DEF Restoring
<1>7. /\ queue[0] \in Nat /\ queue[1] \in Nat /\ losses \in Nat /\ Uploads \in {0, 1}
      /\ Uploads' = Uploads /\ losses' = losses
    BY <1>0, CountTypes DEF Uploads
<1>8. \/ n = 0 /\ queue'[0] = queue[0] - 1 /\ queue[0] > 0 /\ queue'[1] = queue[1]
      \/ n = 1 /\ queue'[1] = queue[1] - 1 /\ queue[1] > 0 /\ queue'[0] = queue[0]
    BY <1>0
<1>12. runs'[x].at = "parse" /\ runs'[x].held /\ runs'[x].retries = n
    BY <1>3 DEF NewRun
<1>9. OriginalBound'
    <2>1. IsFiniteSet(Holders) /\ Holders \ {x} = Holders' \ {x} /\ x \notin Holders
        BY <1>0, <1>3, <1>4, RunsFinite DEF Holders, HoldsFirst
    <2>2. x \in Holders' <=> n = 0
        BY <1>4, <1>12 DEF Holders, HoldsFirst
    <2>3. /\ Cardinality(Holders) \in Nat /\ Cardinality(Holders') \in Nat
          /\ Cardinality(Holders') = Cardinality(Holders) + One(n = 0)
        BY <2>1, <2>2, CountStep DEF One
    <2>4. queue[0] + Cardinality(Holders) <= Uploads
        BY <1>0 DEF OriginalBound, Counting
    <2>5. queue'[0] + Cardinality(Holders') <= Uploads'
        BY <1>7, <1>8, <2>3, <2>4 DEF One
    <2> QED
        BY <2>5 DEF OriginalBound
<1>10. RunsBound'
    <2>1. IsFiniteSet(Retriers) /\ Retriers \ {x} = Retriers' \ {x} /\ x \notin Retriers
        BY <1>0, <1>3, <1>4, RunsFinite DEF Retriers, MayRetry
    <2>2. x \in Retriers' <=> n = 0
        BY <1>4, <1>12 DEF Retriers, MayRetry
    <2>3. /\ Cardinality(Retriers) \in Nat /\ Cardinality(Retriers') \in Nat
          /\ Cardinality(Retriers') = Cardinality(Retriers) + One(n = 0)
        BY <2>1, <2>2, CountStep DEF One
    <2>4. Len(runs) + 2 * queue[0] + queue[1] + Cardinality(Retriers) <= 2 * (Uploads + losses)
        BY <1>0 DEF RunsBound, Counting
    <2>5. Len(runs)' + 2 * queue'[0] + queue'[1] + Cardinality(Retriers')
             <= 2 * (Uploads' + losses')
        <3>1. /\ Len(runs) \in Nat /\ queue[0] \in Nat /\ queue[1] \in Nat /\ Uploads \in Nat
              /\ losses \in Nat
            BY <1>3, <1>7
        <3>2. CASE n = 0
            <4>1. queue[0] > 0 /\ queue'[0] = queue[0] - 1 /\ queue'[1] = queue[1]
                BY <1>8, <3>2
            <4>2. Cardinality(Retriers') = Cardinality(Retriers) + 1
                BY <2>3, <3>2 DEF One
            <4>3. (Len(runs) + 1) + 2 * (queue[0] - 1) + queue[1] + (Cardinality(Retriers) + 1)
                     <= 2 * (Uploads + losses)
                BY <2>3, <2>4, <3>1, <4>1, FirstDelivered, Zenon
            <4> QED
                BY <1>3, <1>7, <4>1, <4>2, <4>3, Zenon
        <3>3. CASE n = 1
            <4>1. queue[1] > 0 /\ queue'[0] = queue[0] /\ queue'[1] = queue[1] - 1
                BY <1>8, <3>3
            <4>2. Cardinality(Retriers') = Cardinality(Retriers)
                BY <2>3, <3>3 DEF One
            <4>3. (Len(runs) + 1) + 2 * queue[0] + (queue[1] - 1) + Cardinality(Retriers)
                     <= 2 * (Uploads + losses)
                BY <2>3, <2>4, <3>1, <4>1, RetryDelivered, Zenon
            <4> QED
                BY <1>3, <1>7, <4>1, <4>2, <4>3, Zenon
        <3> QED
            BY <3>2, <3>3
    <2> QED
        BY <2>5 DEF RunsBound
<1>11. LinesBound'
    <2> SUFFICES ASSUME NEW m \in Mailboxes
                 PROVE  lines'[m] + Cardinality(Adders(m)') + queue'[0] + queue'[1]
                            <= Uploads' + losses'
        BY DEF LinesBound
    <2>1. IsFiniteSet(Adders(m)) /\ Adders(m) \ {x} = Adders(m)' \ {x} /\ x \notin Adders(m)
        BY <1>0, <1>3, <1>4, RunsFinite DEF Adders, MayAdd
    <2>2. x \in Adders(m)'
        BY <1>4, <1>12 DEF Adders, MayAdd
    <2>3. /\ Cardinality(Adders(m)) \in Nat /\ Cardinality(Adders(m)') \in Nat
          /\ Cardinality(Adders(m)') = Cardinality(Adders(m)) + 1
        BY <2>1, <2>2, CountStep DEF One
    <2>4. lines[m] + Cardinality(Adders(m)) + queue[0] + queue[1] <= Uploads + losses
        BY <1>0 DEF LinesBound, Counting
    <2>5. lines[m] \in Nat /\ lines'[m] = lines[m]
        BY <1>0, CountTypes DEF host
    <2> QED
        <3>1. /\ queue[0] \in Nat /\ queue[1] \in Nat /\ Uploads \in Nat /\ losses \in Nat
              /\ queue'[0] \in Nat /\ queue'[1] \in Nat
              /\ queue'[0] + queue'[1] + 1 <= queue[0] + queue[1]
            BY <1>7, <1>8
        <3>2. lines[m] + (Cardinality(Adders(m)) + 1) + queue'[0] + queue'[1] <= Uploads + losses
            BY <2>3, <2>4, <2>5, <3>1, LinesDelivered, SMT
        <3> QED
            BY <1>7, <2>3, <2>5, <3>2
<1>13. RestoreBound'
    <2> DEFINE k == One(result.state = "SUCCESS")
               c == Cardinality(Restorers)
    <2>1. k \in Nat /\ k' = k
        BY <1>0 DEF One
    <2>2. k + c + queue[0] + queue[1] <= Uploads + losses
        BY <1>0 DEF RestoreBound, Counting
    <2>3. /\ IsFiniteSet(Restorers) /\ Restorers \ {x} = Restorers' \ {x}
          /\ x \notin Restorers /\ x \in Restorers'
        BY <1>0, <1>3, <1>4, <1>12, RunsFinite DEF Restorers, MayStore
    <2>4. c \in Nat /\ c' \in Nat /\ c' = c + 1
        BY <2>3, CountStep DEF One
    <2> HIDE DEF k, c
    <2>5. /\ queue[0] \in Nat /\ queue[1] \in Nat /\ Uploads \in Nat /\ losses \in Nat
          /\ queue'[0] \in Nat /\ queue'[1] \in Nat
          /\ queue'[0] + queue'[1] + 1 <= queue[0] + queue[1]
        BY <1>7, <1>8
    <2>6. k + (c + 1) + queue'[0] + queue'[1] <= Uploads + losses
        BY <2>1, <2>2, <2>4, <2>5, LinesDelivered, SMT
    <2>7. k' + c' + queue'[0] + queue'[1] <= Uploads' + losses'
        BY <1>7, <2>1, <2>4, <2>6, Zenon
    <2> QED
        BY <2>7 DEF RestoreBound, k, c
<1> QED
    BY <1>5, <1>6, <1>9, <1>10, <1>11, <1>13 DEF IInv, Counting

LEMMA UploadInv ==
    ASSUME IInv, NEW published \in BOOLEAN, Upload(published)
    PROVE  IInv'
<1>0. /\ Types /\ Restoring /\ Counting /\ result.state = "none"
      /\ UNCHANGED <<archive, runs, losses, host>> /\ queue \in [{0, 1} -> Nat]
      /\ queue' = IF published THEN [queue EXCEPT ![0] = 1] ELSE queue
      /\ result' = [result EXCEPT !.state = IF published THEN "PENDING" ELSE "FAILURE"]
    BY DEF IInv, Upload, Types
<1>1. result' \in Result /\ result'.state \in {"PENDING", "FAILURE"}
    BY <1>0 DEF Types, Result
<1>2. Types'
    BY <1>0, <1>1 DEF Types, HostTypes, host
<1>3. Restoring'
    BY <1>0, <1>1 DEF Restoring, RunsOK, ResultTruth, OwnerFirst, SoleWriters, Extracting,
        Importing, At, host, LoopOK, Progress, Given, HasFiles, HasHome, Truth, HasLines,
        HasDumps, Served
<1>4. /\ queue[0] \in Nat /\ queue[1] \in Nat /\ losses \in Nat /\ Len(runs) \in Nat
      /\ Uploads = 0 /\ Uploads' = 1 /\ losses' = losses
      /\ queue'[0] \in {queue[0], 1} /\ queue'[1] = queue[1]
    BY <1>0, <1>1, CountTypes DEF Uploads
<1>5. OriginalBound'
    <2>1. Cardinality(Holders) \in Nat /\ Cardinality(Holders)' = Cardinality(Holders)
        BY <1>0, RunsFinite DEF Holders
    <2>2. queue[0] + Cardinality(Holders) <= 0
        BY <1>0, <1>4 DEF OriginalBound, Counting
    <2> QED
        BY <1>4, <2>1, <2>2 DEF OriginalBound
<1>6. RunsBound'
    <2>1. Cardinality(Retriers) \in Nat /\ Cardinality(Retriers)' = Cardinality(Retriers)
        BY <1>0, RunsFinite DEF Retriers
    <2>2. Len(runs) + 2 * queue[0] + queue[1] + Cardinality(Retriers) <= 2 * losses
        BY <1>0, <1>4 DEF RunsBound, Counting
    <2>3. Len(runs)' = Len(runs)
        BY <1>0
    <2>4. Len(runs)' + 2 * queue'[0] + queue'[1] + Cardinality(Retriers)'
             <= 2 * (Uploads' + losses')
        <3>1. queue'[0] \in Nat /\ queue'[0] <= queue[0] + 1
            BY <1>4
        <3>2. Len(runs) + 2 * queue'[0] + queue[1] + Cardinality(Retriers) <= 2 * (1 + losses)
            BY <1>4, <2>1, <2>2, <3>1, RunsUploaded, Zenon
        <3> QED
            BY <1>4, <2>1, <2>3, <3>2
    <2> QED
        BY <2>4 DEF RunsBound
<1>7. LinesBound'
    <2> SUFFICES ASSUME NEW m \in Mailboxes
                 PROVE  lines'[m] + Cardinality(Adders(m))' + queue'[0] + queue'[1]
                            <= Uploads' + losses'
        BY DEF LinesBound
    <2>1. Cardinality(Adders(m)) \in Nat /\ Cardinality(Adders(m))' = Cardinality(Adders(m))
        BY <1>0, RunsFinite DEF Adders
    <2>2. lines[m] + Cardinality(Adders(m)) + queue[0] + queue[1] <= losses
        BY <1>0, <1>4 DEF LinesBound, Counting
    <2>3. lines[m] \in Nat /\ lines'[m] = lines[m]
        BY <1>0, CountTypes DEF host
    <2> QED
        <3>1. queue'[0] \in Nat /\ queue'[0] <= queue[0] + 1
            BY <1>4
        <3>2. lines[m] + Cardinality(Adders(m)) + queue'[0] + queue[1] <= 1 + losses
            BY <1>4, <2>1, <2>2, <2>3, <3>1, LinesUploaded, Zenon
        <3> QED
            BY <1>4, <2>1, <2>3, <3>2
<1>8. RestoreBound'
    <2> DEFINE k == One(result.state = "SUCCESS")
               c == Cardinality(Restorers)
    <2>1. k = 0 /\ k' = 0
        BY <1>0, <1>1 DEF One
    <2>2. c \in Nat /\ c' = c
        BY <1>0, RunsFinite DEF Restorers
    <2>3. k + c + queue[0] + queue[1] <= losses
        BY <1>0, <1>4 DEF RestoreBound, Counting
    <2> HIDE DEF k, c
    <2>4. queue'[0] \in Nat /\ queue'[0] <= queue[0] + 1 /\ k \in Nat
        BY <1>4, <2>1
    <2>5. k + c + queue'[0] + queue[1] <= 1 + losses
        BY <1>4, <2>2, <2>3, <2>4, LinesUploaded, Zenon
    <2>6. k' + c' + queue'[0] + queue'[1] <= Uploads' + losses'
        BY <1>4, <2>1, <2>2, <2>5, Zenon
    <2> QED
        BY <2>6 DEF RestoreBound, k, c
<1> QED
    BY <1>2, <1>3, <1>5, <1>6, <1>7, <1>8 DEF IInv, Counting

-----------------------------------------------------------------------------
(* The inductive invariant.                                                *)

LEMMA InitInv == Init => IInv
<1> SUFFICES ASSUME Init
             PROVE  IInv
    OBVIOUS
<1>1. runs = <<>> /\ DOMAIN runs = {} /\ Len(runs) = 0 /\ result.state = "none"
    BY DEF Init
<1>2. Types
    <2>1. runs \in Seq(Run)
        BY <1>1, EmptySeq
    <2>2. result \in Result /\ losses \in 0..MaxLosses /\ archive \in Archives
        BY LossAssumption DEF Init, Result
    <2>3. HostTypes
        <3>1. /\ [state |-> "none", run |-> 0] \in DbState
              /\ [state |-> "none", owner |-> "none", run |-> 0] \in HomeState
            BY DEF DbState, HomeState
        <3> QED
            BY <3>1 DEF Init, HostTypes
    <2>4. queue \in [{0, 1} -> Nat]
        BY DEF Init
    <2> QED
        BY <2>1, <2>2, <2>3, <2>4 DEF Types
<1>3. Restoring
    BY <1>1 DEF Init, Restoring, RunsOK, ResultTruth, OwnerFirst, SoleWriters
<1>4. /\ Cardinality(Holders) = 0 /\ Cardinality(Retriers) = 0 /\ Cardinality(Restorers) = 0
      /\ \A m : Cardinality(Adders(m)) = 0
    <2>1. Holders = {} /\ Retriers = {} /\ Restorers = {} /\ \A m : Adders(m) = {}
        BY <1>1 DEF Holders, Retriers, Restorers, Adders
    <2> QED
        BY <2>1, FS_EmptySet
<1>5. queue[0] = 0 /\ queue[1] = 0 /\ losses = 0 /\ Uploads = 0 /\ \A m \in Mailboxes : lines[m] = 0
    BY <1>1 DEF Init, Uploads
<1>6. Counting
    BY <1>1, <1>4, <1>5 DEF Counting, LinesBound, RestoreBound, One, RunsBound, OriginalBound
<1> QED
    BY <1>2, <1>3, <1>6 DEF IInv

LEMMA StepInv == IInv /\ [Next]_vars => IInv'
<1> SUFFICES ASSUME IInv, [Next]_vars
             PROVE  IInv'
    OBVIOUS
<1>1. ASSUME NEW published \in BOOLEAN, Upload(published)
      PROVE  IInv'
    BY <1>1, UploadInv
<1>2. ASSUME NEW n \in {0, 1}, Deliver(n)
      PROVE  IInv'
    BY <1>2, DeliverInv
<1>3. ASSUME NEW x \in DOMAIN runs, Step(x)
      PROVE  IInv'
    <2>1. Types /\ Restoring /\ Counting
        BY DEF IInv
    <2>2. Sound(x)
        BY <1>3, <2>1, StepSound
    <2>3. PICK r : Becomes(x, r) /\ Pays(x, r)
        BY <2>2 DEF Sound
    <2> QED
        BY <2>1, <2>2, <2>3, PaysCounting DEF Sound, IInv
<1>4. ASSUME NEW x \in DOMAIN runs, WorkerLost(x) \/ VisibilityTimeout(x)
      PROVE  IInv'
    BY <1>4, LossInv
<1>5. CASE UNCHANGED vars
    BY <1>5 DEF vars, host, IInv, Types, HostTypes, Restoring, RunsOK, ResultTruth,
        OwnerFirst, SoleWriters, Extracting, Importing, At, LoopOK, Progress, Given, HasFiles,
        HasHome, Truth, HasLines, HasDumps, Served, Counting, LinesBound, RestoreBound,
        RunsBound, OriginalBound, Uploads, Adders, Restorers, Retriers, Holders
<1> QED
    BY <1>1, <1>2, <1>3, <1>4, <1>5 DEF Next

LEMMA Inductive == Spec => []IInv
BY InitInv, StepInv, PTL DEF Spec

-----------------------------------------------------------------------------
(* Without losses.                                                         *)

LEMMA OneRestorer ==
    ASSUME NEW k \in Nat, NEW c \in Nat, NEW p \in Nat, NEW q \in Nat, NEW u \in Nat,
           NEW b \in Nat, k + c + p + q <= u + 0, u <= 1, c = b + 1
    PROVE  k = 0 /\ b = 0
OBVIOUS

\* While nothing is lost, a run that may still store a result is the only one.
LEMMA Alone ==
    ASSUME IInv, Undisturbed, losses = 0, NEW x \in Restorers
    PROVE  /\ result.state # "SUCCESS" /\ Restorers = {x}
           /\ Extracting \subseteq {x} /\ \A d \in Databases : Importing(d) \subseteq {x}
           /\ Mine(x, runs[x])
           /\ vhost # "none" =>
                 home.owner = "account" /\ runs[x].at \in FromReload \cup {"store"}
<1>0. /\ Types /\ queue[0] \in Nat /\ queue[1] \in Nat /\ Uploads \in Nat /\ Uploads <= 1
    <2>1. Types /\ queue[0] \in Nat /\ queue[1] \in Nat /\ Uploads \in {0, 1}
        BY CountTypes DEF IInv
    <2> QED
        BY <2>1
<1>1. IsFiniteSet(Restorers)
    BY <1>0, RunsFinite DEF Restorers
<1>2. PICK S : S = Restorers \ {x}
    OBVIOUS
<1>3. /\ IsFiniteSet(S) /\ Cardinality(S) \in Nat /\ Cardinality(Restorers) \in Nat
      /\ Cardinality(Restorers) = Cardinality(S) + 1
    <2>1. /\ IsFiniteSet(S) /\ Cardinality(Restorers) \in Nat /\ Cardinality(S) \in Nat
          /\ Cardinality(S) = Cardinality(Restorers) - 1
        BY <1>1, <1>2, FS_RemoveElement, FS_CardinalityType
    <2> QED
        BY <2>1
<1>4. One(result.state = "SUCCESS") = 0 /\ Cardinality(S) = 0
    <2>1. /\ One(result.state = "SUCCESS") \in Nat
          /\ One(result.state = "SUCCESS") + Cardinality(Restorers) + queue[0] + queue[1]
                <= Uploads + 0
        BY DEF IInv, Counting, RestoreBound, One
    <2> QED
        BY <1>0, <1>3, <2>1, OneRestorer, SMT
<1>5. result.state # "SUCCESS" /\ Restorers = {x}
    <2>1. S = {}
        BY <1>3, <1>4, FS_EmptySet
    <2> QED
        BY <1>2, <1>4, <2>1 DEF One
<1>6. \A y \in DOMAIN runs \ {x} : runs[y].at \in {"ack", "over"}
    BY <1>5 DEF Restorers, MayStore
<1> QED
    BY <1>5, <1>6 DEF Restorers, Extracting, Importing, At, Undisturbed, FromReload, FromPool, FromFpm

\* A step of the only run that restores, which stores no result.
LEMMA Works ==
    ASSUME IInv, Undisturbed, losses = 0, UNCHANGED result, NEW x \in Restorers,
           NEW r, Becomes(x, r), Mine(x, r)',
           vhost' # "none" => home'.owner = "account" /\ r.at \in FromReload \cup {"store"}
    PROVE  Undisturbed'
<1>1. /\ DOMAIN runs' = DOMAIN runs /\ x \in DOMAIN runs /\ runs'[x] = r
      /\ \A y \in DOMAIN runs \ {x} : runs'[y] = runs[y]
    BY BecomesType DEF Becomes, IInv
<1>2. \A y \in DOMAIN runs \ {x} : runs'[y].at \in {"ack", "over"}
    BY <1>1, Alone DEF Restorers, MayStore
<1>3. ASSUME NEW y \in DOMAIN runs \ {x}
      PROVE  Mine(y, runs[y])'
    BY <1>2, <1>3 DEF Mine, FromMail, FromDatabases, FromVhost, FromReload, FromPool, FromFpm
<1>4. Mine(x, runs[x])'
    BY <1>1
<1>5. \A y \in DOMAIN runs' : Mine(y, runs[y])'
    BY <1>1, <1>3, <1>4
<1>6. result'.state # "SUCCESS"
    BY Alone
<1> QED
    BY <1>1, <1>5, <1>6 DEF Undisturbed

LEMMA RaiseWorks ==
    ASSUME IInv, Undisturbed, losses = 0, NEW x \in Restorers, Raise(x),
           vhost' # "none" => home'.owner = "account"
    PROVE  Undisturbed'
<1>0. Types /\ x \in DOMAIN runs /\ runs[x] \in Run
    BY RunAt DEF IInv, Restorers
<1>1. PICK r : r = [runs[x] EXCEPT !.at = "store", !.error = TRUE]
    OBVIOUS
<1>2. Becomes(x, r) /\ r.at = "store" /\ r.error
    BY <1>0, <1>1, RaiseBecomes DEF Run
<1>3. Mine(x, r)'
    BY <1>2 DEF Mine, FromMail, FromDatabases, FromVhost, FromReload, FromPool, FromFpm
<1> QED
    BY <1>2, <1>3, Works DEF Raise

LEMMA PassedWorks ==
    ASSUME IInv, Undisturbed, losses = 0, NEW x \in Restorers,
           NEW s \in {"user", "home", "ownership", "store"} \cup FromVhost,
           Passed(x, s), UNCHANGED db, home'.run = home.run,
           s = "ownership" => runs[x].at = "extract",
           s \in FromVhost \cup {"store"} =>
                \/ runs[x].at \in FromVhost
                \/ runs[x].at = "databases" /\ runs[x].todo = {},
           vhost' # "none" => home'.owner = "account" /\ s \in FromReload \cup {"store"}
    PROVE  Undisturbed'
<1> USE DEF FromMail, FromDatabases, FromVhost, FromReload, FromPool, FromFpm
<1>0. Types /\ x \in DOMAIN runs /\ runs[x] \in Run /\ Mine(x, runs[x])
    BY RunAt, Alone DEF IInv, Restorers
<1>1. PICK r : r = [runs[x] EXCEPT !.at = s]
    OBVIOUS
<1>2. Becomes(x, r)
    BY <1>0, <1>1, ToBecomes DEF Passed, Steps
<1>3. r.at = s /\ r.error = runs[x].error /\ r.todo = runs[x].todo
    BY <1>0, <1>1 DEF Run
<1>4. Mine(x, r)'
    BY <1>0, <1>3 DEF Mine
<1> QED
    BY <1>2, <1>3, <1>4, Works DEF Passed

\* What a step of the only run that restores makes of the host is its work.
LEMMA RestorerUndisturbed ==
    ASSUME IInv, Undisturbed, losses = 0, NEW x \in Restorers, Step(x)
    PROVE  Undisturbed'
<1>0. /\ Types /\ x \in DOMAIN runs /\ runs[x] \in Run /\ LoopOK(runs[x])
      /\ Progress(x, runs[x].at) /\ HostTypes /\ home \in HomeState
      /\ db \in [Databases -> DbState]
    BY RunAt DEF IInv, Restorers, Restoring, RunsOK, Types, HostTypes
<1>1. /\ result.state # "SUCCESS" /\ Restorers = {x} /\ Extracting \subseteq {x}
      /\ Mine(x, runs[x])
      /\ vhost # "none" =>
            home.owner = "account" /\ runs[x].at \in FromReload \cup {"store"}
    BY Alone
<1>2. \A d \in Databases : Importing(d) \subseteq {x}
    BY Alone
<1> USE DEF At, FromMail, FromDatabases, FromVhost, FromReload, FromPool, FromFpm
<1>3. CASE Parse(x) \/ CreateUser(x) \/ CreateUserFails(x)
    <2>1. vhost' = "none" /\ UNCHANGED <<home, db>>
        BY <1>1, <1>3 DEF Parse, CreateUser, CreateUserFails, host
    <2>2. Raise(x) \/ \E s \in {"user", "home"} : Passed(x, s)
        BY <1>3 DEF Parse, Passed, CreateUser, CreateUserFails
    <2> QED
        BY <2>1, <2>2, PassedWorks, RaiseWorks
<1>4. CASE ParseRaises(x)
    <2>1. Becomes(x, [runs[x] EXCEPT !.at = "ack"])
        BY <1>0, <1>4, ToBecomes DEF ParseRaises, Steps
    <2>2. PICK r : r = [runs[x] EXCEPT !.at = "ack"]
        OBVIOUS
    <2>3. Becomes(x, r) /\ r.at = "ack" /\ Mine(x, r)'
        BY <1>0, <2>1, <2>2 DEF Run, Mine
    <2>4. vhost' = "none" /\ result'.state # "SUCCESS"
        BY <1>0, <1>1, <1>4 DEF ParseRaises, Stored, host, Types, Result
    <2>5. /\ DOMAIN runs' = DOMAIN runs /\ runs'[x] = r
          /\ \A y \in DOMAIN runs \ {x} : runs'[y] = runs[y] /\ runs[y].at \in {"ack", "over"}
        BY <1>0, <1>1, <2>3, BecomesType DEF Restorers, MayStore
    <2>6. \A y \in DOMAIN runs' : Mine(y, runs[y])'
        BY <2>3, <2>5 DEF Mine
    <2> QED
        BY <2>4, <2>6 DEF Undisturbed
<1>5. CASE StartExtract(x)
    <2>1. PICK r : r = [runs[x] EXCEPT !.at = "extract"]
        OBVIOUS
    <2>2. Becomes(x, r) /\ r.at = "extract"
        BY <1>0, <1>5, <2>1, ToBecomes DEF StartExtract, Passed, Steps, Run
    <2>3. Extracting = {} /\ home'.run = x /\ vhost' = "none"
        BY <1>1, <1>5 DEF StartExtract, Extracting
    <2>4. Mine(x, r)'
        BY <2>2, <2>3 DEF Mine
    <2> QED
        BY <1>5, <2>2, <2>3, <2>4, Works DEF StartExtract, Passed
<1>6. CASE EndExtract(x)
    <2>1. home'.run = home.run /\ vhost' = "none" /\ UNCHANGED db
        BY <1>0, <1>1, <1>6 DEF EndExtract, HomeState
    <2> QED
        BY <1>6, <2>1, PassedWorks DEF EndExtract
<1>7. CASE FixOwnership(x)
    <2>1. home'.run = x /\ vhost' = "none"
        BY <1>0, <1>1, <1>7 DEF FixOwnership, HomeState, Mine
    <2>2. CASE Raise(x)
        BY <2>1, <2>2, RaiseWorks
    <2>3. CASE /\ runs' = [runs EXCEPT ![x].at = "mail", ![x].todo = Mailboxes]
               /\ UNCHANGED <<archive, queue, result, losses>>
        <3>1. PICK r : r = [runs[x] EXCEPT !.at = "mail", !.todo = Mailboxes]
            OBVIOUS
        <3>2. Becomes(x, r) /\ r.at = "mail"
            BY <1>0, <2>3, <3>1 DEF Becomes, Run, Steps
        <3>3. Mine(x, r)'
            BY <2>1, <3>2 DEF Mine
        <3> QED
            BY <2>1, <2>3, <3>2, <3>3, Works
    <2> QED
        BY <1>7, <2>2, <2>3 DEF FixOwnership
<1>8. CASE FixOwnershipFails(x) \/ StepFails(x)
    BY <1>1, <1>8, RaiseWorks DEF FixOwnershipFails, StepFails, host
<1>9. ASSUME NEW m \in Mailboxes, RestoreMailbox(x, m)
      PROVE  Undisturbed'
    <2>1. PICK ok \in BOOLEAN : Done(x, m, ok)
        BY <1>9 DEF RestoreMailbox
    <2>2. PICK r : r = [runs[x] EXCEPT !.todo = @ \ {m}, !.current = {}, !.error = @ \/ ~ok]
        OBVIOUS
    <2>3. Becomes(x, r) /\ r.at = "mail"
        BY <1>0, <1>9, <2>1, <2>2, DoneBecomes DEF RestoreMailbox, Run
    <2>4. vhost' = "none" /\ Mine(x, r)'
        BY <1>1, <1>9, <2>3 DEF RestoreMailbox, Mine
    <2> QED
        BY <1>9, <2>3, <2>4, Works DEF RestoreMailbox
<1>10. CASE MailboxesDone(x)
    <2>1. PICK r : r = [runs[x] EXCEPT !.at = "databases", !.todo = Databases]
        OBVIOUS
    <2>2. Becomes(x, r)
        BY <1>0, <1>10, <2>1 DEF MailboxesDone, Becomes, Run, Steps
    <2>3. r.at = "databases" /\ r.todo = Databases /\ r.current = {}
        BY <1>0, <1>10, <2>1 DEF MailboxesDone, Run, LoopOK
    <2>4. vhost' = "none" /\ Mine(x, r)'
        BY <1>1, <1>10, <2>3 DEF MailboxesDone, host, Mine
    <2> QED
        BY <1>10, <2>2, <2>4, Works DEF MailboxesDone
<1>11. ASSUME NEW d \in Databases, StartImport(x, d)
       PROVE  Undisturbed'
    <2>1. PICK r : r = [runs[x] EXCEPT !.current = {d}]
        OBVIOUS
    <2>2. Becomes(x, r)
        BY <1>0, <1>11, <2>1 DEF StartImport, Becomes, Run
    <2>3. /\ r.at = "databases" /\ r.todo = runs[x].todo /\ r.current = {d}
          /\ r.error = runs[x].error
        BY <1>0, <1>11, <2>1 DEF StartImport, Run
    <2>4. Importing(d) = {}
        BY <1>2, <1>11 DEF StartImport, Importing
    <2>5. /\ db'[d].run = x /\ \A c \in Databases \ {d} : db'[c] = db[c]
          /\ home' = home /\ vhost' = "none"
        BY <1>0, <1>1, <1>11, <2>4 DEF StartImport
    <2>6. Mine(x, r)'
        BY <1>1, <1>11, <2>3, <2>5 DEF StartImport, Mine
    <2> QED
        BY <1>11, <2>2, <2>5, <2>6, Works DEF StartImport
<1>12. ASSUME NEW d \in Databases, DatabaseFails(x, d)
       PROVE  Undisturbed'
    <2>1. PICK r : r = [runs[x] EXCEPT !.todo = @ \ {d}, !.current = {}, !.error = @ \/ ~FALSE]
        OBVIOUS
    <2>2. Becomes(x, r) /\ r.at = "databases" /\ r.error
        BY <1>0, <1>12, <2>1, DoneBecomes DEF DatabaseFails, Run
    <2>3. vhost' = "none" /\ Mine(x, r)'
        BY <1>1, <1>12, <2>2 DEF DatabaseFails, host, Mine
    <2> QED
        BY <1>12, <2>2, <2>3, Works DEF DatabaseFails
<1>13. ASSUME NEW d \in Databases, NEW ok \in BOOLEAN, EndImport(x, d, ok)
       PROVE  Undisturbed'
    <2>1. PICK r : r = [runs[x] EXCEPT !.todo = @ \ {d}, !.current = {}, !.error = @ \/ ~ok]
        OBVIOUS
    <2>2. Becomes(x, r)
        BY <1>0, <1>13, <2>1, DoneBecomes DEF EndImport
    <2>3. /\ r.at = "databases" /\ r.todo = runs[x].todo \ {d} /\ r.current = {}
          /\ ~r.error => ~runs[x].error
          /\ runs[x].at = "databases" /\ d \in runs[x].current
        BY <1>0, <1>13, <2>1 DEF EndImport, Importing, Run
    <2>4. (\A c \in Databases : db'[c].run = db[c].run) /\ home' = home /\ vhost' = "none"
        BY <1>0, <1>1, <1>13, <2>3 DEF EndImport, DbState
    <2>5. Mine(x, r)'
        BY <1>1, <2>3, <2>4 DEF Mine
    <2> QED
        BY <1>13, <2>2, <2>4, <2>5, Works DEF EndImport
<1>14. CASE DatabasesDone(x)
    <2>1. vhost' = "none" /\ UNCHANGED <<home, db>>
        BY <1>1, <1>14 DEF DatabasesDone, host
    <2> QED
        BY <1>14, <2>1, PassedWorks DEF DatabasesDone
<1>15. CASE WriteVhost(x)
    <2>1. home.owner = "account" /\ UNCHANGED <<home, db>>
        BY <1>0, <1>1, <1>15 DEF WriteVhost, Progress, HasHome, Mine
    <2> QED
        BY <1>15, <2>1, PassedWorks, RaiseWorks DEF WriteVhost
<1>16. CASE Reload(x) \/ WritePool(x) \/ ReloadFpm(x) \/ EnableCagefs(x)
    <2>1. /\ vhost # "none" /\ home.owner = "account" /\ UNCHANGED <<home, db>>
          /\ runs[x].at \in FromReload
        BY <1>0, <1>1, <1>16 DEF Reload, WritePool, ReloadFpm, EnableCagefs, Progress
    <2>2. Raise(x) \/ \E s \in FromPool \cup {"store"} : Passed(x, s)
        BY <1>16 DEF Reload, WritePool, ReloadFpm, EnableCagefs
    <2> QED
        BY <2>1, <2>2, PassedWorks, RaiseWorks
<1>17. CASE StoreResult(x)
    <2>1. PICK r : r = [runs[x] EXCEPT !.at = "ack"]
        OBVIOUS
    <2>2. Becomes(x, r) /\ r.at = "ack" /\ Mine(x, r)'
        BY <1>0, <1>17, <2>1, ToBecomes DEF StoreResult, Steps, Run, Mine
    <2>3. /\ result' = [state |-> "SUCCESS", clean |-> ~runs[x].error, run |-> x]
          /\ UNCHANGED <<home, db, vhost>> /\ runs[x].at = "store"
        BY <1>1, <1>17 DEF StoreResult, Stored, host
    <2>4. result'.state = "SUCCESS" /\ (result'.clean => WrittenBy(result.run)')
        <3>1. ~runs[x].error => home.run = x /\ \A d \in Databases : db[d].run = x
            BY <1>1, <2>3 DEF Mine
        <3>2. result'.state = "SUCCESS" /\ result'.run = x /\ result'.clean = ~runs[x].error
            BY <2>3
        <3> QED
            BY <2>3, <3>1, <3>2 DEF WrittenBy
    <2>5. /\ DOMAIN runs' = DOMAIN runs /\ runs'[x] = r
          /\ \A y \in DOMAIN runs \ {x} : runs'[y] = runs[y] /\ runs[y].at \in {"ack", "over"}
        BY <1>0, <1>1, <2>2, BecomesType DEF Restorers, MayStore
    <2>6. \A y \in DOMAIN runs' : Mine(y, runs[y])'
        BY <2>2, <2>5 DEF Mine
    <2>7. vhost' # "none" => home'.owner = "account"
        BY <1>1, <2>3
    <2> QED
        BY <2>4, <2>6, <2>7 DEF Undisturbed
<1>18. ~Acknowledge(x)
    BY DEF Acknowledge, Restorers, MayStore
<1> QED
    BY <1>3, <1>4, <1>5, <1>6, <1>7, <1>8, <1>9, <1>10, <1>11, <1>12, <1>13, <1>14, <1>15,
       <1>16, <1>17, <1>18
    DEF Step

LEMMA StepUndisturbed == IInv /\ Undisturbed /\ [Next]_vars => Undisturbed'
<1> SUFFICES ASSUME IInv, Undisturbed, [Next]_vars, losses' = 0
             PROVE  Undisturbed'
    BY DEF Undisturbed
<1>0. Types /\ losses \in Nat /\ runs \in Seq(Run)
    BY CountTypes DEF IInv, Types
<1> USE DEF FromMail, FromDatabases, FromVhost, FromReload, FromPool, FromFpm
<1>1. ASSUME NEW published \in BOOLEAN, Upload(published)
      PROVE  Undisturbed'
    <2>1. result'.state # "SUCCESS"
        BY <1>0, <1>1 DEF Upload, Types, Result
    <2> QED
        BY <1>1, <2>1 DEF Upload, host, Undisturbed, Mine, WrittenBy
<1>2. ASSUME NEW n \in {0, 1}, Deliver(n)
      PROVE  Undisturbed'
    <2>1. PICK x : x = Len(runs) + 1
        OBVIOUS
    <2>2. NewRun(n) \in Run
        BY DEF NewRun, Run, Steps
    <2>3. /\ DOMAIN runs = 1..Len(runs) /\ DOMAIN runs' = 1..x /\ Len(runs) \in Nat
          /\ runs'[x] = NewRun(n) /\ \A y \in DOMAIN runs : runs'[y] = runs[y]
        BY <1>0, <1>2, <2>1, <2>2, AppendProperties, LenProperties DEF Deliver
    <2>4. DOMAIN runs' = DOMAIN runs \cup {x} /\ runs'[x].at = "parse"
        BY <2>1, <2>3 DEF NewRun
    <2>5. \A y \in DOMAIN runs' : Mine(y, runs[y])'
        BY <1>2, <2>3, <2>4 DEF Deliver, host, Undisturbed, Mine
    <2> QED
        BY <1>2, <2>3, <2>4, <2>5 DEF Deliver, host, Undisturbed, WrittenBy
<1>3. ASSUME NEW x \in DOMAIN runs, Step(x)
      PROVE  Undisturbed'
    <2>1. losses = 0
        <3>1. Sound(x)
            BY <1>3, StepSound DEF IInv
        <3> QED
            BY <3>1 DEF Sound, Pays
    <2>2. CASE x \in Restorers
        BY <1>3, <2>1, <2>2, RestorerUndisturbed
    <2>3. CASE x \notin Restorers
        <3>1. runs[x].at \in {"ack", "over"}
            BY <2>3 DEF Restorers, MayStore
        <3>2. Acknowledge(x)
            BY <1>3, <3>1 DEF Step, Parse, ParseRaises, CreateUser, CreateUserFails, StartExtract,
                EndExtract, FixOwnership, FixOwnershipFails, MailboxesDone, DatabasesDone,
                RestoreMailbox, StartImport, DatabaseFails, EndImport, Importing, WriteVhost,
                Reload, WritePool, ReloadFpm, EnableCagefs, StepFails, StoreResult, At
        <3>3. PICK r : r = [NewRun(runs[x].retries) EXCEPT !.at = "over", !.held = FALSE]
            OBVIOUS
        <3>4. Becomes(x, r) /\ r.at = "over"
            BY <1>0, <3>2, <3>3, OverBecomes DEF Acknowledge, NewRun
        <3>5. /\ DOMAIN runs' = DOMAIN runs /\ runs'[x] = r
              /\ \A y \in DOMAIN runs \ {x} : runs'[y] = runs[y]
            BY <1>0, <3>4, BecomesType
        <3>6. \A y \in DOMAIN runs' : Mine(y, runs[y])'
            BY <2>1, <3>2, <3>4, <3>5 DEF Acknowledge, host, Undisturbed, Mine
        <3> QED
            BY <2>1, <3>1, <3>2, <3>5, <3>6 DEF Acknowledge, host, Undisturbed, WrittenBy
    <2> QED
        BY <2>2, <2>3
<1>4. ASSUME NEW x \in DOMAIN runs, WorkerLost(x) \/ VisibilityTimeout(x)
      PROVE  FALSE
    BY <1>0, <1>4 DEF WorkerLost, VisibilityTimeout
<1>5. CASE UNCHANGED vars
    BY <1>5 DEF vars, host, Undisturbed, Mine, WrittenBy
<1> QED
    BY <1>1, <1>2, <1>3, <1>4, <1>5 DEF Next

LEMMA WithoutLosses == Spec => [](IInv /\ Undisturbed)
<1>1. Init => Undisturbed
    BY DEF Init, Undisturbed
<1> QED
    BY <1>1, InitInv, StepInv, StepUndisturbed, PTL DEF Spec

-----------------------------------------------------------------------------
(* Theorems.                                                               *)

\* What the invariant says of the number of runs and of queued messages.
LEMMA Limits ==
    ASSUME IInv
    PROVE  Len(runs) <= MaxRuns /\ queue \in [{0, 1} -> 0..MaxRuns]
<1>1. /\ Types /\ queue[0] \in Nat /\ queue[1] \in Nat /\ losses \in Nat /\ Uploads \in {0, 1}
      /\ Len(runs) \in Nat /\ losses <= MaxLosses /\ MaxLosses \in Nat
    BY CountTypes, LossAssumption DEF IInv, Types
<1>2. Cardinality(Retriers) \in Nat
    BY <1>1, RunsFinite DEF Retriers
<1>3. Len(runs) + 2 * queue[0] + queue[1] + Cardinality(Retriers) <= 2 * (Uploads + losses)
    BY DEF IInv, Counting, RunsBound
<1>4. Len(runs) <= MaxRuns /\ queue[0] <= MaxRuns /\ queue[1] <= MaxRuns /\ MaxRuns \in Nat
    <2>1. Uploads \in Nat /\ Uploads <= 1
        BY <1>1
    <2>2. /\ Len(runs) <= 2 + 2 * MaxLosses /\ queue[0] <= 2 + 2 * MaxLosses
          /\ queue[1] <= 2 + 2 * MaxLosses
        BY <1>1, <1>2, <1>3, <2>1, RunsLimit, Zenon
    <2> QED
        BY <1>1, <2>2 DEF MaxRuns
<1>5. \A n \in {0, 1} : queue[n] \in 0..MaxRuns
    BY <1>1, <1>4
<1> QED
    BY <1>1, <1>4, <1>5 DEF Types

\* Every value stays in its type; a task is retried at most once, and runs no
\* more often than its messages were lost or retried.
THEOREM SpecTypeOK == Spec => []TypeOK
<1>1. IInv => TypeOK
    BY Limits DEF IInv, Types, HostTypes, TypeOK, Run
<1> QED
    BY <1>1, Inductive, PTL

\* A result without any error tells the truth, and goes on telling it while
\* other executions of the same task repeat its steps, except for what another
\* run works on again or beside it; without losses there is no such run.
THEOREM SpecCleanIsComplete == Spec => []CleanIsComplete
<1>1. IInv /\ Undisturbed => CleanIsComplete
    BY DEF IInv, Restoring, ResultTruth, CleanIsComplete, Served, HasHome, HasLines, HasDumps,
        Undisturbed, WrittenBy
<1> QED
    BY <1>1, WithoutLosses, PTL

\* nginx and php-fpm are given nothing of a user who does not exist or whose
\* home has not become his; that it is not his any more takes a message that
\* was delivered again.
THEOREM SpecServedAfterOwner == Spec => []ServedAfterOwner
<1>1. IInv /\ Undisturbed => ServedAfterOwner
    BY DEF IInv, Restoring, OwnerFirst, Given, Undisturbed, ServedAfterOwner
<1> QED
    BY <1>1, WithoutLosses, PTL

\* A mailbox is added again only because a message was delivered again, never
\* by the task's own retry.
THEOREM SpecLinesPerDelivery == Spec => []LinesPerDelivery
<1>1. ASSUME IInv, NEW m \in Mailboxes
      PROVE  lines[m] <= 1 + losses
    <2>1. /\ Types /\ queue[0] \in Nat /\ queue[1] \in Nat /\ losses \in Nat
          /\ Uploads \in {0, 1} /\ lines[m] \in Nat
        BY <1>1, CountTypes DEF IInv
    <2>2. Cardinality(Adders(m)) \in Nat
        BY <2>1, RunsFinite DEF Adders
    <2>3. lines[m] + Cardinality(Adders(m)) + queue[0] + queue[1] <= Uploads + losses
        BY <1>1 DEF IInv, Counting, LinesBound
    <2> QED
        BY <2>1, <2>2, <2>3
<1>2. IInv => LinesPerDelivery
    BY <1>1 DEF LinesPerDelivery
<1> QED
    BY <1>2, Inductive, PTL

\* There is one message of the first attempt, ready or being worked on,
\* however often it comes back.
THEOREM SpecOneOriginal == Spec => []OneOriginal
<1>1. ASSUME IInv
      PROVE  OneOriginal
    <2>1. Holders = {x \in DOMAIN runs : Live(x) /\ runs[x].held /\ runs[x].retries = 0}
        BY DEF Holders, HoldsFirst, Live
    <2>2. Types /\ queue[0] \in Nat /\ Uploads \in {0, 1}
        BY <1>1, CountTypes DEF IInv
    <2>3. Cardinality(Holders) \in Nat
        BY <2>2, RunsFinite DEF Holders
    <2>4. queue[0] + Cardinality(Holders) <= Uploads
        BY <1>1 DEF IInv, Counting, OriginalBound
    <2> QED
        BY <2>1, <2>2, <2>3, <2>4 DEF OneOriginal
<1>2. IInv => OneOriginal
    BY <1>1
<1> QED
    BY <1>2, Inductive, PTL

=============================================================================
