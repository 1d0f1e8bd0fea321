------------------------------ MODULE HostFiles ------------------------------
(***************************************************************************)
(* The panel's writes to files of other programs: mailboxes                *)
(* (mail_manager.py), crontabs (cron.py) and DNS zones (dns_manager.py).   *)
(* Nothing locks these files.  The handlers never await between two of     *)
(* their steps, so one gunicorn worker serves one of them at a time and    *)
(* the four workers interleave step by step.                               *)
(*                                                                         *)
(* A handler is a program: a sequence of steps, each a call into the       *)
(* operating system.  A file is the set of entries its lines are about.    *)
(* The three groups of files have nothing in common, so that a behaviour   *)
(* is about one of them, its store.                                        *)
(***************************************************************************)
EXTENDS Naturals, Sequences, FiniteSets

CONSTANTS
    Workers,        \* gunicorn's worker processes
    Mailboxes,      \* addresses
    StartsWith,     \* pairs <<x, y>> of addresses: the text of x starts with y
    Jobs,           \* lines of one user's crontab
    Records,        \* records of one zone, SOA aside
    SOA,            \* the zone's SOA record
    Refused,        \* sets of records named does not load together: one that is
                    \* malformed, two that conflict
    MaxRequests     \* bound: requests in a run

ASSUME RequestAssumption == MaxRequests \in Nat
ASSUME StartsWithAssumption == \A m \in Mailboxes : <<m, m>> \in StartsWith
ASSUME SOAAssumption == SOA \notin Records

VARIABLES
    store,          \* which group of files this behaviour is about
    files,          \* contents of the store's files
    index,          \* what the program behind it serves: postmap's table, named's zone
    queued,         \* named has been asked to load the zone and has not done it yet
    worker,         \* per worker the request it serves, its next step, the lines it read
    requests,       \* how many requests have begun
    acked,          \* history: entries whose creation was answered with success
    gone,           \* history: mailboxes whose deletion was answered with success
    exposed         \* history: entries that overlapping requests or a crash may cost

vars == <<store, files, index, queued, worker, requests, acked, gone, exposed>>
history == <<acked, gone, exposed>>

Entries == [mail |-> Mailboxes, cron |-> Jobs, zone |-> Records]
Files == [mail |-> {"passwd", "vmailbox"}, cron |-> {"crontab"}, zone |-> {"zonefile"}]
Operations ==
    [mail |-> {"create_mailbox", "delete_mailbox"}, cron |-> {"add_cron_job"},
     zone |-> {"add_record"}]

\* The steps of each handler; "open" truncates the file, and what was written
\* through it reaches the file when it is closed, at "write".

\* Mutant: the table is rebuilt before the address is in its source.
CreateMailboxTableFirst ==
    <<<<"run", "doveadm">>, <<"append", "passwd">>, <<"run", "postmap">>,
      <<"append", "vmailbox">>>>

CreateMailbox ==
    <<<<"run", "doveadm">>, <<"append", "passwd">>, <<"append", "vmailbox">>,
      <<"run", "postmap">>>>

\* Mutant: one of the two files is left out.
DeleteMailboxPasswdOnly ==
    <<<<"read", "passwd">>, <<"open", "passwd">>, <<"write", "passwd">>,
      <<"run", "postmap">>>>

DeleteMailbox ==
    <<<<"read", "passwd">>, <<"open", "passwd">>, <<"write", "passwd">>,
      <<"read", "vmailbox">>, <<"open", "vmailbox">>, <<"write", "vmailbox">>,
      <<"run", "postmap">>>>

AddCronJob == <<<<"list", "crontab">>, <<"install", "crontab">>>>

AddRecord ==
    <<<<"append", "zonefile">>, <<"read", "zonefile">>, <<"open", "zonefile">>,
      <<"write", "zonefile">>, <<"run", "rndc">>>>

Program(op) ==
    CASE op = "create_mailbox" -> CreateMailbox
      [] op = "delete_mailbox" -> DeleteMailbox
      [] op = "add_cron_job" -> AddCronJob
      [] op = "add_record" -> AddRecord

\* Mutant: the lines the address starts with are taken out.
RewrittenReversed(op, e, lines) ==
    CASE op = "delete_mailbox" -> {l \in lines : <<e, l>> \notin StartsWith}
      [] op = "add_cron_job" -> lines \cup {e}
      [] op = "add_record" -> lines

\* What delete_mailbox keeps (every line that starts with the address goes),
\* and what add_cron_job and add_record write back.
Rewritten(op, e, lines) ==
    CASE op = "delete_mailbox" -> {l \in lines : <<l, e>> \notin StartsWith}
      [] op = "add_cron_job" -> lines \cup {e}
      [] op = "add_record" -> lines

-----------------------------------------------------------------------------
Idle == [op |-> "none", entry |-> SOA, pc |-> 0, lines |-> {}, hung |-> FALSE]

Busy == {w \in Workers : worker[w].op # "none"}
Serving(op) == {worker[w].entry : w \in {v \in Busy : worker[v].op = op}}
Deleting == Serving("delete_mailbox") # {}

\* The step worker w is at.
At(w, kind, f) ==
    /\ w \in Busy /\ ~worker[w].hung
    /\ Program(worker[w].op)[worker[w].pc] = <<kind, f>>

\* w has truncated f and not written it yet.
Holds(w, f) ==
    /\ w \in Busy
    /\ LET k == worker[w].pc IN k > 1 /\ Program(worker[w].op)[k - 1] = <<"open", f>>

Truncated(f) == \E w \in Workers : Holds(w, f)

\* Entries a request puts at risk when it begins while others are served:
\* deletions write back what they read; so do additions to a crontab or zone.
Risked(op, e) ==
    CASE op = "create_mailbox" -> IF Deleting THEN {e} ELSE {}
      [] op = "delete_mailbox" ->
            IF Deleting THEN Mailboxes ELSE Serving("create_mailbox")
      [] op = "add_cron_job" -> IF Busy = {} THEN {} ELSE {e} \cup Serving("add_cron_job")
      [] op = "add_record" -> IF Busy = {} THEN {} ELSE Records

\* A request reaches a worker.
Begin(w, op, e) ==
    /\ w \notin Busy
    /\ requests < MaxRequests
    /\ requests' = requests + 1
    /\ worker' = [worker EXCEPT ![w] = [Idle EXCEPT !.op = op, !.entry = e, !.pc = 1]]
    /\ exposed' = (IF Busy = {} THEN exposed \ {e} ELSE exposed) \cup Risked(op, e)
    /\ acked' = IF op = "delete_mailbox" THEN {a \in acked : <<a, e>> \notin StartsWith}
                                         ELSE acked \ (exposed \cap {e})
    /\ gone' = gone \ {e}
    /\ UNCHANGED <<store, files, index, queued>>

\* Worker w goes on; after the last step the request is answered with success.
Advance(w) ==
    LET r == worker[w] IN
    IF r.pc < Len(Program(r.op))
    THEN worker' = [worker EXCEPT ![w].pc = @ + 1] /\ UNCHANGED history
    ELSE /\ worker' = [worker EXCEPT ![w] = Idle]
         /\ IF r.op = "delete_mailbox"
            THEN gone' = gone \cup {r.entry} /\ UNCHANGED acked
            ELSE acked' = acked \cup {r.entry} /\ UNCHANGED gone
         /\ UNCHANGED exposed

AppendLine(w, f) ==
    /\ At(w, "append", f)
    /\ files' = [files EXCEPT ![f] = @ \cup {worker[w].entry}]
    /\ Advance(w)
    /\ UNCHANGED <<store, index, queued, requests>>

ReadLines(w, f) ==
    /\ At(w, "read", f)
    /\ worker' = [worker EXCEPT ![w].lines = files[f], ![w].pc = @ + 1]
    /\ UNCHANGED <<store, files, index, queued, requests, history>>

Truncate(w, f) ==
    /\ At(w, "open", f)
    /\ files' = [files EXCEPT ![f] = {}]
    /\ Advance(w)
    /\ UNCHANGED <<store, index, queued, requests>>

\* The text is written from the start of the file over what others have put
\* there since it was truncated; which of their lines stick out at its end
\* depends on lengths.  No text covers nothing.
Write(w, f) ==
    /\ At(w, "write", f)
    /\ LET text == Rewritten(worker[w].op, worker[w].entry, worker[w].lines) IN
        \E rest \in SUBSET files[f] :
            /\ text = {} => rest = files[f]
            /\ files' = [files EXCEPT ![f] = text \cup rest]
    /\ Advance(w)
    /\ UNCHANGED <<store, index, queued, requests>>

\* Mutant: what crontab -l says when it fails is taken for the crontab.
ListCrontabMessage(w, ok) ==
    /\ At(w, "list", "crontab")
    /\ worker' = [worker EXCEPT ![w].lines = IF ok THEN files["crontab"] ELSE {"no crontab"},
                                ![w].pc = @ + 1]
    /\ exposed' = IF ok THEN exposed ELSE exposed \cup Jobs
    /\ UNCHANGED <<store, files, index, queued, requests, acked, gone>>

\* crontab -l: a user without a crontab and a command that failed look alike.
ListCrontab(w, ok) ==
    /\ At(w, "list", "crontab")
    /\ worker' = [worker EXCEPT ![w].lines = IF ok THEN files["crontab"] ELSE {},
                                ![w].pc = @ + 1]
    /\ exposed' = IF ok THEN exposed ELSE exposed \cup Jobs
    /\ UNCHANGED <<store, files, index, queued, requests, acked, gone>>

\* crontab - replaces the crontab at once.
InstallCrontab(w) ==
    /\ At(w, "install", "crontab")
    /\ files' = [files EXCEPT !["crontab"] =
                    Rewritten(worker[w].op, worker[w].entry, worker[w].lines)]
    /\ Advance(w)
    /\ UNCHANGED <<store, index, queued, requests>>

\* postmap takes its lock, reads the file and replaces the table; rndc only
\* asks named to load the zone; doveadm only computes a hash.
Run(w, tool) ==
    /\ At(w, "run", tool)
    /\ index' = IF tool = "postmap" THEN files["vmailbox"] ELSE index
    /\ queued' = (queued \/ tool = "rndc")
    /\ Advance(w)
    /\ UNCHANGED <<store, files, requests>>

\* named takes a zone as a whole or not at all; add_record writes name and
\* value as they come.
Loadable(zone) == SOA \in zone /\ \A rs \in Refused : ~(rs \subseteq zone)

LoadZone ==
    /\ queued
    /\ queued' = FALSE
    /\ index' = IF Loadable(files["zonefile"]) THEN files["zonefile"] ELSE index
    /\ UNCHANGED <<store, files, worker, requests, history>>

\* A request that would have the programs read a file again which they may
\* have met truncated.
Repairs(w) ==
    \/ worker[w].op = "delete_mailbox"
    \/ worker[w].op = "add_record" /\ worker[w].pc = Len(AddRecord)

\* What a request that ends early may cost: a file it has truncated, or what
\* others read meanwhile and it would repair.
Abandoned(w) ==
    IF (\E f \in Files[store] : Holds(w, f)) \/ Repairs(w)
    THEN exposed \cup Entries[store] ELSE exposed

End(w) ==
    /\ worker' = [worker EXCEPT ![w] = Idle]
    /\ exposed' = Abandoned(w)
    /\ UNCHANGED <<store, files, index, queued, requests, acked, gone>>

\* check=True, or a return code that is looked at: the request is answered
\* with an error and nothing is undone.
ToolFails(w) ==
    /\ \/ \E tool \in {"postmap", "rndc", "doveadm"} : At(w, "run", tool)
       \/ At(w, "install", "crontab")
    /\ End(w)

\* subprocess.run has no timeout.
ToolHangs(w) ==
    /\ \/ \E tool \in {"postmap", "rndc", "doveadm"} : At(w, "run", tool)
       \/ At(w, "list", "crontab") \/ At(w, "install", "crontab")
    /\ worker' = [worker EXCEPT ![w].hung = TRUE]
    /\ UNCHANGED <<store, files, index, queued, requests, history>>

\* Mutant: the tool runs in a thread, the worker's event loop stays alive.
KillHungNever(w) == w \in {} /\ End(w)

\* A worker whose event loop is blocked misses its heartbeats: gunicorn's
\* master kills it after --timeout and starts another one.
KillHung(w) == w \in Busy /\ worker[w].hung /\ End(w)

\* A worker dies (a reload, no memory) between two steps.
WorkerDies(w) == w \in Busy /\ End(w)

Init ==
    /\ store \in DOMAIN Entries
    /\ files = [f \in Files[store] |-> IF store = "zone" THEN {SOA} ELSE {}]
    /\ index = IF store = "zone" THEN {SOA} ELSE {}
    /\ queued = FALSE
    /\ worker = [w \in Workers |-> Idle]
    /\ requests = 0
    /\ acked = {} /\ gone = {} /\ exposed = {}

Step(w) ==
    \/ \E f \in Files[store] :
          AppendLine(w, f) \/ ReadLines(w, f) \/ Truncate(w, f) \/ Write(w, f)
    \/ \E ok \in BOOLEAN : ListCrontab(w, ok)
    \/ \E tool \in {"postmap", "rndc", "doveadm"} : Run(w, tool)
    \/ InstallCrontab(w) \/ ToolFails(w) \/ KillHung(w)

Next ==
    \/ \E w \in Workers :
          \/ Step(w) \/ ToolHangs(w) \/ WorkerDies(w)
          \/ \E op \in Operations[store], e \in Entries[store] : Begin(w, op, e)
    \/ LoadZone

\* The operating system runs the workers; gunicorn kills a blocked one.
Spec == Init /\ [][Next]_vars /\ \A w \in Workers : WF_vars(Step(w))

-----------------------------------------------------------------------------
\* Types: the files hold entries only, never what a tool printed instead.
TypeOK ==
    /\ store \in DOMAIN Entries
    /\ files \in [Files[store] -> SUBSET (Entries[store] \cup {SOA})]
    /\ index \subseteq Entries[store] \cup {SOA}
    /\ queued \in BOOLEAN /\ (queued => store = "zone")
    /\ worker \in [Workers -> [op : Operations[store] \cup {"none"},
                               entry : Entries[store] \cup {SOA}, pc : 0..7,
                               lines : SUBSET (Entries[store] \cup {SOA}), hung : BOOLEAN]]
    /\ requests \in 0..MaxRequests
    /\ acked \subseteq Entries[store] /\ gone \subseteq Entries[store]
    /\ exposed \subseteq Entries[store]

\* What a client was told it has stays in every file, except for the moment
\* another request has a file truncated, and except for what the code lets it
\* be lost to: the deletion of an address it starts with, a request that
\* rewrites the file while it, or another such request, is served, a worker
\* that dies in the middle, a failing crontab -l.
AcknowledgedKept ==
    \A e \in acked \ exposed : \A f \in Files[store] : e \in files[f] \/ Truncated(f)

\* The programs behind the files serve it too.  A mailbox is in postmap's table
\* once no deletion is under way (a creation's postmap may meet the file
\* truncated, the deletion's own postmap repairs that).  A record only gets as
\* far as named lets it: while nobody edits the zone and no load is due, it is
\* served, or the zone as it is on disk is one that named refuses.
AcknowledgedServed ==
    \A e \in acked \ exposed :
        CASE store = "cron" -> TRUE
          [] store = "mail" -> Deleting \/ e \in index
          [] store = "zone" -> \/ e \in index \/ queued \/ Serving("add_record") # {}
                              \/ ~Loadable(files["zonefile"])

\* A mailbox whose deletion was answered is in no file and not in the table,
\* unless deletions overlapped, or a creation of it overlapped.
DeletedGone ==
    \A e \in gone \ exposed : e \notin index /\ \A f \in Files[store] : e \notin files[f]

\* A request ends although the tool it runs hangs: a blocked worker is killed.
WorkersReturn == \A w \in Workers : w \in Busy ~> w \notin Busy

=============================================================================
