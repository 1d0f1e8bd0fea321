----------------------------- MODULE AgentCalls -----------------------------
(***************************************************************************)
(* One call of AgentClient.call, the connection that carries it through    *)
(* handle_client, and the commands its handler runs with run_command,      *)
(* against the clocks of all three: READ_TIMEOUT of the client,            *)
(* REQUEST_TIMEOUT and HANDLER_TIMEOUT of the agent, and the timeout of    *)
(* each command with its SIGTERM, grace and SIGKILL.                       *)
(*                                                                         *)
(* Event loops take no time: a timer fires and a coroutine goes on at the  *)
(* instant it is due, in any order with what is due at the same instant.   *)
(* Commands, and a client that has connected, take any time they like.     *)
(*                                                                         *)
(* The handlers of the domain actions are in NginxAgent.  Connections      *)
(* share nothing but the rate limiter, so one at a time shows every clock. *)
(***************************************************************************)
EXTENDS Naturals, Sequences, Allowlist

CONSTANTS
    Calls,              \* the calls clients make
    CommandTimeout,     \* _REGISTRY: default_timeout of each binary
    KillGrace,          \* _kill_process: from SIGTERM to SIGKILL
    HANDLER_TIMEOUT, REQUEST_TIMEOUT, READ_TIMEOUT,
    MaxAge              \* bound: clocks are not counted beyond this

Binaries == DOMAIN CommandTimeout

\* The binaries the handlers run are registered.
ASSUME BinaryAssumption ==
    {"nginx", "systemctl", "useradd", "userdel", "chown", "cagefsctl", "nft",
     "certbot", "openssl"} \subseteq Binaries

ASSUME TimeoutAssumption ==
    /\ CommandTimeout \in [Binaries -> Nat \ {0}]
    /\ KillGrace \in Nat
    /\ MaxAge \in Nat
    /\ \A t \in {HANDLER_TIMEOUT, REQUEST_TIMEOUT, READ_TIMEOUT} :
          t \in Nat \ {0} /\ t < MaxAge
    /\ \A b \in Binaries : CommandTimeout[b] + KillGrace < MaxAge

VARIABLES
    up,         \* the agent listens on its socket
    call,       \* the call, NoCall when the client is idle
    cli,        \* where AgentClient.call is, or how it ended
    cliClock,   \* time since the client began to read
    srv,        \* where handle_client is
    srvClock,   \* time since srv began to read, or its handler began
    reply,      \* what handle_client wrote before closing
    step,       \* which of the handler's commands is next
    command,    \* the process run_command awaits, as a set of at most one
    orphans,    \* processes nobody awaits
    succeeded   \* history: the steps of this call whose command succeeded

agent == <<srv, srvClock, reply, step, command, orphans, succeeded>>
client == <<call, cli, cliClock>>
vars == <<up, client, agent>>

Running == srv = "running"

\* Mutants: the limit is taken for each command; not while one is killed.
HandlerDuePerCommand == Running /\ \E p \in command : p.age >= HANDLER_TIMEOUT
HandlerDueNotKilling ==
    Running /\ srvClock >= HANDLER_TIMEOUT /\ \A p \in command : p.kill = "no"

\* The timers that have run out.
HandlerDue == Running /\ srvClock = HANDLER_TIMEOUT
RequestDue == srv = "reading" /\ srvClock = REQUEST_TIMEOUT
ReadDue == cli = "waiting" /\ cliClock = READ_TIMEOUT
TermDue(p) == p.kill = "no" /\ p.age = CommandTimeout[p.bin]
KillDue(p) == p.kill = "term" /\ p.age = CommandTimeout[p.bin] + KillGrace

NoCall == Call("none", NoParams)
Ended == {"ok", "error", "down", "late", "reset"}
Process == [bin : Binaries, age : 0..MaxAge, kill : {"no", "term", "kill"}]

-----------------------------------------------------------------------------
(* The handlers.                                                           *)

CagefsActions == {"cagefs.enable", "cagefs.disable", "cagefs.remount",
                  "cagefs.update_skeleton"}
NftActions == {"firewall.add_rule", "firewall.delete_rule",
               "firewall.list_rules", "firewall.load_ruleset"}
CertbotActions == {"ssl.issue", "ssl.renew"}

\* These only touch files.
FileActions == {"nginx.write_vhost", "nginx.delete_vhost", "phpfpm.write_pool"}

\* The commands of a handler, in order.
Commands(action) ==
    CASE action = "nginx.reload" -> <<"nginx", "systemctl">>
      [] action = "user.create" -> <<"useradd">>
      [] action = "user.ensure_domain_user" -> <<"useradd", "cagefsctl">>
      [] action = "user.delete" -> <<"userdel">>
      [] action = "user.fix_ownership" -> <<"chown">>
      [] action \in CagefsActions -> <<"cagefsctl">>
      [] action \in NftActions -> <<"nft">>
      [] action \in CertbotActions -> <<"certbot">>
      [] action = "ssl.get_expiry" -> <<"openssl">>
      [] action = "phpfpm.reload" -> <<"systemctl">>
      [] OTHER -> <<>>

\* A failure of this step is logged and passed over, TimeoutError included.
Tolerated(action, k) ==
    \/ action = "user.ensure_domain_user" /\ k = 2
    \/ action = "ssl.get_expiry"

\* What a handler does itself where step k is due may raise: a file that
\* cannot be written; after its command no home directory, no certificate in
\* place, output that was truncated and is not JSON, no such user.
\* ensure_domain_user looks its user up before it calls cagefs.enable.
MayRaise(action, k) ==
    \/ action \in FileActions /\ k = 1
    \/ action \in {"user.create", "user.ensure_domain_user", "ssl.issue",
                   "firewall.list_rules"} /\ k = 2

-----------------------------------------------------------------------------
(* Steps of the agent.                                                     *)

\* handle_client's finally clause: write the response, close.
Close(r) == srv' = "closed" /\ reply' = r

Refuse(r) ==
    /\ Close(r)
    /\ UNCHANGED <<srvClock, step, command, orphans, succeeded>>

\* Mutant: an exception of the handler is answered like its return.
FailAnsweredOk(k, message) ==
    /\ Close("ok")
    /\ step' = k
    /\ command' = {}

\* The step k of the handler failed: the handler passes over it or raises.
Fail(k, message) ==
    /\ Close(IF Tolerated(call.action, k) THEN "ok" ELSE message)
    /\ step' = k
    /\ command' = {}

\* Mutant: the process that has ended stays awaited beside the next one.
SpawnBeside(b) == command' = command \cup {[bin |-> b, age |-> 0, kill |-> "no"]}

Spawn(b) == command' = {[bin |-> b, age |-> 0, kill |-> "no"]}

\* The handler goes on at step k: run_command resolves the next binary under a
\* trusted prefix and starts it, or finds none there, or the handler returns or
\* raises.
GoOn(k) ==
    LET cmds == Commands(call.action) IN
    \/ /\ k <= Len(cmds)
       /\ Spawn(cmds[k])
       /\ step' = k
       /\ srv' = "running"
       /\ UNCHANGED reply
    \/ k <= Len(cmds) /\ Fail(k, "internal error")
    \/ /\ \/ k > Len(cmds) /\ Close("ok")
          \/ MayRaise(call.action, k) /\ Close("internal error")
       /\ step' = k
       /\ command' = {}

\* handle_client's own checks, in one step from the data read to the first
\* command of the handler.
Receive ==
    /\ up /\ srv = "reading" /\ cli = "waiting"
    /\ \/ ~IsAllowed(call.action, call.params) /\ Refuse("not permitted")
       \/ /\ IsAllowed(call.action, call.params)
          /\ ~(Needed(call.action) \subseteq DOMAIN call.params)
          /\ Refuse("missing key")
       \/ /\ IsAllowed(call.action, call.params)
          /\ Needed(call.action) \subseteq DOMAIN call.params
          /\ \/ GoOn(1)
             \/ call.action = "ssl.get_expiry" /\ GoOn(2)    \* no certificate
          /\ srvClock' = 0
          /\ UNCHANGED <<orphans, succeeded>>
    /\ UNCHANGED <<up, client>>

ReadTimeout ==
    /\ RequestDue
    /\ Refuse("request timed out")
    /\ UNCHANGED <<up, client>>

\* The awaited process ends, with an accepted return code or another.
CommandExits(p, ok) ==
    /\ p \in command /\ p.kill = "no"
    /\ IF ok THEN GoOn(step + 1) /\ succeeded' = succeeded \cup {step}
             ELSE Fail(step, "internal error") /\ UNCHANGED succeeded
    /\ UNCHANGED <<up, client, srvClock, orphans>>

\* Mutant: run_command raises as soon as it has sent SIGTERM.
CommandTimesOutUnawaited(p) ==
    /\ p \in command /\ TermDue(p)
    /\ Fail(step, "timed out")
    /\ orphans' = orphans \cup {[p EXCEPT !.kill = "term"]}
    /\ UNCHANGED <<up, client, srvClock, succeeded>>

\* wait_for around communicate: SIGTERM.
CommandTimesOut(p) ==
    /\ p \in command /\ TermDue(p)
    /\ command' = {[p EXCEPT !.kill = "term"]}
    /\ UNCHANGED <<up, client, srv, srvClock, reply, step, orphans, succeeded>>

Sigkill(p) ==
    /\ p \in command /\ KillDue(p)
    /\ command' = {[p EXCEPT !.kill = "kill"]}
    /\ UNCHANGED <<up, client, srv, srvClock, reply, step, orphans, succeeded>>

\* The signalled process is gone and run_command raises TimeoutError.  The
\* certificate handlers turn it into RuntimeError.
KilledExits(p) ==
    /\ p \in command /\ p.kill # "no"
    /\ Fail(step, IF call.action = "ssl.issue" THEN "internal error" ELSE "timed out")
    /\ UNCHANGED <<up, client, srvClock, orphans, succeeded>>

\* wait_for around the handler: it is cancelled where it waits, and the
\* process it waits for is neither signalled nor awaited any more.
HandlerTimeout ==
    /\ HandlerDue
    /\ Close("timed out")
    /\ orphans' = orphans \cup command
    /\ command' = {}
    /\ UNCHANGED <<up, client, srvClock, step, succeeded>>

OrphanExits(p) ==
    /\ p \in orphans
    /\ orphans' = orphans \ {p}
    /\ UNCHANGED <<up, client, srv, srvClock, reply, step, command, succeeded>>

\* The agent dies; systemd kills what is left of its control group and starts
\* it again (Restart=always).
AgentDies ==
    /\ up
    /\ up' = FALSE
    /\ srv' = IF srv = "idle" THEN srv ELSE "closed"
    /\ reply' = IF srv \in {"reading", "running"} THEN "nothing" ELSE reply
    /\ command' = {} /\ orphans' = {}
    /\ UNCHANGED <<client, srvClock, step, succeeded>>

AgentStarts ==
    /\ ~up
    /\ up' = TRUE
    /\ UNCHANGED <<client, agent>>

-----------------------------------------------------------------------------
(* Steps of the client.                                                    *)

\* The connection is accepted, or the rate limiter turns it away before a
\* byte is read.
Connect(c) ==
    /\ cli = "idle" /\ up
    /\ call' = c
    /\ cli' = "connected"
    /\ \/ srv' = "reading" /\ UNCHANGED reply
       \/ Close("limited")
    /\ UNCHANGED <<up, cliClock, srvClock, step, command, orphans, succeeded>>

\* No socket file, or nobody listens.
ConnectFails(c) ==
    /\ cli = "idle" /\ ~up
    /\ call' = c
    /\ cli' = "down"
    /\ UNCHANGED <<up, cliClock, agent>>

\* Writing to a connection the agent has closed either raises, or leaves the
\* client to read what the agent wrote.
Send ==
    /\ cli = "connected"
    /\ IF srv = "closed" THEN cli' \in {"error", "reset"} ELSE cli' = "waiting"
    /\ UNCHANGED <<up, call, cliClock, agent>>

\* One read of the response: what does not parse is an error, and so is the
\* first part of a long list of rules.
Read ==
    /\ cli = "waiting" /\ srv = "closed"
    /\ \/ reply = "ok" /\ cli' = "ok"
       \/ reply = "ok" /\ call.action = "firewall.list_rules" /\ cli' = "error"
       \/ reply # "ok" /\ cli' = "error"
       \/ reply = "nothing" /\ cli' = "reset"
    /\ UNCHANGED <<up, call, cliClock, agent>>

GiveUp ==
    /\ ReadDue
    /\ cli' = "late"
    /\ UNCHANGED <<up, call, cliClock, agent>>

Fresh ==
    /\ call' = NoCall /\ cli' = "idle" /\ cliClock' = 0
    /\ srv' = "idle" /\ srvClock' = 0 /\ reply' = "nothing"
    /\ step' = 0 /\ succeeded' = {}

\* The next call, when nothing is left of the one before.
NextCall ==
    /\ cli \in Ended /\ srv \in {"idle", "closed"} /\ orphans = {}
    /\ Fresh
    /\ UNCHANGED <<up, command, orphans>>

-----------------------------------------------------------------------------
Later(t) == IF t < MaxAge THEN t + 1 ELSE t
Older(p) == [p EXCEPT !.age = Later(@)]

Due ==
    \/ HandlerDue \/ RequestDue \/ ReadDue
    \/ \E p \in command : TermDue(p) \/ KillDue(p)
    \/ cli = "waiting" /\ srv \in {"reading", "closed"}

Tick ==
    /\ ~Due
    /\ cliClock' = IF cli = "waiting" THEN Later(cliClock) ELSE cliClock
    /\ srvClock' = IF srv \in {"reading", "running"} THEN Later(srvClock) ELSE srvClock
    /\ command' = {Older(p) : p \in command}
    /\ orphans' = {Older(p) : p \in orphans}
    /\ UNCHANGED <<up, call, cli, srv, reply, step, succeeded>>

Init ==
    /\ up = TRUE
    /\ call = NoCall /\ cli = "idle" /\ cliClock = 0
    /\ srv = "idle" /\ srvClock = 0 /\ reply = "nothing"
    /\ step = 0 /\ command = {} /\ orphans = {} /\ succeeded = {}

\* What the two event loops owe: coroutines that are ready, timers that are due.
Loops ==
    \/ Send \/ Read \/ GiveUp \/ Receive \/ ReadTimeout \/ HandlerTimeout
    \/ \E p \in command : CommandTimesOut(p) \/ Sigkill(p)

Next ==
    \/ Loops \/ Tick \/ NextCall \/ AgentDies \/ AgentStarts
    \/ \E c \in Calls : Connect(c) \/ ConnectFails(c)
    \/ \E p \in command : KilledExits(p) \/ \E ok \in BOOLEAN : CommandExits(p, ok)
    \/ \E p \in orphans : OrphanExits(p)

\* Time passes and event loops run; no process has to end, not even a killed
\* one (a process that waits for a device cannot be killed).
Spec == Init /\ [][Next]_vars /\ WF_vars(Loops) /\ WF_vars(Tick)

-----------------------------------------------------------------------------
AtMostOne(S) == \A p, q \in S : p = q

\* Types; run_command awaits at most one process, and at most one is left
\* behind.
TypeOK ==
    /\ up \in BOOLEAN
    /\ call \in Calls \cup {NoCall}
    /\ cli \in Ended \cup {"idle", "connected", "waiting"}
    /\ cliClock \in 0..READ_TIMEOUT
    /\ srv \in {"idle", "reading", "running", "closed"}
    /\ srvClock \in 0..MaxAge
    /\ reply \in {"nothing", "ok", "limited", "request timed out", "not permitted",
                  "missing key", "internal error", "timed out"}
    /\ step \in 0..3
    /\ command \subseteq Process /\ AtMostOne(command)
    /\ orphans \subseteq Process /\ AtMostOne(orphans)
    /\ succeeded \subseteq 1..2

\* A call that returns a result has done all its handler does: every command
\* ended well or may fail, and none of them is still running anywhere.
OkMeansDone ==
    cli = "ok" =>
        /\ command = {} /\ orphans = {}
        /\ \A k \in 1..Len(Commands(call.action)) :
              k \in succeeded \/ Tolerated(call.action, k)

\* A process nobody waits for was left behind by a handler that had its full
\* HANDLER_TIMEOUT, never by run_command's own timeout and its signals, and
\* its caller has not been told that it succeeded.
UnattendedAfterTimeout ==
    orphans # {} => srv = "closed" /\ srvClock = HANDLER_TIMEOUT /\ cli # "ok"

\* When the client gives up (READ_TIMEOUT), the agent's handler is at its own
\* limit: what the panel reports as timed out starts no further command.
LateMeansOver ==
    cli = "late" => srv # "running" \/ srvClock = HANDLER_TIMEOUT

\* enable_ssl's request gets past the agent's checks ("so certbot can verify
\* without nginx changes", its comment on the webroot it passes).
EnableSslAccepted ==
    call \in EnableSslCalls => reply \notin {"not permitted", "missing key"}

\* What run_command's documentation promises of every process it starts: it
\* is past its limit and the grace only if it has been killed and hangs.
TimeoutEnforced ==
    \A p \in command \cup orphans :
        p.age <= CommandTimeout[p.bin] + KillGrace \/ p.kill = "kill"

\* The agent closes every connection it has accepted, whether the client
\* sends nothing or a command of the handler hangs and cannot be killed.
ConnectionsClose == srv \in {"reading", "running"} ~> srv \in {"closed", "idle"}

=============================================================================
