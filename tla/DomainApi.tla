------------------------------ MODULE DomainApi ------------------------------
(***************************************************************************)
(* The panel's domain endpoints (backend/app/api/v1/domains.py) with the   *)
(* domains table, composed with the privileged agent.                      *)
(*                                                                         *)
(* gunicorn runs several workers, so the endpoints of different requests   *)
(* interleave at every await: each database read, the agent call and the   *)
(* commit are steps of their own.  Nothing locks a row between the read    *)
(* that checks it and the commit that changes it.                          *)
(***************************************************************************)
EXTENDS NginxAgent, Sequences

CONSTANTS
    Candidates, \* the names generate_unique_username tries for a domain, in order
    Overlap     \* which requests may be in flight together

Overlaps == {"none",        \* one request at a time
             "distinct",    \* at most one per domain
             "any"}

ASSUME CandidatesAssumption == Candidates \in [Domains -> Seq(Users)]
ASSUME OverlapAssumption == Overlap \in Overlaps

VARIABLES
    rowStatus,  \* the domains table: "absent" or the status column
    rowUser,    \* the linux_username column
    rowSsl,     \* the ssl_enabled column
    api,        \* the await the endpoint is at
    seen,       \* rebuild: ssl_enabled of the row as it was read
    held        \* the requests whose row, found by its id, is still there

dbVars == <<rowStatus, rowUser, rowSsl>>
apiVars == <<api, seen, held>>
vars == <<agentVars, dbVars, apiVars>>

-----------------------------------------------------------------------------
InUse(i) == api[i] # "idle" \/ pc[i] # "idle" \/ chan[i] # "closed"

\* A request about d (NoDomain: about the service) may start.
MayStart(i, d) ==
    /\ ~InUse(i)
    /\ Overlap = "none" => \A j \in Conns : ~InUse(j)
    /\ Overlap = "distinct" => \A j \in Conns : InUse(j) => dom[j] # d

Rows == {d \in Domains : rowStatus[d] # "absent"}

\* _existing_linux_usernames
TakenUsers == {rowUser[d] : d \in Rows} \ {NoUser}

\* generate_unique_username: the first candidate the table does not hold.
FreeCandidates(d) == {k \in DOMAIN Candidates[d] : Candidates[d][k] \notin TakenUsers}

FirstFree(d) ==
    Candidates[d][CHOOSE k \in FreeCandidates(d) : \A j \in FreeCandidates(d) : k <= j]

-----------------------------------------------------------------------------
(* create_domain *)

\* Step 2, the duplicate-domain check.
BeginCreate(i, d) ==
    /\ "create" \in Ops
    /\ MayStart(i, d)
    /\ rowStatus[d] = "absent"
    /\ api' = [api EXCEPT ![i] = "derive"]
    /\ op' = [op EXCEPT ![i] = "create"]
    /\ dom' = [dom EXCEPT ![i] = d]
    /\ UNCHANGED <<diskVars, live, usr, hVars, orphans, dbVars, seen, held>>

\* Steps 3 and 4; without a free name the request ends with 422.
DeriveUsername(i) ==
    /\ api[i] = "derive"
    /\ IF FreeCandidates(dom[i]) # {}
       THEN /\ usr' = [usr EXCEPT ![i] = FirstFree(dom[i])]
            /\ api' = [api EXCEPT ![i] = "recheck"]
            /\ UNCHANGED <<op, dom>>
       ELSE /\ api' = [api EXCEPT ![i] = "idle"]
            /\ op' = [op EXCEPT ![i] = "none"]
            /\ dom' = [dom EXCEPT ![i] = NoDomain]
            /\ UNCHANGED usr
    /\ UNCHANGED <<diskVars, live, hVars, orphans, dbVars, seen, held>>

\* Step 5 found the name taken meanwhile: 409.
RecheckConflict(i) ==
    /\ api[i] = "recheck"
    /\ usr[i] \in TakenUsers
    /\ api' = [api EXCEPT ![i] = "idle"]
    /\ op' = [op EXCEPT ![i] = "none"]
    /\ dom' = [dom EXCEPT ![i] = NoDomain]
    /\ usr' = [usr EXCEPT ![i] = NoUser]
    /\ UNCHANGED <<diskVars, live, hVars, orphans, dbVars, seen, held>>

\* Mutant: linux_username is not passed on to the agent.
CallCreateNoName(i) ==
    /\ api[i] = "recheck"
    /\ usr[i] \notin TakenUsers
    /\ Submit(i, "create", dom[i], NoUser)
    /\ api' = [api EXCEPT ![i] = "wait"]
    /\ UNCHANGED <<dbVars, seen, held>>

\* Step 6.
CallCreate(i) ==
    /\ api[i] = "recheck"
    /\ usr[i] \notin TakenUsers
    /\ Submit(i, "create", dom[i], usr[i])
    /\ api' = [api EXCEPT ![i] = "wait"]
    /\ UNCHANGED <<dbVars, seen, held>>

-----------------------------------------------------------------------------
(* The endpoints of an existing row: read it, check it, call the agent.     *)

BeginOn(i, o, d) ==
    /\ o \in Ops
    /\ MayStart(i, d)
    /\ rowStatus[d] # "absent"
    /\ rowUser[d] # NoUser
    /\ Submit(i, o, d, rowUser[d])
    /\ api' = [api EXCEPT ![i] = "wait"]
    /\ held' = held \cup {i}
    /\ UNCHANGED dbVars

BeginDelete(i, d) == BeginOn(i, "delete", d) /\ UNCHANGED seen

BeginSuspend(i, d) ==
    /\ rowStatus[d] # "suspended"
    /\ BeginOn(i, "suspend", d)
    /\ UNCHANGED seen

BeginUnsuspend(i, d) ==
    /\ rowStatus[d] = "suspended"
    /\ BeginOn(i, "unsuspend", d)
    /\ UNCHANGED seen

BeginRebuild(i, d) ==
    /\ BeginOn(i, "rebuild", d)
    /\ seen' = [seen EXCEPT ![i] = rowSsl[d]]

\* A record without linux_username: the row goes, the agent is not asked.
LegacyDelete(i, d) ==
    /\ "delete" \in Ops
    /\ MayStart(i, d)
    /\ rowStatus[d] # "absent"
    /\ rowUser[d] = NoUser
    /\ rowStatus' = [rowStatus EXCEPT ![d] = "absent"]
    /\ rowSsl' = [rowSsl EXCEPT ![d] = FALSE]
    /\ UNCHANGED <<agentVars, rowUser, apiVars>>

\* NginxManager, outside the domain endpoints.
BeginVhost(i, o) ==
    /\ o \in {"reload", "vhost", "unvhost"} \cap Ops
    /\ MayStart(i, NoDomain)
    /\ Submit(i, o, NoDomain, NoUser)
    /\ api' = [api EXCEPT ![i] = "wait"]
    /\ UNCHANGED <<dbVars, seen, held>>

-----------------------------------------------------------------------------
(* The agent answered ok: the endpoint commits.                             *)

Finish(i, r) ==
    /\ api[i] = "wait"
    /\ Receive(i, r)
    /\ api' = [api EXCEPT ![i] = "idle"]
    /\ seen' = [seen EXCEPT ![i] = FALSE]

\* Mutant: linux_username without its unique constraint.
InsertableSharedName(i) == rowStatus[dom[i]] = "absent"

\* domain and linux_username are unique columns.
Insertable(i) == rowStatus[dom[i]] = "absent" /\ usr[i] \notin TakenUsers

CommitCreate(i) ==
    /\ op[i] = "create"
    /\ Insertable(i)
    /\ Finish(i, "ok")
    /\ rowStatus' = [rowStatus EXCEPT ![dom[i]] = "active"]
    /\ rowUser' = [rowUser EXCEPT ![dom[i]] = usr[i]]
    /\ rowSsl' = [rowSsl EXCEPT ![dom[i]] = ssl[i]]
    /\ UNCHANGED held

\* Deleting a row that is gone already only draws a warning.
CommitDelete(i) ==
    /\ op[i] = "delete"
    /\ Finish(i, "ok")
    /\ IF i \in held
       THEN /\ rowStatus' = [rowStatus EXCEPT ![dom[i]] = "absent"]
            /\ rowUser' = [rowUser EXCEPT ![dom[i]] = NoUser]
            /\ rowSsl' = [rowSsl EXCEPT ![dom[i]] = FALSE]
            /\ held' = {j \in held : dom[j] # dom[i]}
       ELSE UNCHANGED <<dbVars, held>>

CommitStatus(i) ==
    /\ op[i] \in {"suspend", "unsuspend"}
    /\ i \in held
    /\ Finish(i, "ok")
    /\ rowStatus' = [rowStatus EXCEPT
                        ![dom[i]] = IF op[i] = "suspend" THEN "suspended" ELSE "active"]
    /\ held' = held \ {i}
    /\ UNCHANGED <<rowUser, rowSsl>>

\* Mutant: the agent's ssl_active is not recorded.
CommitRebuildNoSsl(i) ==
    /\ op[i] = "rebuild"
    /\ Finish(i, "ok")
    /\ held' = held \ {i}
    /\ UNCHANGED dbVars

\* ssl_enabled is written only if it differs from what was read.
CommitRebuild(i) ==
    /\ op[i] = "rebuild"
    /\ seen[i] # ssl[i] => i \in held
    /\ Finish(i, "ok")
    /\ rowSsl' = IF seen[i] # ssl[i] THEN [rowSsl EXCEPT ![dom[i]] = ssl[i]] ELSE rowSsl
    /\ held' = held \ {i}
    /\ UNCHANGED <<rowStatus, rowUser>>

VhostDone(i) ==
    /\ op[i] \in {"reload", "vhost", "unvhost"}
    /\ Finish(i, "ok")
    /\ UNCHANGED <<dbVars, held>>

\* The commit is refused (unique column, row gone) or the database is lost:
\* 500, and nothing tells the agent.
CommitRefused(i) ==
    \/ op[i] = "create" /\ ~Insertable(i)
    \/ op[i] \in {"suspend", "unsuspend"} /\ i \notin held
    \/ op[i] = "rebuild" /\ seen[i] # ssl[i] /\ i \notin held

CommitFailed(i) ==
    /\ \/ CommitRefused(i)
       \/ /\ "commit" \in Faults
          /\ op[i] = "rebuild" => seen[i] # ssl[i]
          /\ op[i] \in {"create", "delete", "suspend", "unsuspend", "rebuild"}
    /\ Finish(i, "ok")
    /\ held' = held \ {i}
    /\ UNCHANGED dbVars

\* AgentError, RuntimeError: 502.
AgentFailed(i) ==
    /\ Finish(i, "error")
    /\ held' = held \ {i}
    /\ UNCHANGED dbVars

\* TimeoutError: 502 while the agent may still be at work.
ClientTimeout(i) ==
    /\ api[i] = "wait"
    /\ GiveUp(i)
    /\ api' = [api EXCEPT ![i] = "idle"]
    /\ seen' = [seen EXCEPT ![i] = FALSE]
    /\ held' = held \ {i}
    /\ UNCHANGED dbVars

-----------------------------------------------------------------------------
Request(i) ==
    \/ \E d \in Domains :
        \/ BeginCreate(i, d) \/ BeginDelete(i, d) \/ BeginSuspend(i, d)
        \/ BeginUnsuspend(i, d) \/ BeginRebuild(i, d) \/ LegacyDelete(i, d)
    \/ \E o \in {"reload", "vhost", "unvhost"} : BeginVhost(i, o)

Respond(i) ==
    \/ DeriveUsername(i) \/ RecheckConflict(i) \/ CallCreate(i)
    \/ CommitCreate(i) \/ CommitDelete(i) \/ CommitStatus(i) \/ CommitRebuild(i)
    \/ VhostDone(i) \/ CommitFailed(i) \/ AgentFailed(i)

Init ==
    /\ AgentInit
    /\ rowStatus = [d \in Domains |-> IF d \in Legacy THEN "active" ELSE "absent"]
    /\ rowUser = [d \in Domains |-> NoUser]
    /\ rowSsl = [d \in Domains |-> FALSE]
    /\ api = [i \in Conns |-> "idle"]
    /\ seen = [i \in Conns |-> FALSE]
    /\ held = {}

Next ==
    \/ AgentStep /\ UNCHANGED <<dbVars, apiVars>>
    \/ \E i \in Conns : Request(i) \/ Respond(i) \/ ClientTimeout(i)

Spec == Init /\ [][Next]_vars

TypeOK ==
    /\ AgentTypeOK
    /\ rowStatus \in [Domains -> {"absent", "active", "suspended"}]
    /\ rowUser \in [Domains -> Users \cup {NoUser}]
    /\ rowSsl \in [Domains -> BOOLEAN]
    /\ api \in [Conns -> {"idle", "derive", "recheck", "wait"}]
    /\ seen \in [Conns -> BOOLEAN]
    /\ held \subseteq Conns

-----------------------------------------------------------------------------
(* Properties *)

\* No request about d is in flight.
Quiet(d) == \A i \in Conns : InUse(i) => dom[i] # d

InFlight(d, ops) == \E i \in Conns : dom[i] = d /\ op[i] \in ops

\* Whenever no request about a domain is in flight, its row, its files and
\* what nginx serves agree: an absent row has left nothing behind, an active
\* one is the site and nothing preserved, a suspended one is the stub with a
\* site preserved (domains.py against nginx.py: the two are written in
\* different processes, in different steps).
RowMatchesDisk ==
    \A d \in Domains \ Legacy : Quiet(d) =>
        CASE rowStatus[d] = "absent" ->
                conf[d] = "none" /\ disabled[d] = "none" /\ owner[d] = "absent"
                /\ live[d] = "none"
          [] rowStatus[d] = "active" ->
                conf[d] \in Site /\ disabled[d] = "none" /\ live[d] = conf[d]
          [] rowStatus[d] = "suspended" ->
                conf[d] \in Stub /\ disabled[d] \in Site /\ live[d] = conf[d]

\* The ssl_enabled column says whether the domain's site, live or preserved,
\* is the HTTPS one, and the webroot of a domain belongs to its row's user.
RowTellsTheTruth ==
    \A d \in Domains \ Legacy : Quiet(d) /\ rowStatus[d] # "absent" =>
        /\ owner[d] = rowUser[d]
        /\ rowSsl[d] <=> "https" \in {conf[d], disabled[d]}

\* A suspended domain answers 503 until an unsuspend or a delete is under
\* way, whatever rebuilds and other domains do meanwhile (suspend_domain, the
\* suspended branch of rebuild_domain; an unsuspend that fails is rolled back
\* "so domain stays suspended").
SuspendedServesStub ==
    \A d \in Domains :
        rowStatus[d] = "suspended" /\ ~InFlight(d, {"unsuspend", "delete"})
            => live[d] \in Stub

\* What .conf.disabled preserves is a site, never a suspension stub
\* (suspend_domain: "restored verbatim by unsuspend_domain").
PreservedIsSite == \A d \in Domains : disabled[d] \notin Stub

\* A config that names a certificate is only ever written, preserved, backed
\* up or loaded when the certificate is there: no rollback, cancelled handler
\* or crash leaves a vhost that keeps nginx from starting for want of it.
TlsHasCert ==
    \A d \in Domains :
        ({conf[d], disabled[d], bak[d], live[d]} \cap Tls # {}) => cert[d]

\* Every row's Linux user exists on the host, and no two rows share one
\* (create_domain persists only after the agent created the user).
RowsHaveOwnUser ==
    /\ \A d \in Rows : rowUser[d] # NoUser => rowUser[d] \in osUsers
    /\ \A d, e \in Rows : d # e /\ rowUser[d] # NoUser => rowUser[d] # rowUser[e]

\* The webroots of two domains never belong to the same Linux user
\* (domains.py: each domain gets a dedicated Linux system user).
OneUserPerWebroot ==
    \A d, e \in Domains : d # e /\ owner[d] \in Users => owner[d] # owner[e]

\* .conf.bak exists only while a rebuild of the domain is inside its try
\* statement (its finally clause).
BackupIsTransient ==
    \A d \in Domains : bak[d] # "none" =>
        \E i \in Conns : /\ op[i] = "rebuild" /\ dom[i] = d
                         /\ pc[i] \in {"test", "testBack", "reloadBack"}

\* A rebuild that took a backup still has it when nginx -t has run
\* (rebuild_domain: "On failure: restore the backup").
BackupKept ==
    \A i \in Conns : op[i] = "rebuild" /\ pc[i] = "test" /\ bkp[i] => bak[dom[i]] # "none"

\* A creation that is rolled back because nginx -t rejects it leaves a domain
\* that nginx does not serve ("hard-fail; domain never became reachable").
RejectedNotServed ==
    [][\A i \in Conns : CreateTestFailed(i) => live[dom[i]] = "none"]_vars

\* The database and the web server of the panel behave as the service does.
ServedAs(c) ==
    CASE c = "none" -> "none" [] c \in Site -> "site" [] c \in Stub -> "stub"

Service == INSTANCE DomainService WITH
    served <- [d \in Domains |-> ServedAs(live[d])],
    status <- rowStatus

\* What is served and what is recorded move in the order of DomainService,
\* through every reload, including those other domains cause.
ImplementsService == Service!Spec

-----------------------------------------------------------------------------
(* Liveness.  The event loop resumes a handler whose command has returned,  *)
(* and the endpoints go on once they have an answer.  A command may hang:   *)
(* HANDLER_TIMEOUT is a timer of the agent's own loop.                      *)

AgentAct(A) == A /\ UNCHANGED <<dbVars, apiVars>>

TimedSpec ==
    /\ Spec
    /\ \A i \in Conns :
        /\ WF_vars(AgentAct(Handle(i)))
        /\ WF_vars(AgentAct(HandlerTimeout(i)))
        /\ WF_vars(Respond(i))

\* Every request is answered, whatever command hangs and whatever fails.
Answered == \A i \in Conns : api[i] # "idle" ~> api[i] = "idle"

\* Every handler ends, also when its client has gone.
HandlersEnd == \A i \in Conns : pc[i] # "idle" ~> pc[i] = "idle"

=============================================================================
