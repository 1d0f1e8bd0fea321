----------------------------- MODULE NginxAgent -----------------------------
(***************************************************************************)
(* The privileged agent's domain handlers (backend/agent/handlers/nginx.py *)
(* with the parts of user.py, ssl.py, utils/exec.py and                    *)
(* securepanel-agent.py they run through).                                 *)
(*                                                                         *)
(* The agent is one asyncio process: a handler runs alone up to its next   *)
(* await, and at every await the handlers of other connections may run.    *)
(* So an action here is one such segment.  Every await is an external      *)
(* command; the moment the command takes effect (Run...) is a step of its  *)
(* own between the segment that starts it and the one that resumes.        *)
(*                                                                         *)
(* A connection (a member of Conns) carries one request.  The handler of a *)
(* connection whose client went away keeps running.                        *)
(***************************************************************************)
EXTENDS Naturals, FiniteSets

CONSTANTS
    Domains,    \* domain names
    Users,      \* Linux user names
    Conns,      \* agent connections that may be in use at once
    NoUser,     \* no Linux user: a pre-isolation record
    NoDomain,   \* the domain of a connection without a request
    Legacy,     \* domains that have a pre-isolation record at start
    Ops,        \* the operations a run exercises
    Faults      \* the failures a run admits, a subset of FaultKinds

AllOps == {"create", "delete", "suspend", "unsuspend", "rebuild",
           "reload", "vhost", "unvhost"}

FaultKinds == {
    "nosnippet",    \* ssl-setup.sh has not installed ssl-params.conf yet
    "badvhost",     \* write_vhost is given a config nginx rejects
    "cmdfail",      \* a command fails although nothing is wrong with its input
    "cmdtimeout",   \* run_command kills the command and raises TimeoutError
    "handlertimeout",   \* HANDLER_TIMEOUT cancels the handler
    "crash",        \* the agent process dies and systemd restarts it
    "refuse",       \* connection refused, or rejected before the handler
    "clienttimeout",    \* AgentClient gives up after READ_TIMEOUT
    "commit" }      \* the database commit fails after the agent succeeded

ASSUME OpsAssumption == Ops \subseteq AllOps
ASSUME FaultsAssumption == Faults \subseteq FaultKinds
ASSUME UsersAssumption == NoUser \notin Users /\ {"absent", "root"} \cap Users = {}
ASSUME DomainsAssumption == NoDomain \notin Domains
ASSUME LegacyAssumption == Legacy \subseteq Domains

VARIABLES
    \* /etc/nginx/conf.d, the certificates, the webroots, the OS users
    conf,       \* <domain>.conf
    disabled,   \* <domain>.conf.disabled
    bak,        \* <domain>.conf.bak
    cert,       \* /etc/letsencrypt/live/<domain> is complete
    owner,      \* owner of /var/www/<domain>
    osUsers,    \* Linux users that exist
    snippet,    \* ssl-params.conf exists
    stray,      \* the <user>_<domain>.conf file of write_vhost
    live,       \* the config of the domain the running nginx has loaded
    \* connections
    op, dom, usr,   \* the request: action and params
    chan,       \* what the client end of the connection sees
    pc,         \* the await the handler is at
    res,        \* outcome of the command it awaits
    ssl,        \* ssl_enabled (create) or ssl_active (rebuild) of the result
    bkp,        \* rebuild_domain's backup_written
    orphans     \* commands that outlived the handler that started them

diskVars == <<conf, disabled, bak, cert, owner, osUsers, snippet, stray>>
reqVars  == <<op, dom, usr>>
hVars    == <<chan, pc, res, ssl, bkp>>
agentVars == <<conf, disabled, bak, cert, owner, osUsers, snippet, stray, live,
               op, dom, usr, chan, pc, res, ssl, bkp, orphans>>

-----------------------------------------------------------------------------
(* Configurations: the templates of nginx.py, told apart by what they serve *)
(* and by whether they name the domain's certificate and the ssl snippet.   *)

Site == {"http", "https"}
Stub == {"stub", "stubtls"}
Tls  == {"https", "stubtls"}
Config == {"none"} \cup Site \cup Stub

SiteConfig(d) == IF cert[d] THEN "https" ELSE "http"

\* Mutant: the suspension template always in its HTTPS form.
StubConfigAlwaysTls(d) == "stubtls"

StubConfig(d) == IF cert[d] THEN "stubtls" ELSE "stub"

\* nginx accepts a configuration as a whole: one bad file rejects them all.
Loadable ==
    /\ stray # "bad"
    /\ \A d \in Domains : conf[d] \in Tls => cert[d] /\ snippet

-----------------------------------------------------------------------------
(* Handler plumbing *)

Pcs == {"idle", "queued", "user", "chown", "test", "reload", "cert",
        "testTls", "reloadTls", "testBack", "reloadBack"}

Command(p) ==
    CASE p = "user" -> "useradd"
      [] p = "chown" -> "chown"
      [] p = "cert" -> "certbot"
      [] p \in {"test", "testTls", "testBack"} -> "nginx -t"
      [] p \in {"reload", "reloadTls", "reloadBack"} -> "reload"
      [] OTHER -> "none"

\* A command that runs on without its handler, with the arguments it was given.
Arguments(c, d, u) ==
    [cmd |-> c,
     dom |-> IF c \in {"chown", "certbot"} THEN d ELSE NoDomain,
     usr |-> IF c \in {"useradd", "chown"} THEN u ELSE NoUser]

Orphan == [cmd : {"useradd", "chown", "certbot", "reload"},
           dom : Domains \cup {NoDomain}, usr : Users \cup {NoUser}]

Running(i) == pc[i] \notin {"idle", "queued"}

\* The handler awaits the command of p.
Await(i, p) ==
    /\ pc' = [pc EXCEPT ![i] = p]
    /\ res' = [res EXCEPT ![i] = "run"]
    /\ UNCHANGED chan

\* The handler ends; its reply is lost if the client has closed.
Reply(i, r) ==
    /\ pc' = [pc EXCEPT ![i] = "idle"]
    /\ res' = [res EXCEPT ![i] = "none"]
    /\ chan' = [chan EXCEPT ![i] = IF @ = "open" THEN r ELSE @]

\* The handler of o resumes from p with outcome r.
Resume(i, o, p, r) ==
    /\ pc[i] = p /\ op[i] = o /\ res[i] = r
    /\ UNCHANGED <<op, dom, usr, live, orphans>>

\* The handler of a request starts.
Start(i, o) ==
    /\ pc[i] = "queued" /\ op[i] = o
    /\ UNCHANGED <<op, dom, usr, live, orphans>>

\* A handler segment that touches no file.
NoFiles == UNCHANGED <<diskVars, ssl, bkp>>

-----------------------------------------------------------------------------
(* create_domain *)

StartCreate(i) ==
    /\ Start(i, "create")
    /\ Await(i, "user")
    /\ NoFiles

\* Mutant: creation goes on after a failed useradd.
CreateUserDoneUnchecked(i) ==
    /\ \E r \in {"ok", "fail"} : Resume(i, "create", "user", r)
    /\ owner' = [owner EXCEPT ![dom[i]] = IF @ = "absent" THEN "root" ELSE @]
    /\ Await(i, "chown")
    /\ UNCHANGED <<conf, disabled, bak, cert, osUsers, snippet, stray, ssl, bkp>>

\* ensure_domain_user returned: webroot and index.html, then chown.
CreateUserDone(i) ==
    /\ Resume(i, "create", "user", "ok")
    /\ owner' = [owner EXCEPT ![dom[i]] = IF @ = "absent" THEN "root" ELSE @]
    /\ Await(i, "chown")
    /\ UNCHANGED <<conf, disabled, bak, cert, osUsers, snippet, stray, ssl, bkp>>

CreateChownDone(i) ==
    /\ Resume(i, "create", "chown", "ok")
    /\ conf' = [conf EXCEPT ![dom[i]] = "http"]
    /\ Await(i, "test")
    /\ UNCHANGED <<disabled, bak, cert, owner, osUsers, snippet, stray, ssl, bkp>>

\* Phases 0 and 3 raise without cleaning up.
CreateSetupFailed(i) ==
    /\ \E p \in {"user", "chown"}, r \in {"fail", "timeout"} : Resume(i, "create", p, r)
    /\ Reply(i, "error")
    /\ NoFiles

CreateTested(i) ==
    /\ Resume(i, "create", "test", "ok")
    /\ Await(i, "reload")
    /\ NoFiles

\* except RuntimeError: remove the file, raise; no reload.
CreateTestFailed(i) ==
    /\ Resume(i, "create", "test", "fail")
    /\ conf' = [conf EXCEPT ![dom[i]] = "none"]
    /\ Reply(i, "error")
    /\ UNCHANGED <<disabled, bak, cert, owner, osUsers, snippet, stray, ssl, bkp>>

\* Phase 6 begins, or is skipped without the snippet.
CreateReloaded(i) ==
    /\ Resume(i, "create", "reload", "ok")
    /\ ssl' = [ssl EXCEPT ![i] = FALSE]
    /\ IF snippet THEN Await(i, "cert") ELSE Reply(i, "ok")
    /\ UNCHANGED <<diskVars, bkp>>

CreateCertIssued(i) ==
    /\ Resume(i, "create", "cert", "ok")
    /\ conf' = [conf EXCEPT ![dom[i]] = "https"]
    /\ Await(i, "testTls")
    /\ UNCHANGED <<disabled, bak, cert, owner, osUsers, snippet, stray, ssl, bkp>>

\* Mutant: certbot's return code is not looked at.
CreateCertFailedUnchecked(i) ==
    /\ Resume(i, "create", "cert", "fail")
    /\ conf' = [conf EXCEPT ![dom[i]] = "https"]
    /\ Await(i, "testTls")
    /\ UNCHANGED <<disabled, bak, cert, owner, osUsers, snippet, stray, ssl, bkp>>

\* _provision_ssl never raises: the domain stays on HTTP.  certbot's own
\* 300 s limit cannot be reached within HANDLER_TIMEOUT.
CreateCertFailed(i) ==
    /\ Resume(i, "create", "cert", "fail")
    /\ Reply(i, "ok")
    /\ NoFiles

CreateTlsTested(i) ==
    /\ Resume(i, "create", "testTls", "ok")
    /\ Await(i, "reloadTls")
    /\ NoFiles

\* Back to the HTTP config, tested and reloaded again.
CreateTlsTestFailed(i) ==
    /\ Resume(i, "create", "testTls", "fail")
    /\ conf' = [conf EXCEPT ![dom[i]] = "http"]
    /\ Await(i, "testBack")
    /\ UNCHANGED <<disabled, bak, cert, owner, osUsers, snippet, stray, ssl, bkp>>

CreateTlsReloaded(i) ==
    /\ Resume(i, "create", "reloadTls", "ok")
    /\ ssl' = [ssl EXCEPT ![i] = TRUE]
    /\ Reply(i, "ok")
    /\ UNCHANGED <<diskVars, bkp>>

CreateBackTested(i) ==
    /\ Resume(i, "create", "testBack", "ok")
    /\ Await(i, "reloadBack")
    /\ NoFiles

\* A failing rollback is only logged: the creation still succeeds.
CreateBackDone(i) ==
    /\ \/ Resume(i, "create", "testBack", "fail")
       \/ \E r \in {"ok", "fail"} : Resume(i, "create", "reloadBack", r)
    /\ Reply(i, "ok")
    /\ NoFiles

\* Raised past every except clause: no rollback.
CreateAborted(i) ==
    /\ \/ \E r \in {"fail", "timeout"} : \E p \in {"reload", "reloadTls"} :
            Resume(i, "create", p, r)
       \/ \E p \in {"test", "testTls", "testBack", "reloadBack"} :
            Resume(i, "create", p, "timeout")
    /\ Reply(i, "error")
    /\ NoFiles

CreateStep(i) ==
    \/ StartCreate(i) \/ CreateUserDone(i) \/ CreateChownDone(i)
    \/ CreateSetupFailed(i) \/ CreateTested(i) \/ CreateTestFailed(i)
    \/ CreateReloaded(i) \/ CreateCertIssued(i) \/ CreateCertFailed(i)
    \/ CreateTlsTested(i) \/ CreateTlsTestFailed(i) \/ CreateTlsReloaded(i)
    \/ CreateBackTested(i) \/ CreateBackDone(i) \/ CreateAborted(i)

-----------------------------------------------------------------------------
(* delete_domain *)

\* Mutant: only .conf is unlinked, not .conf.disabled.
StartDeleteConfOnly(i) ==
    LET d == dom[i] IN
    /\ Start(i, "delete")
    /\ conf' = [conf EXCEPT ![d] = "none"]
    /\ IF conf[d] # "none"
       THEN Await(i, "test") /\ UNCHANGED owner
       ELSE Reply(i, "ok") /\ owner' = [owner EXCEPT ![d] = "absent"]
    /\ UNCHANGED <<disabled, bak, cert, osUsers, snippet, stray, ssl, bkp>>

\* Both config files go; the reload is skipped when there was no .conf.
StartDelete(i) ==
    LET d == dom[i] IN
    /\ Start(i, "delete")
    /\ conf' = [conf EXCEPT ![d] = "none"]
    /\ disabled' = [disabled EXCEPT ![d] = "none"]
    /\ IF conf[d] # "none"
       THEN Await(i, "test") /\ UNCHANGED owner
       ELSE Reply(i, "ok") /\ owner' = [owner EXCEPT ![d] = "absent"]
    /\ UNCHANGED <<bak, cert, osUsers, snippet, stray, ssl, bkp>>

DeleteTested(i) ==
    /\ Resume(i, "delete", "test", "ok")
    /\ Await(i, "reload")
    /\ NoFiles

DeleteReloaded(i) ==
    /\ Resume(i, "delete", "reload", "ok")
    /\ owner' = [owner EXCEPT ![dom[i]] = "absent"]
    /\ Reply(i, "ok")
    /\ UNCHANGED <<conf, disabled, bak, cert, osUsers, snippet, stray, ssl, bkp>>

\* Raises with the configs gone and the webroot still there.
DeleteAborted(i) ==
    /\ \E p \in {"test", "reload"}, r \in {"fail", "timeout"} : Resume(i, "delete", p, r)
    /\ Reply(i, "error")
    /\ NoFiles

DeleteStep(i) ==
    StartDelete(i) \/ DeleteTested(i) \/ DeleteReloaded(i) \/ DeleteAborted(i)

-----------------------------------------------------------------------------
(* suspend_domain *)

\* Mutant: the stub is written before the rename.
StartSuspendStubFirst(i) ==
    LET d == dom[i] IN
    /\ Start(i, "suspend")
    /\ IF conf[d] = "none"
       THEN Reply(i, "error") /\ UNCHANGED <<conf, disabled>>
       ELSE /\ disabled' = [disabled EXCEPT ![d] = StubConfig(d)]
            /\ conf' = [conf EXCEPT ![d] = StubConfig(d)]
            /\ Await(i, "test")
    /\ UNCHANGED <<bak, cert, owner, osUsers, snippet, stray, ssl, bkp>>

\* rename(.conf, .conf.disabled) overwrites what was preserved before.
StartSuspend(i) ==
    LET d == dom[i] IN
    /\ Start(i, "suspend")
    /\ IF conf[d] = "none"
       THEN Reply(i, "error") /\ UNCHANGED <<conf, disabled>>
       ELSE /\ disabled' = [disabled EXCEPT ![d] = conf[d]]
            /\ conf' = [conf EXCEPT ![d] = StubConfig(d)]
            /\ Await(i, "test")
    /\ UNCHANGED <<bak, cert, owner, osUsers, snippet, stray, ssl, bkp>>

\* Mutant: the reload is forgotten.
SuspendTestedNoReload(i) ==
    /\ Resume(i, "suspend", "test", "ok")
    /\ Reply(i, "ok")
    /\ NoFiles

SuspendTested(i) ==
    /\ Resume(i, "suspend", "test", "ok")
    /\ Await(i, "reload")
    /\ NoFiles

\* Unlink the stub, rename .disabled back; if .disabled is gone only the
\* unlink happens.
SuspendTestFailed(i) ==
    LET d == dom[i] IN
    /\ Resume(i, "suspend", "test", "fail")
    /\ conf' = [conf EXCEPT ![d] = disabled[d]]
    /\ disabled' = [disabled EXCEPT ![d] = "none"]
    /\ Reply(i, "error")
    /\ UNCHANGED <<bak, cert, owner, osUsers, snippet, stray, ssl, bkp>>

SuspendReloaded(i) ==
    /\ Resume(i, "suspend", "reload", "ok")
    /\ Reply(i, "ok")
    /\ NoFiles

\* A failed reload and every TimeoutError leave the stub in place.
SuspendAborted(i) ==
    /\ \/ Resume(i, "suspend", "test", "timeout")
       \/ \E r \in {"fail", "timeout"} : Resume(i, "suspend", "reload", r)
    /\ Reply(i, "error")
    /\ NoFiles

SuspendStep(i) ==
    \/ StartSuspend(i) \/ SuspendTested(i) \/ SuspendTestFailed(i)
    \/ SuspendReloaded(i) \/ SuspendAborted(i)

-----------------------------------------------------------------------------
(* unsuspend_domain *)

StartUnsuspend(i) ==
    LET d == dom[i] IN
    /\ Start(i, "unsuspend")
    /\ IF disabled[d] = "none"
       THEN Reply(i, "error") /\ UNCHANGED <<conf, disabled>>
       ELSE /\ conf' = [conf EXCEPT ![d] = disabled[d]]
            /\ disabled' = [disabled EXCEPT ![d] = "none"]
            /\ Await(i, "test")
    /\ UNCHANGED <<bak, cert, owner, osUsers, snippet, stray, ssl, bkp>>

UnsuspendTested(i) ==
    /\ Resume(i, "unsuspend", "test", "ok")
    /\ Await(i, "reload")
    /\ NoFiles

\* rename(.conf, .conf.disabled): the stub it replaced is not written again.
UnsuspendTestFailed(i) ==
    LET d == dom[i] IN
    /\ Resume(i, "unsuspend", "test", "fail")
    /\ conf' = [conf EXCEPT ![d] = "none"]
    /\ disabled' = [disabled EXCEPT ![d] = IF conf[d] = "none" THEN @ ELSE conf[d]]
    /\ Reply(i, "error")
    /\ UNCHANGED <<bak, cert, owner, osUsers, snippet, stray, ssl, bkp>>

UnsuspendReloaded(i) ==
    /\ Resume(i, "unsuspend", "reload", "ok")
    /\ Reply(i, "ok")
    /\ NoFiles

UnsuspendAborted(i) ==
    /\ \/ Resume(i, "unsuspend", "test", "timeout")
       \/ \E r \in {"fail", "timeout"} : Resume(i, "unsuspend", "reload", r)
    /\ Reply(i, "error")
    /\ NoFiles

UnsuspendStep(i) ==
    \/ StartUnsuspend(i) \/ UnsuspendTested(i) \/ UnsuspendTestFailed(i)
    \/ UnsuspendReloaded(i) \/ UnsuspendAborted(i)

-----------------------------------------------------------------------------
(* rebuild_domain *)

\* Mutant: rebuild does not look at .conf.disabled.
StartRebuildSuspensionBlind(i) ==
    LET d == dom[i] IN
    /\ Start(i, "rebuild")
    /\ ssl' = [ssl EXCEPT ![i] = cert[d]]
    /\ bkp' = [bkp EXCEPT ![i] = conf[d] # "none"]
    /\ bak' = [bak EXCEPT ![d] = IF conf[d] # "none" THEN conf[d] ELSE @]
    /\ conf' = [conf EXCEPT ![d] = SiteConfig(d)]
    /\ Await(i, "test")
    /\ UNCHANGED <<disabled, cert, owner, osUsers, snippet, stray>>

\* Suspended: rewrite .disabled only.  Active: back up, write, test.
StartRebuild(i) ==
    LET d == dom[i] IN
    /\ Start(i, "rebuild")
    /\ ssl' = [ssl EXCEPT ![i] = cert[d]]
    /\ IF disabled[d] # "none"
       THEN /\ disabled' = [disabled EXCEPT ![d] = SiteConfig(d)]
            /\ Reply(i, "ok")
            /\ UNCHANGED <<conf, bak, bkp>>
       ELSE /\ bkp' = [bkp EXCEPT ![i] = conf[d] # "none"]
            /\ bak' = [bak EXCEPT ![d] = IF conf[d] # "none" THEN conf[d] ELSE @]
            /\ conf' = [conf EXCEPT ![d] = SiteConfig(d)]
            /\ Await(i, "test")
            /\ UNCHANGED disabled
    /\ UNCHANGED <<cert, owner, osUsers, snippet, stray>>

\* The finally clause drops the backup before the reload.
RebuildTested(i) ==
    /\ Resume(i, "rebuild", "test", "ok")
    /\ bak' = [bak EXCEPT ![dom[i]] = "none"]
    /\ Await(i, "reload")
    /\ UNCHANGED <<conf, disabled, cert, owner, osUsers, snippet, stray, ssl, bkp>>

RebuildTestFailed(i) ==
    LET d == dom[i] IN
    /\ Resume(i, "rebuild", "test", "fail")
    /\ IF bkp[i] /\ bak[d] # "none"
       THEN /\ conf' = [conf EXCEPT ![d] = bak[d]]
            /\ Await(i, "testBack")
            /\ UNCHANGED bak
       ELSE /\ bak' = [bak EXCEPT ![d] = "none"]
            /\ Reply(i, "error")
            /\ UNCHANGED conf
    /\ UNCHANGED <<disabled, cert, owner, osUsers, snippet, stray, ssl, bkp>>

RebuildBackTested(i) ==
    /\ Resume(i, "rebuild", "testBack", "ok")
    /\ Await(i, "reloadBack")
    /\ NoFiles

\* Every way out of the try statement that raises runs finally.
RebuildRaised(i) ==
    /\ \/ Resume(i, "rebuild", "test", "timeout")
       \/ \E r \in {"fail", "timeout"} : Resume(i, "rebuild", "testBack", r)
       \/ \E r \in {"ok", "fail", "timeout"} : Resume(i, "rebuild", "reloadBack", r)
    /\ bak' = [bak EXCEPT ![dom[i]] = "none"]
    /\ Reply(i, "error")
    /\ UNCHANGED <<conf, disabled, cert, owner, osUsers, snippet, stray, ssl, bkp>>

RebuildReloaded(i) ==
    /\ Resume(i, "rebuild", "reload", "ok")
    /\ Reply(i, "ok")
    /\ NoFiles

RebuildReloadFailed(i) ==
    /\ \E r \in {"fail", "timeout"} : Resume(i, "rebuild", "reload", r)
    /\ Reply(i, "error")
    /\ NoFiles

RebuildStep(i) ==
    \/ StartRebuild(i) \/ RebuildTested(i) \/ RebuildTestFailed(i)
    \/ RebuildBackTested(i) \/ RebuildRaised(i) \/ RebuildReloaded(i)
    \/ RebuildReloadFailed(i)

-----------------------------------------------------------------------------
(* nginx.reload, nginx.write_vhost, nginx.delete_vhost: what NginxManager   *)
(* calls.  write_vhost writes a config rendered elsewhere and tests nothing. *)

StartReload(i) ==
    /\ Start(i, "reload")
    /\ Await(i, "test")
    /\ NoFiles

ReloadTested(i) ==
    /\ Resume(i, "reload", "test", "ok")
    /\ Await(i, "reload")
    /\ NoFiles

ReloadDone(i) ==
    /\ \/ /\ Resume(i, "reload", "reload", "ok")
          /\ Reply(i, "ok")
       \/ /\ \E p \in {"test", "reload"}, r \in {"fail", "timeout"} :
                Resume(i, "reload", p, r)
          /\ Reply(i, "error")
    /\ NoFiles

WriteVhost(i) ==
    /\ Start(i, "vhost")
    /\ stray' \in {"good"} \cup (IF "badvhost" \in Faults THEN {"bad"} ELSE {})
    /\ Reply(i, "ok")
    /\ UNCHANGED <<conf, disabled, bak, cert, owner, osUsers, snippet, ssl, bkp>>

DeleteVhost(i) ==
    /\ Start(i, "unvhost")
    /\ stray' = "none"
    /\ Reply(i, "ok")
    /\ UNCHANGED <<conf, disabled, bak, cert, owner, osUsers, snippet, ssl, bkp>>

VhostStep(i) ==
    StartReload(i) \/ ReloadTested(i) \/ ReloadDone(i) \/ WriteVhost(i) \/ DeleteVhost(i)

-----------------------------------------------------------------------------
(* The external commands.  run_command returns ok (rc 0 or an allowed rc),  *)
(* raises CommandError ("fail") or, having killed the process, TimeoutError *)
(* ("timeout"); a command that is killed may already have done its work.    *)

Executes(i, c) == res[i] = "run" /\ Command(pc[i]) = c

Outcome(i, r) ==
    /\ \/ res' = [res EXCEPT ![i] = r]
       \/ "cmdtimeout" \in Faults /\ res' = [res EXCEPT ![i] = "timeout"]
    /\ UNCHANGED <<op, dom, usr, chan, pc, ssl, bkp, orphans>>

RunTest(i) ==
    /\ Executes(i, "nginx -t")
    /\ Outcome(i, IF Loadable THEN "ok" ELSE "fail")
    /\ UNCHANGED <<diskVars, live>>

\* nginx keeps the loaded configuration when the new one is rejected.
ReloadNginx == live' = IF Loadable THEN conf ELSE live

RunReload(i) ==
    /\ Executes(i, "reload")
    /\ ReloadNginx
    /\ Outcome(i, IF Loadable THEN "ok" ELSE "fail")
    /\ UNCHANGED diskVars

\* rc 9, the user exists already, is an allowed return code.
RunUseradd(i) ==
    /\ Executes(i, "useradd")
    /\ osUsers' = osUsers \cup {usr[i]}
    /\ Outcome(i, "ok")
    /\ UNCHANGED <<conf, disabled, bak, cert, owner, snippet, stray, live>>

Chown(d, u) ==
    owner' = [owner EXCEPT ![d] = IF @ = "absent" THEN @ ELSE u]

RunChown(i) ==
    /\ Executes(i, "chown")
    /\ Chown(dom[i], usr[i])
    /\ Outcome(i, IF owner[dom[i]] = "absent" THEN "fail" ELSE "ok")
    /\ UNCHANGED <<conf, disabled, bak, cert, osUsers, snippet, stray, live>>

\* A certificate is issued; certbot has not ended yet.
CertIssued(i) ==
    /\ Executes(i, "certbot")
    /\ cert' = [cert EXCEPT ![dom[i]] = TRUE]
    /\ UNCHANGED <<conf, disabled, bak, owner, osUsers, snippet, stray, live,
                   reqVars, hVars, orphans>>

\* --deploy-hook, where ssl-setup.sh has put the hook in place: certbot has
\* nginx reloaded for a certificate that is issued or renewed.
DeployHook(i) ==
    /\ Executes(i, "certbot")
    /\ cert[dom[i]] /\ snippet
    /\ ReloadNginx
    /\ UNCHANGED <<diskVars, reqVars, hVars, orphans>>

\* certbot ends with a certificate in place.
RunCertbot(i) ==
    /\ Executes(i, "certbot")
    /\ cert[dom[i]]
    /\ res' = [res EXCEPT ![i] = "ok"]
    /\ UNCHANGED <<diskVars, live, op, dom, usr, chan, pc, ssl, bkp, orphans>>

\* The name does not resolve, or Let's Encrypt refuses: no fault of the panel.
CertRefused(i) ==
    /\ Executes(i, "certbot")
    /\ res' = [res EXCEPT ![i] = "fail"]
    /\ UNCHANGED <<diskVars, live, op, dom, usr, chan, pc, ssl, bkp, orphans>>

\* The command ends without having done anything.
CommandFails(i) ==
    /\ res[i] = "run" /\ Command(pc[i]) # "certbot"
    /\ \E f \in {"cmdfail", "cmdtimeout"} \cap Faults :
        res' = [res EXCEPT ![i] = IF f = "cmdfail" THEN "fail" ELSE "timeout"]
    /\ UNCHANGED <<diskVars, live, op, dom, usr, chan, pc, ssl, bkp, orphans>>

Run(i) ==
    \/ RunTest(i) \/ RunReload(i) \/ RunUseradd(i) \/ RunChown(i)
    \/ CertIssued(i) \/ DeployHook(i) \/ RunCertbot(i) \/ CertRefused(i) \/ CommandFails(i)

-----------------------------------------------------------------------------
(* What interrupts a handler *)

\* Mutant: rebuild without its finally clause.
HandlerTimeoutNoFinally(i) ==
    LET cmd == Command(pc[i]) IN
    /\ "handlertimeout" \in Faults
    /\ Running(i)
    /\ orphans' = IF res[i] = "run" /\ cmd # "nginx -t"
                  THEN orphans \cup {Arguments(cmd, dom[i], usr[i])}
                  ELSE orphans
    /\ Reply(i, "error")
    /\ UNCHANGED <<conf, disabled, bak, cert, owner, osUsers, snippet, stray, live,
                   op, dom, usr, ssl, bkp>>

\* Mutant: the cancelled handler's client is not answered.
HandlerTimeoutNoReply(i) ==
    /\ "handlertimeout" \in Faults
    /\ Running(i)
    /\ pc' = [pc EXCEPT ![i] = "idle"]
    /\ res' = [res EXCEPT ![i] = "none"]
    /\ UNCHANGED <<diskVars, live, op, dom, usr, chan, ssl, bkp, orphans>>

\* Mutant: the deadline is only looked at between two commands.
HandlerTimeoutBetweenCommands(i) ==
    /\ "handlertimeout" \in Faults
    /\ Running(i) /\ res[i] # "run"
    /\ Reply(i, "error")
    /\ UNCHANGED <<diskVars, live, op, dom, usr, ssl, bkp, orphans>>

\* wait_for cancels the handler at its await.  CancelledError passes every
\* except clause; only rebuild's finally runs.  A command under way goes on.
HandlerTimeout(i) ==
    LET inTry == op[i] = "rebuild" /\ pc[i] \in {"test", "testBack", "reloadBack"}
        cmd == Command(pc[i]) IN
    /\ "handlertimeout" \in Faults
    /\ Running(i)
    /\ orphans' = IF res[i] = "run" /\ cmd # "nginx -t"
                  THEN orphans \cup {Arguments(cmd, dom[i], usr[i])}
                  ELSE orphans
    /\ IF inTry THEN bak' = [bak EXCEPT ![dom[i]] = "none"] ELSE UNCHANGED bak
    /\ Reply(i, "error")
    /\ UNCHANGED <<conf, disabled, cert, owner, osUsers, snippet, stray, live,
                   op, dom, usr, ssl, bkp>>

\* A command whose handler was cancelled takes effect after all; certbot goes
\* on to its hook, unless the certificate it found was not due.
OrphanRuns(o) ==
    /\ o \in orphans
    /\ \E hook \in SUBSET {Arguments("reload", NoDomain, NoUser)} :
        /\ hook # {} => o.cmd = "certbot" /\ snippet
        /\ orphans' = (orphans \ {o}) \cup hook
    /\ IF o.cmd = "reload" THEN ReloadNginx ELSE UNCHANGED live
    /\ IF o.cmd = "certbot" THEN cert' = [cert EXCEPT ![o.dom] = TRUE] ELSE UNCHANGED cert
    /\ IF o.cmd = "useradd" THEN osUsers' = osUsers \cup {o.usr} ELSE UNCHANGED osUsers
    /\ IF o.cmd = "chown" THEN Chown(o.dom, o.usr) ELSE UNCHANGED owner
    /\ UNCHANGED <<conf, disabled, bak, snippet, stray, reqVars, hVars>>

\* The process dies with its handlers and (one control group) their commands.
AgentCrash ==
    /\ "crash" \in Faults
    /\ \E i \in Conns : pc[i] # "idle"
    /\ pc' = [i \in Conns |-> "idle"]
    /\ res' = [i \in Conns |-> "none"]
    /\ chan' = [i \in Conns |-> IF chan[i] = "open" THEN "error" ELSE chan[i]]
    /\ orphans' = {}
    /\ UNCHANGED <<diskVars, live, reqVars, ssl, bkp>>

\* ssl-setup.sh is run on the host.
InstallSnippet ==
    /\ ~snippet
    /\ snippet' = TRUE
    /\ UNCHANGED <<conf, disabled, bak, cert, owner, osUsers, stray, live,
                   reqVars, hVars, orphans>>

-----------------------------------------------------------------------------
(* The client end: AgentClient.call *)

Submit(i, o, d, u) ==
    /\ pc[i] = "idle" /\ chan[i] = "closed"
    /\ pc' = [pc EXCEPT ![i] = "queued"]
    /\ chan' = [chan EXCEPT ![i] = "open"]
    /\ op' = [op EXCEPT ![i] = o]
    /\ dom' = [dom EXCEPT ![i] = d]
    /\ usr' = [usr EXCEPT ![i] = u]
    /\ ssl' = [ssl EXCEPT ![i] = FALSE]
    /\ bkp' = [bkp EXCEPT ![i] = FALSE]
    /\ UNCHANGED <<diskVars, live, res, orphans>>

\* Connection refused, rate limit, validator: an error and no handler.
Refuse(i) ==
    /\ "refuse" \in Faults
    /\ pc[i] = "queued"
    /\ Reply(i, "error")
    /\ NoFiles
    /\ UNCHANGED <<live, reqVars, orphans>>

\* READ_TIMEOUT: the handler, or the request still queued, is unaffected.
GiveUp(i) ==
    /\ "clienttimeout" \in Faults
    /\ chan[i] = "open"
    /\ chan' = [chan EXCEPT ![i] = "closed"]
    /\ UNCHANGED <<diskVars, live, reqVars, pc, res, ssl, bkp, orphans>>

\* The reply r is taken and the connection closed.
Receive(i, r) ==
    /\ chan[i] = r
    /\ pc[i] = "idle"
    /\ chan' = [chan EXCEPT ![i] = "closed"]
    /\ op' = [op EXCEPT ![i] = "none"]
    /\ dom' = [dom EXCEPT ![i] = NoDomain]
    /\ usr' = [usr EXCEPT ![i] = NoUser]
    /\ ssl' = [ssl EXCEPT ![i] = FALSE]
    /\ bkp' = [bkp EXCEPT ![i] = FALSE]
    /\ UNCHANGED <<diskVars, live, pc, res, orphans>>

-----------------------------------------------------------------------------
Handle(i) ==
    \/ CreateStep(i) \/ DeleteStep(i) \/ SuspendStep(i) \/ UnsuspendStep(i)
    \/ RebuildStep(i) \/ VhostStep(i)

\* What the agent, its commands and its host do; the client end is DomainApi's.
AgentStep ==
    \/ \E i \in Conns : Handle(i) \/ Run(i) \/ HandlerTimeout(i) \/ Refuse(i)
    \/ \E o \in orphans : OrphanRuns(o)
    \/ AgentCrash
    \/ InstallSnippet

\* A host after install.sh, with the vhosts of the pre-isolation records.
AgentInit ==
    /\ conf = [d \in Domains |-> IF d \in Legacy THEN "http" ELSE "none"]
    /\ live = conf
    /\ disabled = [d \in Domains |-> "none"]
    /\ bak = [d \in Domains |-> "none"]
    /\ cert = [d \in Domains |-> FALSE]
    /\ owner = [d \in Domains |-> IF d \in Legacy THEN "root" ELSE "absent"]
    /\ osUsers = {}
    /\ snippet \in {TRUE} \cup (IF "nosnippet" \in Faults THEN {FALSE} ELSE {})
    /\ stray = "none"
    /\ op = [i \in Conns |-> "none"]
    /\ dom = [i \in Conns |-> NoDomain]
    /\ usr = [i \in Conns |-> NoUser]
    /\ chan = [i \in Conns |-> "closed"]
    /\ pc = [i \in Conns |-> "idle"]
    /\ res = [i \in Conns |-> "none"]
    /\ ssl = [i \in Conns |-> FALSE]
    /\ bkp = [i \in Conns |-> FALSE]
    /\ orphans = {}

AgentTypeOK ==
    /\ conf \in [Domains -> Config]
    /\ disabled \in [Domains -> Config]
    /\ bak \in [Domains -> Config]
    /\ live \in [Domains -> Config]
    /\ cert \in [Domains -> BOOLEAN]
    /\ owner \in [Domains -> Users \cup {"absent", "root"}]
    /\ osUsers \subseteq Users
    /\ snippet \in BOOLEAN
    /\ stray \in {"none", "good", "bad"}
    /\ op \in [Conns -> AllOps \cup {"none"}]
    /\ dom \in [Conns -> Domains \cup {NoDomain}]
    /\ usr \in [Conns -> Users \cup {NoUser}]
    /\ chan \in [Conns -> {"closed", "open", "ok", "error"}]
    /\ pc \in [Conns -> Pcs]
    /\ res \in [Conns -> {"none", "run", "ok", "fail", "timeout"}]
    /\ ssl \in [Conns -> BOOLEAN]
    /\ bkp \in [Conns -> BOOLEAN]
    /\ orphans \subseteq Orphan

=============================================================================
