------------------------- MODULE DomainSafetyProofs -------------------------
(***************************************************************************)
(* Safety of the domain endpoints and the agent under every admitted       *)
(* failure and every interleaving of requests.                             *)
(***************************************************************************)
EXTENDS DomainApiProofs

HIDE DEF TypeInv, TypeOK, AgentTypeOK, RequestOK, OrphanOK

\* TlsHasCert, file by file, strengthened by what certbot's success leaves to
\* the handler that resumes from it.
CertInv ==
    /\ \A d \in Domains :
        /\ conf[d] \in Tls => cert[d]
        /\ disabled[d] \in Tls => cert[d]
        /\ bak[d] \in Tls => cert[d]
        /\ live[d] \in Tls => cert[d]
    /\ \A i \in Conns :
        op[i] = "create" /\ pc[i] = "cert" /\ res[i] = "ok" => cert[dom[i]]

\* The handler of a creation has its user, from useradd's success to the reply.
HasUser(i) ==
    \/ pc[i] \notin {"idle", "queued", "user"}
    \/ pc[i] = "user" /\ res[i] = "ok"
    \/ chan[i] = "ok"

UserInv ==
    /\ \A i \in Conns : op[i] = "create" /\ HasUser(i) => usr[i] \in osUsers
    /\ \A i \in Conns : api[i] \in {"derive", "recheck"} => chan[i] = "closed"
    /\ RowsHaveOwnUser

-----------------------------------------------------------------------------
(* What a segment of a handler leaves alone *)

HandleFrame(i) ==
    /\ UNCHANGED <<cert, osUsers, snippet, live, op, dom, usr, orphans>>
    /\ \A j \in Conns \ {i} : pc'[j] = pc[j] /\ res'[j] = res[j] /\ chan'[j] = chan[j]
    /\ res'[i] \in {"run", "none"}
    /\ chan[i] = "closed" => chan'[i] = "closed"

LEMMA HandleFrames ==
    ASSUME TypeInv, NEW i \in Conns, Handle(i)
    PROVE  HandleFrame(i)
<1> USE DEF HandleFrame, Resume, Start, Await, Reply, NoFiles, diskVars
<1>0. /\ pc \in [Conns -> Pcs] /\ res \in [Conns -> {"none", "run", "ok", "fail", "timeout"}]
      /\ chan \in [Conns -> {"closed", "open", "ok", "error"}]
    BY DEF TypeInv, TypeOK, AgentTypeOK
<1>1. CASE CreateStep(i)
    BY <1>0, <1>1, SMTT(30) DEF CreateStep, StartCreate, CreateUserDone, CreateChownDone,
        CreateSetupFailed, CreateTested, CreateTestFailed, CreateReloaded, CreateCertIssued,
        CreateCertFailed, CreateTlsTested, CreateTlsTestFailed, CreateTlsReloaded,
        CreateBackTested, CreateBackDone, CreateAborted
<1>2. CASE DeleteStep(i)
    BY <1>0, <1>2, SMTT(30) DEF DeleteStep, StartDelete, DeleteTested, DeleteReloaded, DeleteAborted
<1>3. CASE SuspendStep(i)
    BY <1>0, <1>3, SMTT(30) DEF SuspendStep, StartSuspend, SuspendTested, SuspendTestFailed,
        SuspendReloaded, SuspendAborted
<1>4. CASE UnsuspendStep(i)
    BY <1>0, <1>4, SMTT(30) DEF UnsuspendStep, StartUnsuspend, UnsuspendTested,
        UnsuspendTestFailed, UnsuspendReloaded, UnsuspendAborted
<1>5. CASE RebuildStep(i)
    BY <1>0, <1>5, SMTT(30) DEF RebuildStep, StartRebuild, RebuildTested, RebuildTestFailed,
        RebuildBackTested, RebuildRaised, RebuildReloaded, RebuildReloadFailed
<1>6. CASE VhostStep(i)
    BY <1>0, <1>6, SMTT(30) DEF VhostStep, StartReload, ReloadTested, ReloadDone, WriteVhost,
        DeleteVhost
<1> QED
    BY <1>1, <1>2, <1>3, <1>4, <1>5, <1>6 DEF Handle

-----------------------------------------------------------------------------
(* Certificates *)

\* The files a handler segment may write.
FilesOK(d) ==
    /\ conf[d] \in Tls => cert[d]
    /\ disabled[d] \in Tls => cert[d]
    /\ bak[d] \in Tls => cert[d]

LEMMA HandleFiles ==
    ASSUME TypeInv, CertInv, NEW i \in Conns, Handle(i), NEW d \in Domains
    PROVE  FilesOK(d)'
<1> USE DEF FilesOK, Resume, Start, NoFiles, diskVars, Tls
<1>0. /\ conf \in [Domains -> Config] /\ disabled \in [Domains -> Config]
      /\ bak \in [Domains -> Config] /\ cert \in [Domains -> BOOLEAN]
      /\ FilesOK(d)
    BY DEF TypeInv, TypeOK, AgentTypeOK, CertInv
<1>1. CASE CreateStep(i)
    <2>1. CASE CreateCertIssued(i)
        <3>1. cert[dom[i]]
            BY <2>1 DEF CreateCertIssued, CertInv
        <3> QED
            BY <1>0, <2>1, <3>1 DEF CreateCertIssued
    <2>2. CASE ~CreateCertIssued(i)
        BY <1>0, <1>1, <2>2, SMTT(30) DEF CreateStep, StartCreate, CreateUserDone,
            CreateChownDone, CreateSetupFailed, CreateTested, CreateTestFailed,
            CreateReloaded, CreateCertFailed, CreateTlsTested, CreateTlsTestFailed,
            CreateTlsReloaded, CreateBackTested, CreateBackDone, CreateAborted
    <2> QED
        BY <2>1, <2>2
<1>2. CASE DeleteStep(i)
    BY <1>0, <1>2, SMTT(30) DEF DeleteStep, StartDelete, DeleteTested, DeleteReloaded, DeleteAborted
<1>3. CASE SuspendStep(i)
    BY <1>0, <1>3, SMTT(30) DEF SuspendStep, StartSuspend, StubConfig, SuspendTested,
        SuspendTestFailed, SuspendReloaded, SuspendAborted
<1>4. CASE UnsuspendStep(i)
    BY <1>0, <1>4, SMTT(30) DEF UnsuspendStep, StartUnsuspend, UnsuspendTested,
        UnsuspendTestFailed, UnsuspendReloaded, UnsuspendAborted
<1>5. CASE RebuildStep(i)
    <2>1. CASE StartRebuild(i)
        BY <1>0, <2>1, SMTT(30) DEF StartRebuild, SiteConfig
    <2>2. CASE RebuildTestFailed(i)
        BY <1>0, <2>2, SMTT(30) DEF RebuildTestFailed
    <2>3. CASE RebuildTested(i) \/ RebuildRaised(i)
        BY <1>0, <2>3, SMTT(30) DEF RebuildTested, RebuildRaised
    <2>4. CASE RebuildBackTested(i) \/ RebuildReloaded(i) \/ RebuildReloadFailed(i)
        BY <1>0, <2>4, SMTT(30) DEF RebuildBackTested, RebuildReloaded, RebuildReloadFailed
    <2> QED
        BY <1>5, <2>1, <2>2, <2>3, <2>4 DEF RebuildStep
<1>6. CASE VhostStep(i)
    BY <1>0, <1>6, SMTT(30) DEF VhostStep, StartReload, ReloadTested, ReloadDone, WriteVhost,
        DeleteVhost
<1> QED
    BY <1>1, <1>2, <1>3, <1>4, <1>5, <1>6 DEF Handle

LEMMA HandleCert ==
    ASSUME TypeInv, CertInv, NEW i \in Conns, Handle(i)
    PROVE  CertInv'
<1>1. HandleFrame(i)
    BY HandleFrames
<1>2. \A d \in Domains : FilesOK(d)'
    BY HandleFiles
<1> QED
    BY <1>1, <1>2 DEF CertInv, FilesOK, HandleFrame

LEMMA RunCert ==
    ASSUME TypeInv, CertInv, NEW i \in Conns, Run(i)
    PROVE  CertInv'
<1> USE DEF CertInv, Executes, Outcome, diskVars
<1>0. /\ cert \in [Domains -> BOOLEAN] /\ pc \in [Conns -> Pcs]
      /\ res \in [Conns -> {"none", "run", "ok", "fail", "timeout"}]
      /\ pc[i] = "cert" => op[i] = "create" /\ dom[i] \in Domains
    BY DEF TypeInv, TypeOK, AgentTypeOK, RequestOK
<1>c. Command("cert") = "certbot" /\ (Command(pc[i]) = "certbot" => pc[i] = "cert")
    BY <1>0 DEF Command, Pcs
<1>1. CASE RunTest(i)
    BY <1>0, <1>c, <1>1 DEF RunTest
<1>2. CASE RunReload(i)
    BY <1>0, <1>c, <1>2 DEF RunReload, ReloadNginx
<1>3. CASE RunUseradd(i)
    BY <1>0, <1>c, <1>3 DEF RunUseradd
<1>4. CASE RunChown(i)
    BY <1>0, <1>c, <1>4 DEF RunChown
<1>5. CASE RunCertbot(i)
    BY <1>0, <1>c, <1>5 DEF RunCertbot
<1>6. CASE CertRefused(i)
    BY <1>0, <1>6 DEF CertRefused
<1>7. CASE CommandFails(i)
    BY <1>0, <1>c, <1>7 DEF CommandFails
<1>8. CASE CertIssued(i)
    BY <1>0, <1>8 DEF CertIssued, reqVars, hVars
<1>9. CASE DeployHook(i)
    BY <1>0, <1>9 DEF DeployHook, ReloadNginx, reqVars, hVars
<1> QED
    BY <1>1, <1>2, <1>3, <1>4, <1>5, <1>6, <1>7, <1>8, <1>9 DEF Run

LEMMA InterruptCert ==
    ASSUME TypeInv, CertInv,
           \/ \E i \in Conns : HandlerTimeout(i) \/ Refuse(i)
           \/ \E o \in orphans : OrphanRuns(o)
           \/ AgentCrash
           \/ InstallSnippet
    PROVE  CertInv'
<1> USE DEF CertInv, Reply, diskVars, reqVars, hVars
<1>0. /\ cert \in [Domains -> BOOLEAN] /\ pc \in [Conns -> Pcs]
      /\ bak \in [Domains -> Config]
      /\ res \in [Conns -> {"none", "run", "ok", "fail", "timeout"}]
    BY DEF TypeInv, TypeOK, AgentTypeOK
<1>1. ASSUME NEW i \in Conns, HandlerTimeout(i) PROVE CertInv'
    BY <1>0, <1>1 DEF HandlerTimeout, Tls
<1>2. ASSUME NEW i \in Conns, Refuse(i) PROVE CertInv'
    BY <1>0, <1>2 DEF Refuse, NoFiles
<1>3. ASSUME NEW o \in orphans, OrphanRuns(o) PROVE CertInv'
    <2>1. /\ UNCHANGED <<conf, disabled, bak, op, dom, pc, res>>
          /\ \A d \in Domains : cert[d] => cert'[d]
        BY <1>0, <1>3 DEF OrphanRuns
    <2>2. live' = live \/ live' = conf
        BY <1>3 DEF OrphanRuns, ReloadNginx
    <2>3. \A i \in Conns : op[i] = "create" /\ pc[i] = "cert" => dom[i] \in Domains
        BY DEF TypeInv, RequestOK
    <2> QED
        BY <2>1, <2>2, <2>3
<1>4. CASE AgentCrash
    BY <1>0, <1>4 DEF AgentCrash
<1>5. CASE InstallSnippet
    BY <1>0, <1>5 DEF InstallSnippet
<1> QED
    BY <1>1, <1>2, <1>3, <1>4, <1>5

\* The endpoints write no file: they only start and end requests, on
\* connections whose handler is idle.
ApiFrame(i) ==
    /\ UNCHANGED <<conf, disabled, bak, live, cert, res>>
    /\ \A j \in Conns \ {i} : op'[j] = op[j] /\ dom'[j] = dom[j] /\ pc'[j] = pc[j]
    /\ \/ pc[i] = "idle" /\ pc'[i] \in {"idle", "queued"}
       \/ UNCHANGED <<op, dom, pc>>

LEMMA ApiFrames ==
    ASSUME TypeInv, NEW i \in Conns, Request(i) \/ Respond(i) \/ ClientTimeout(i)
    PROVE  ApiFrame(i)
<1>0. /\ pc \in [Conns -> Pcs] /\ op \in [Conns -> AllOps \cup {"none"}]
      /\ dom \in [Conns -> Domains \cup {NoDomain}]
      /\ api[i] \in {"derive", "recheck"} => pc[i] = "idle"
    BY DEF TypeInv, TypeOK, AgentTypeOK, RequestOK
<1>1. ApiFrame(i)
    <2> USE DEF ApiFrame, MayStart, InUse, Submit, BeginOn, Finish, Receive, GiveUp, diskVars, reqVars,
                hVars, dbVars
    <2>1. CASE Request(i)
        <3>1. CASE \E d \in Domains : LegacyDelete(i, d)
            BY <3>1 DEF LegacyDelete, agentVars
        <3>2. CASE \E d \in Domains : BeginCreate(i, d)
            BY <1>0, <3>2 DEF BeginCreate
        <3>3. CASE ~(\E d \in Domains : LegacyDelete(i, d) \/ BeginCreate(i, d))
            <4>1. ASSUME NEW o, NEW d, NEW u, Submit(i, o, d, u)
                  PROVE  ApiFrame(i)
                BY <1>0, <4>1
            <4>2. \E o, d, u : Submit(i, o, d, u)
                <5> HIDE DEF Submit
                <5>1. \/ \E o : \E d \in Domains : BeginOn(i, o, d)
                      \/ \E o : BeginVhost(i, o)
                    <6> HIDE DEF BeginOn
                    <6> QED
                        BY <2>1, <3>3 DEF Request, BeginDelete, BeginSuspend,
                            BeginUnsuspend, BeginRebuild
                <5> QED
                    BY <5>1 DEF BeginVhost
            <4> QED
                BY <4>1, <4>2
        <3> QED
            BY <3>1, <3>2, <3>3
    <2>2. CASE Respond(i)
        BY <1>0, <2>2, SMTT(30) DEF Respond, DeriveUsername, RecheckConflict, CallCreate,
            CommitCreate, CommitDelete, CommitStatus, CommitRebuild, VhostDone, CommitFailed,
            AgentFailed
    <2>3. CASE ClientTimeout(i)
        BY <2>3 DEF ClientTimeout
    <2> QED
        BY <2>1, <2>2, <2>3
<1> QED
    BY <1>1

LEMMA ApiCert ==
    ASSUME TypeInv, CertInv, NEW i \in Conns, Request(i) \/ Respond(i) \/ ClientTimeout(i)
    PROVE  CertInv'
<1>1. ApiFrame(i)
    BY ApiFrames
<1> QED
    BY <1>1 DEF ApiFrame, CertInv

LEMMA SpecCertInv == Spec => []CertInv
<1>1. Init => CertInv
    BY DEF Init, AgentInit, CertInv, Tls
<1>2. TypeInv /\ CertInv /\ [Next]_vars => CertInv'
    <2> SUFFICES ASSUME TypeInv, CertInv, [Next]_vars PROVE CertInv'
        OBVIOUS
    <2>1. CASE AgentStep
        BY <2>1, HandleCert, RunCert, InterruptCert DEF AgentStep
    <2>2. ASSUME NEW i \in Conns, Request(i) \/ Respond(i) \/ ClientTimeout(i) PROVE CertInv'
        BY <2>2, ApiCert
    <2>3. CASE UNCHANGED vars
        BY <2>3 DEF vars, agentVars, CertInv
    <2> QED
        BY <2>1, <2>2, <2>3 DEF Next
<1> QED
    BY <1>1, <1>2, SpecTypeInv, PTL DEF Spec

\* No config that names a certificate is ever in place, preserved, backed up
\* or loaded without the certificate, after any failed command, cancelled
\* handler, orphaned certbot, crash or interleaving of requests.
THEOREM SpecTlsHasCert == Spec => []TlsHasCert
<1>1. CertInv => TlsHasCert
    BY DEF CertInv, TlsHasCert
<1> QED
    BY <1>1, SpecCertInv, PTL

-----------------------------------------------------------------------------
(* Rows *)

\* The row a request has read is there as long as the request holds it.
HeldInv ==
    \A i \in held :
        /\ api[i] = "wait" /\ op[i] \in {"delete", "suspend", "unsuspend", "rebuild"}
        /\ rowStatus[dom[i]] # "absent" /\ rowUser[dom[i]] # NoUser

LEMMA AgentHeld ==
    ASSUME TypeInv, HeldInv, AgentStep, UNCHANGED <<dbVars, apiVars>>
    PROVE  HeldInv'
<1>1. UNCHANGED <<op, dom>>
    <2>1. ASSUME NEW i \in Conns, Handle(i) PROVE UNCHANGED <<op, dom>>
        BY <2>1, HandleFrames DEF HandleFrame
    <2>2. ASSUME NEW i \in Conns, Run(i) PROVE UNCHANGED <<op, dom>>
        BY <2>2 DEF Run, RunTest, RunReload, RunUseradd, RunChown, RunCertbot, CertRefused,
            CommandFails, CertIssued, DeployHook, reqVars, Outcome
    <2>3. ASSUME NEW i \in Conns, HandlerTimeout(i) \/ Refuse(i) PROVE UNCHANGED <<op, dom>>
        BY <2>3 DEF HandlerTimeout, Refuse, reqVars
    <2>4. ASSUME NEW o \in orphans, OrphanRuns(o) PROVE UNCHANGED <<op, dom>>
        BY <2>4 DEF OrphanRuns, reqVars
    <2>5. AgentCrash \/ InstallSnippet => UNCHANGED <<op, dom>>
        BY DEF AgentCrash, InstallSnippet, reqVars
    <2> QED
        BY <2>1, <2>2, <2>3, <2>4, <2>5 DEF AgentStep
<1> QED
    BY <1>1 DEF HeldInv, dbVars, apiVars

LEMMA ApiHeld ==
    ASSUME TypeInv, HeldInv, NEW i \in Conns, Request(i) \/ Respond(i) \/ ClientTimeout(i)
    PROVE  HeldInv'
<1> USE DEF Finish, Receive, GiveUp, Submit, MayStart, InUse, BeginOn, diskVars, reqVars,
            hVars, dbVars
<1>0. /\ op \in [Conns -> AllOps \cup {"none"}] /\ dom \in [Conns -> Domains \cup {NoDomain}]
      /\ usr \in [Conns -> Users \cup {NoUser}] /\ held \subseteq Conns
      /\ api \in [Conns -> {"idle", "derive", "recheck", "wait"}]
      /\ rowStatus \in [Domains -> {"absent", "active", "suspended"}]
      /\ rowUser \in [Domains -> Users \cup {NoUser}]
      /\ op[i] \in {"create", "delete", "suspend", "unsuspend", "rebuild"} => dom[i] \in Domains
      /\ op[i] = "create" /\ api[i] \in {"recheck", "wait"} => usr[i] \in Users
      /\ \A j \in held : dom[j] \in Domains
      /\ NoUser \notin Users
    BY UsersAssumption DEF TypeInv, TypeOK, AgentTypeOK, RequestOK, HeldInv
<1>1. ASSUME NEW d \in Domains, BeginCreate(i, d) PROVE HeldInv'
    BY <1>0, <1>1 DEF BeginCreate, HeldInv
<1>2. ASSUME NEW d \in Domains, NEW o, BeginOn(i, o, d),
             o \in {"delete", "suspend", "unsuspend", "rebuild"}
      PROVE  HeldInv'
    BY <1>0, <1>2 DEF HeldInv
<1>3. ASSUME NEW d \in Domains, LegacyDelete(i, d) PROVE HeldInv'
    BY <1>0, <1>3 DEF LegacyDelete, HeldInv, agentVars, apiVars
<1>4. ASSUME NEW o, BeginVhost(i, o) PROVE HeldInv'
    BY <1>0, <1>4 DEF BeginVhost, HeldInv
<1>5. CASE DeriveUsername(i) \/ RecheckConflict(i) \/ CallCreate(i)
    BY <1>0, <1>5 DEF DeriveUsername, RecheckConflict, CallCreate, HeldInv
<1>6. CASE CommitCreate(i)
    BY <1>0, <1>6 DEF CommitCreate, HeldInv
<1>7. CASE CommitDelete(i)
    BY <1>0, <1>7 DEF CommitDelete, HeldInv
<1>8. CASE CommitStatus(i)
    BY <1>0, <1>8 DEF CommitStatus, HeldInv
<1>9. CASE CommitRebuild(i) \/ VhostDone(i) \/ CommitFailed(i) \/ AgentFailed(i)
    BY <1>0, <1>9 DEF CommitRebuild, VhostDone, CommitFailed, AgentFailed, HeldInv
<1>10. CASE ClientTimeout(i)
    BY <1>0, <1>10 DEF ClientTimeout, HeldInv
<1> QED
    <2>1. CASE Request(i)
        BY <2>1, <1>1, <1>2, <1>3, <1>4 DEF Request, BeginDelete, BeginSuspend,
            BeginUnsuspend, BeginRebuild
    <2>2. CASE Respond(i)
        BY <2>2, <1>5, <1>6, <1>7, <1>8, <1>9 DEF Respond
    <2> QED
        BY <2>1, <2>2, <1>10

LEMMA SpecHeldInv == Spec => []HeldInv
<1>1. Init => HeldInv
    BY DEF Init, HeldInv
<1>2. TypeInv /\ HeldInv /\ [Next]_vars => HeldInv'
    <2> SUFFICES ASSUME TypeInv, HeldInv, [Next]_vars PROVE HeldInv'
        OBVIOUS
    <2>1. CASE UNCHANGED vars
        BY <2>1 DEF vars, agentVars, dbVars, apiVars, HeldInv
    <2> QED
        BY <2>1, AgentHeld, ApiHeld DEF Next
<1> QED
    BY <1>1, <1>2, SpecTypeInv, PTL DEF Spec

-----------------------------------------------------------------------------
(* Linux users *)

LEMMA HandleUser ==
    ASSUME TypeInv, UserInv, NEW i \in Conns, Handle(i), UNCHANGED <<dbVars, apiVars>>
    PROVE  UserInv'
<1>0. /\ pc \in [Conns -> Pcs] /\ chan \in [Conns -> {"closed", "open", "ok", "error"}]
      /\ res \in [Conns -> {"none", "run", "ok", "fail", "timeout"}]
    BY DEF TypeInv, TypeOK, AgentTypeOK
<1>1. HandleFrame(i)
    BY HandleFrames
<1>2. RowsHaveOwnUser'
    BY <1>1 DEF UserInv, RowsHaveOwnUser, Rows, HandleFrame, dbVars
<1>3. ASSUME op[i] = "create", HasUser(i)' PROVE HasUser(i)
    <2>1. CreateStep(i)
        BY <1>3 DEF Handle, DeleteStep, SuspendStep, UnsuspendStep, RebuildStep, VhostStep,
            StartDelete, DeleteTested, DeleteReloaded, DeleteAborted, StartSuspend,
            SuspendTested, SuspendTestFailed, SuspendReloaded, SuspendAborted,
            StartUnsuspend, UnsuspendTested, UnsuspendTestFailed, UnsuspendReloaded,
            UnsuspendAborted, StartRebuild, RebuildTested, RebuildTestFailed,
            RebuildBackTested, RebuildRaised, RebuildReloaded, RebuildReloadFailed,
            StartReload, ReloadTested, ReloadDone, WriteVhost, DeleteVhost, Start, Resume
    <2>2. CASE pc[i] \in {"queued", "user"}
        BY <1>0, <1>3, <2>1, <2>2, SMTT(30) DEF CreateStep, StartCreate, CreateUserDone,
            CreateChownDone, CreateSetupFailed, CreateTested, CreateTestFailed,
            CreateReloaded, CreateCertIssued, CreateCertFailed, CreateTlsTested,
            CreateTlsTestFailed, CreateTlsReloaded, CreateBackTested, CreateBackDone,
            CreateAborted, Start, Resume, Await, Reply, HasUser
    <2>3. CASE pc[i] = "idle"
        BY <2>1, <2>3, SMTT(30) DEF CreateStep, StartCreate, CreateUserDone,
            CreateChownDone, CreateSetupFailed, CreateTested, CreateTestFailed,
            CreateReloaded, CreateCertIssued, CreateCertFailed, CreateTlsTested,
            CreateTlsTestFailed, CreateTlsReloaded, CreateBackTested, CreateBackDone,
            CreateAborted, Start, Resume
    <2> QED
        BY <2>2, <2>3 DEF HasUser
<1>4. \A j \in Conns : op'[j] = "create" /\ HasUser(j)' => op[j] = "create" /\ HasUser(j)
    BY <1>1, <1>3 DEF HandleFrame, HasUser
<1> QED
    BY <1>1, <1>2, <1>4 DEF UserInv, HandleFrame, apiVars

LEMMA RunUser ==
    ASSUME TypeInv, UserInv, NEW i \in Conns, Run(i), UNCHANGED <<dbVars, apiVars>>
    PROVE  UserInv'
<1> USE DEF Executes, Outcome, diskVars
<1>0. /\ pc \in [Conns -> Pcs]
      /\ res \in [Conns -> {"none", "run", "ok", "fail", "timeout"}]
    BY DEF TypeInv, TypeOK, AgentTypeOK
<1>c. Command("user") = "useradd"
    BY DEF Command
<1>1. /\ osUsers \subseteq osUsers' /\ UNCHANGED <<op, usr, pc, chan>>
      /\ \A j \in Conns \ {i} : res'[j] = res[j]
    BY <1>0 DEF Run, RunTest, RunReload, RunUseradd, RunChown, RunCertbot, CertRefused,
        CommandFails, CertIssued, DeployHook, reqVars, hVars
<1>2. ASSUME pc[i] = "user", res'[i] = "ok" PROVE usr[i] \in osUsers'
    <2>1. CASE RunUseradd(i)
        BY <2>1 DEF RunUseradd
    <2>2. CASE CommandFails(i)
        BY <1>0, <1>2, <2>2 DEF CommandFails
    <2>3. /\ ~RunTest(i) /\ ~RunReload(i) /\ ~RunChown(i) /\ ~RunCertbot(i)
          /\ ~CertRefused(i) /\ ~CertIssued(i) /\ ~DeployHook(i)
        BY <1>c, <1>2 DEF RunTest, RunReload, RunChown, RunCertbot, CertRefused, CertIssued,
            DeployHook
    <2> QED
        BY <2>1, <2>2, <2>3 DEF Run
<1>3. RowsHaveOwnUser'
    BY <1>1 DEF UserInv, RowsHaveOwnUser, Rows, dbVars
<1> QED
    BY <1>1, <1>2, <1>3 DEF UserInv, HasUser, apiVars

LEMMA InterruptUser ==
    ASSUME TypeInv, UserInv, UNCHANGED <<dbVars, apiVars>>,
           \/ \E i \in Conns : HandlerTimeout(i) \/ Refuse(i)
           \/ \E o \in orphans : OrphanRuns(o)
           \/ AgentCrash
           \/ InstallSnippet
    PROVE  UserInv'
<1> USE DEF Reply, NoFiles, diskVars, reqVars, hVars
<1>0. /\ pc \in [Conns -> Pcs] /\ chan \in [Conns -> {"closed", "open", "ok", "error"}]
      /\ res \in [Conns -> {"none", "run", "ok", "fail", "timeout"}]
    BY DEF TypeInv, TypeOK, AgentTypeOK
<1>1. /\ osUsers \subseteq osUsers' /\ UNCHANGED <<op, usr>>
      /\ \A j \in Conns : chan[j] = "closed" => chan'[j] = "closed"
    <2>1. ASSUME NEW i \in Conns, HandlerTimeout(i) \/ Refuse(i)
          PROVE  /\ UNCHANGED <<osUsers, op, usr>>
                 /\ \A j \in Conns : chan[j] = "closed" => chan'[j] = "closed"
        BY <1>0, <2>1 DEF HandlerTimeout, Refuse
    <2>2. ASSUME NEW o \in orphans, OrphanRuns(o)
          PROVE  osUsers \subseteq osUsers' /\ UNCHANGED <<op, usr, chan>>
        BY <2>2 DEF OrphanRuns
    <2>3. AgentCrash \/ InstallSnippet =>
            /\ UNCHANGED <<osUsers, op, usr>>
            /\ \A j \in Conns : chan[j] = "closed" => chan'[j] = "closed"
        BY DEF AgentCrash, InstallSnippet
    <2> QED
        BY <2>1, <2>2, <2>3
<1>2. \A j \in Conns : HasUser(j)' => HasUser(j)
    <2>1. ASSUME NEW i \in Conns, HandlerTimeout(i) \/ Refuse(i), NEW j \in Conns, HasUser(j)'
          PROVE  HasUser(j)
        BY <1>0, <2>1 DEF HandlerTimeout, Refuse, HasUser
    <2>2. ASSUME NEW o \in orphans, OrphanRuns(o), NEW j \in Conns, HasUser(j)'
          PROVE  HasUser(j)
        BY <2>2 DEF OrphanRuns, HasUser
    <2>3. ASSUME AgentCrash, NEW j \in Conns, HasUser(j)' PROVE HasUser(j)
        BY <1>0, <2>3 DEF AgentCrash, HasUser
    <2>4. ASSUME InstallSnippet, NEW j \in Conns, HasUser(j)' PROVE HasUser(j)
        BY <2>4 DEF InstallSnippet, HasUser
    <2> QED
        BY <2>1, <2>2, <2>3, <2>4
<1>3. RowsHaveOwnUser'
    BY <1>1 DEF UserInv, RowsHaveOwnUser, Rows, dbVars
<1> QED
    BY <1>1, <1>2, <1>3 DEF UserInv, apiVars

LEMMA RequestUser ==
    ASSUME TypeInv, UserInv, NEW i \in Conns, Request(i)
    PROVE  UserInv'
<1> USE DEF MayStart, InUse, Submit, BeginOn, diskVars, hVars, dbVars
<1>0. /\ pc \in [Conns -> Pcs] /\ op \in [Conns -> AllOps \cup {"none"}]
      /\ usr \in [Conns -> Users \cup {NoUser}]
      /\ api \in [Conns -> {"idle", "derive", "recheck", "wait"}]
      /\ chan \in [Conns -> {"closed", "open", "ok", "error"}]
      /\ rowStatus \in [Domains -> {"absent", "active", "suspended"}]
    BY DEF TypeInv, TypeOK, AgentTypeOK
<1>1. /\ UNCHANGED osUsers
      /\ \A j \in Conns : HasUser(j)' => op'[j] = op[j] /\ usr'[j] = usr[j] /\ HasUser(j)
      /\ \A j \in Conns : api'[j] \in {"derive", "recheck"} => chan'[j] = "closed"
    <2> USE DEF UserInv
    <2>1. CASE \E d \in Domains : LegacyDelete(i, d)
        BY <2>1 DEF LegacyDelete, agentVars, apiVars, HasUser
    <2>2. CASE \E d \in Domains : BeginCreate(i, d)
        BY <1>0, <2>2, SMTT(30) DEF BeginCreate, HasUser
    <2>3. CASE ~(\E d \in Domains : LegacyDelete(i, d) \/ BeginCreate(i, d))
        <3>1. /\ pc'[i] = "queued" /\ chan'[i] = "open" /\ UNCHANGED <<osUsers, res>>
              /\ api' = [api EXCEPT ![i] = "wait"]
              /\ \A j \in Conns \ {i} : /\ op'[j] = op[j] /\ usr'[j] = usr[j]
                                        /\ pc'[j] = pc[j] /\ chan'[j] = chan[j]
            BY <1>0, <2>3, SMTT(30) DEF Request, BeginDelete, BeginSuspend, BeginUnsuspend,
                BeginRebuild, BeginVhost
        <3> QED
            BY <1>0, <3>1 DEF HasUser
    <2> QED
        BY <2>1, <2>2, <2>3
<1>2. Rows' \subseteq Rows /\ UNCHANGED rowUser
    BY <1>0, SMTT(30) DEF Request, BeginCreate, BeginDelete, BeginSuspend, BeginUnsuspend,
        BeginRebuild, LegacyDelete, BeginVhost, agentVars, Rows
<1>3. RowsHaveOwnUser'
    BY <1>1, <1>2 DEF UserInv, RowsHaveOwnUser
<1> QED
    BY <1>1, <1>3 DEF UserInv

\* The unique columns and the reply that only follows useradd's success.
LEMMA CommitCreateUser ==
    ASSUME TypeInv, UserInv, NEW i \in Conns, CommitCreate(i)
    PROVE  RowsHaveOwnUser'
<1> USE DEF CommitCreate, Finish, Receive, diskVars
<1>0. /\ rowStatus \in [Domains -> {"absent", "active", "suspended"}]
      /\ rowUser \in [Domains -> Users \cup {NoUser}]
      /\ dom[i] \in Domains /\ usr[i] \in Users /\ op[i] = "create"
    BY DEF TypeInv, TypeOK, RequestOK
<1>1. usr[i] \in osUsers /\ UNCHANGED osUsers
    BY <1>0 DEF UserInv, HasUser
<1>2. usr[i] \notin {rowUser[d] : d \in Rows}
    BY <1>0, UsersAssumption DEF Insertable, TakenUsers
<1>3. Rows' = Rows \cup {dom[i]} /\ dom[i] \notin Rows
    BY <1>0 DEF Rows, Insertable
<1>4. \A d \in Domains : rowUser'[d] = IF d = dom[i] THEN usr[i] ELSE rowUser[d]
    BY <1>0
<1>5. RowsHaveOwnUser
    BY DEF UserInv
<1>6. ASSUME NEW d \in Rows', rowUser'[d] # NoUser PROVE rowUser'[d] \in osUsers'
    <2>1. d \in Domains
        BY DEF Rows
    <2> QED
        BY <1>1, <1>3, <1>4, <1>5, <1>6, <2>1 DEF RowsHaveOwnUser
<1>7. ASSUME NEW d \in Rows', NEW e \in Rows', d # e, rowUser'[d] # NoUser
      PROVE  rowUser'[d] # rowUser'[e]
    <2>1. d \in Domains /\ e \in Domains
        BY DEF Rows
    <2>2. \A c \in Rows : usr[i] # rowUser[c]
        BY <1>2
    <2> QED
        BY <1>3, <1>4, <1>5, <1>7, <2>1, <2>2 DEF RowsHaveOwnUser
<1> QED
    BY <1>6, <1>7 DEF RowsHaveOwnUser

LEMMA RespondUser ==
    ASSUME TypeInv, HeldInv, UserInv, NEW i \in Conns, Respond(i) \/ ClientTimeout(i)
    PROVE  UserInv'
<1> USE DEF Finish, Receive, GiveUp, Submit, diskVars, reqVars, hVars, dbVars
<1>0. /\ pc \in [Conns -> Pcs] /\ chan \in [Conns -> {"closed", "open", "ok", "error"}]
      /\ op \in [Conns -> AllOps \cup {"none"}]
      /\ usr \in [Conns -> Users \cup {NoUser}]
      /\ api \in [Conns -> {"idle", "derive", "recheck", "wait"}]
      /\ rowStatus \in [Domains -> {"absent", "active", "suspended"}]
      /\ rowUser \in [Domains -> Users \cup {NoUser}]
      /\ api[i] \in {"derive", "recheck"} => pc[i] = "idle"
    BY DEF TypeInv, TypeOK, AgentTypeOK, RequestOK
<1>a. CASE DeriveUsername(i) \/ RecheckConflict(i)
    <2>1. /\ chan[i] = "closed" /\ pc[i] = "idle" /\ UNCHANGED <<osUsers, pc, chan, res, dbVars>>
          /\ \A j \in Conns \ {i} : op'[j] = op[j] /\ usr'[j] = usr[j] /\ api'[j] = api[j]
        BY <1>0, <1>a DEF DeriveUsername, RecheckConflict, UserInv
    <2> QED
        BY <2>1 DEF UserInv, HasUser, RowsHaveOwnUser, Rows
<1>b. CASE CallCreate(i) \/ ClientTimeout(i)
    <2>1. /\ UNCHANGED <<osUsers, res, dbVars>>
          /\ api'[i] \in {"idle", "wait"}
          /\ \A j \in Conns \ {i} : /\ op'[j] = op[j] /\ usr'[j] = usr[j] /\ api'[j] = api[j]
                                    /\ pc'[j] = pc[j] /\ chan'[j] = chan[j]
          /\ \/ pc'[i] = "queued" /\ chan'[i] = "open"
             \/ UNCHANGED <<op, usr, pc>> /\ chan'[i] = "closed"
        BY <1>0, <1>b DEF CallCreate, ClientTimeout
    <2> QED
        BY <2>1 DEF UserInv, HasUser, RowsHaveOwnUser, Rows
<1>c. CASE Finish(i, "ok") \/ Finish(i, "error")
    <2>1. /\ UNCHANGED <<osUsers, res, pc>> /\ op'[i] = "none" /\ api'[i] = "idle"
          /\ \A j \in Conns \ {i} : /\ op'[j] = op[j] /\ usr'[j] = usr[j] /\ api'[j] = api[j]
                                    /\ chan'[j] = chan[j]
        BY <1>0, <1>c
    <2>2. RowsHaveOwnUser' => UserInv'
        BY <2>1 DEF UserInv, HasUser
    <2>3. CASE CommitCreate(i)
        BY <2>2, <2>3, CommitCreateUser
    <2>4. CASE ~CommitCreate(i)
        <3>1. /\ ~DeriveUsername(i) /\ ~RecheckConflict(i) /\ ~CallCreate(i)
              /\ ~ClientTimeout(i)
            BY <1>0, <1>c DEF DeriveUsername, RecheckConflict, CallCreate, ClientTimeout
        <3>2. Rows' \subseteq Rows /\ \A d \in Rows' : rowUser'[d] = rowUser[d]
            BY <1>0, <2>4, <3>1, SMTT(30) DEF Respond, CommitDelete, CommitStatus,
                CommitRebuild, VhostDone, CommitFailed, AgentFailed, Rows, HeldInv
        <3> QED
            BY <2>1, <2>2, <3>2 DEF UserInv, RowsHaveOwnUser
    <2> QED
        BY <2>3, <2>4
<1> QED
    BY <1>a, <1>b, <1>c DEF Respond, CommitCreate, CommitDelete, CommitStatus,
        CommitRebuild, VhostDone, CommitFailed, AgentFailed

LEMMA SpecUserInv == Spec => []UserInv
<1>1. Init => UserInv
    BY DEF Init, AgentInit, UserInv, HasUser, RowsHaveOwnUser, Rows
<1>2. TypeInv /\ HeldInv /\ UserInv /\ [Next]_vars => UserInv'
    <2> SUFFICES ASSUME TypeInv, HeldInv, UserInv, [Next]_vars PROVE UserInv'
        OBVIOUS
    <2>1. CASE AgentStep /\ UNCHANGED <<dbVars, apiVars>>
        BY <2>1, HandleUser, RunUser, InterruptUser DEF AgentStep
    <2>2. ASSUME NEW i \in Conns, Request(i) \/ Respond(i) \/ ClientTimeout(i) PROVE UserInv'
        BY <2>2, RequestUser, RespondUser
    <2>3. CASE UNCHANGED vars
        BY <2>3 DEF vars, agentVars, dbVars, apiVars, UserInv, HasUser, RowsHaveOwnUser, Rows
    <2> QED
        BY <2>1, <2>2, <2>3 DEF Next
<1> QED
    BY <1>1, <1>2, SpecTypeInv, SpecHeldInv, PTL DEF Spec

\* Whatever races, fails or is cancelled, every recorded domain has a Linux
\* user that exists, and no two recorded domains have the same one.
THEOREM SpecRowsHaveOwnUser == Spec => []RowsHaveOwnUser
<1>1. UserInv => RowsHaveOwnUser
    BY DEF UserInv
<1> QED
    BY <1>1, SpecUserInv, PTL

-----------------------------------------------------------------------------
(***************************************************************************)
(* rebuild_domain's backup file.  A handler inside the try statement keeps *)
(* the backup, and every way out of the statement, by reply, exception or  *)
(* cancellation, drops it; only the death of the process does not.         *)
(***************************************************************************)

\* The handler of i is inside the try statement of a rebuild of d.
InTry(i, d) ==
    /\ op[i] = "rebuild" /\ dom[i] = d
    /\ pc[i] \in {"test", "testBack", "reloadBack"}

\* A step of i keeps its hands off other domains' backups and, when it is or
\* gets outside the try statement, leaves none of its own.
BackupFrame(i) ==
    /\ UNCHANGED <<op, dom>>
    /\ \A j \in Conns \ {i} : pc'[j] = pc[j]
    /\ \A d \in Domains : bak'[d] # "none" =>
        InTry(i, d)' \/ (bak[d] # "none" /\ ~InTry(i, d))

LEMMA BackupFrameKeeps ==
    ASSUME BackupIsTransient, NEW i \in Conns, BackupFrame(i)
    PROVE  BackupIsTransient'
<1> SUFFICES ASSUME NEW d \in Domains, bak'[d] # "none"
             PROVE  \E j \in Conns : InTry(j, d)'
    BY DEF BackupIsTransient, InTry
<1>1. CASE InTry(i, d)'
    BY <1>1
<1>2. CASE bak[d] # "none" /\ ~InTry(i, d)
    <2>1. PICK j \in Conns : InTry(j, d)
        BY <1>2 DEF BackupIsTransient, InTry
    <2>2. j # i
        BY <1>2, <2>1
    <2> QED
        BY <2>1, <2>2 DEF BackupFrame, InTry
<1> QED
    BY <1>1, <1>2 DEF BackupFrame

LEMMA HandleBackup ==
    ASSUME TypeInv, NEW i \in Conns, Handle(i)
    PROVE  BackupFrame(i)
<1>0. /\ pc \in [Conns -> Pcs] /\ bak \in [Domains -> Config]
      /\ UNCHANGED <<op, dom>> /\ \A j \in Conns \ {i} : pc'[j] = pc[j]
    BY HandleFrames DEF HandleFrame, TypeInv, TypeOK, AgentTypeOK
<1>1. CASE op[i] # "rebuild"
    <2>1. bak' = bak
        <3> USE DEF Resume, Start, NoFiles, diskVars
        <3>1. ~RebuildStep(i)
            BY <1>1 DEF RebuildStep, StartRebuild, RebuildTested, RebuildTestFailed,
                RebuildBackTested, RebuildRaised, RebuildReloaded, RebuildReloadFailed
        <3>2. CASE CreateStep(i)
            BY <3>2, SMTT(30) DEF CreateStep, StartCreate, CreateUserDone, CreateChownDone,
                CreateSetupFailed, CreateTested, CreateTestFailed, CreateReloaded,
                CreateCertIssued, CreateCertFailed, CreateTlsTested, CreateTlsTestFailed,
                CreateTlsReloaded, CreateBackTested, CreateBackDone, CreateAborted
        <3>3. CASE DeleteStep(i)
            BY <3>3 DEF DeleteStep, StartDelete, DeleteTested, DeleteReloaded, DeleteAborted
        <3>4. CASE SuspendStep(i)
            BY <3>4 DEF SuspendStep, StartSuspend, SuspendTested, SuspendTestFailed,
                SuspendReloaded, SuspendAborted
        <3>5. CASE UnsuspendStep(i)
            BY <3>5 DEF UnsuspendStep, StartUnsuspend, UnsuspendTested, UnsuspendTestFailed,
                UnsuspendReloaded, UnsuspendAborted
        <3>6. CASE VhostStep(i)
            BY <3>6 DEF VhostStep, StartReload, ReloadTested, ReloadDone, WriteVhost,
                DeleteVhost
        <3> QED
            BY <3>1, <3>2, <3>3, <3>4, <3>5, <3>6 DEF Handle
    <2> QED
        BY <1>0, <1>1, <2>1 DEF BackupFrame, InTry
<1>2. CASE op[i] = "rebuild"
    <2>0. RebuildStep(i)
        <3> USE <1>2 DEF Resume, Start
        <3>1. ~CreateStep(i)
            BY DEF CreateStep, StartCreate, CreateUserDone, CreateChownDone,
                CreateSetupFailed, CreateTested, CreateTestFailed, CreateReloaded,
                CreateCertIssued, CreateCertFailed, CreateTlsTested, CreateTlsTestFailed,
                CreateTlsReloaded, CreateBackTested, CreateBackDone, CreateAborted
        <3>2. ~DeleteStep(i) /\ ~SuspendStep(i)
            BY DEF DeleteStep, StartDelete, DeleteTested, DeleteReloaded, DeleteAborted,
                SuspendStep, StartSuspend, SuspendTested, SuspendTestFailed, SuspendReloaded,
                SuspendAborted
        <3>3. ~UnsuspendStep(i) /\ ~VhostStep(i)
            BY DEF UnsuspendStep, StartUnsuspend, UnsuspendTested, UnsuspendTestFailed,
                UnsuspendReloaded, UnsuspendAborted, VhostStep, StartReload, ReloadTested,
                ReloadDone, WriteVhost, DeleteVhost
        <3> QED
            BY <3>1, <3>2, <3>3 DEF Handle
    <2> USE DEF Resume, Start, NoFiles, diskVars, Await, Reply, BackupFrame, InTry
    <2>1. CASE StartRebuild(i)
        BY <1>0, <1>2, <2>1 DEF StartRebuild
    <2>2. CASE RebuildTested(i) \/ RebuildRaised(i)
        BY <1>0, <1>2, <2>2, SMTT(30) DEF RebuildTested, RebuildRaised
    <2>3. CASE RebuildTestFailed(i)
        BY <1>0, <1>2, <2>3, SMTT(30) DEF RebuildTestFailed
    <2>4. CASE RebuildBackTested(i) \/ RebuildReloaded(i) \/ RebuildReloadFailed(i)
        BY <1>0, <1>2, <2>4, SMTT(30) DEF RebuildBackTested, RebuildReloaded,
            RebuildReloadFailed
    <2> QED
        BY <2>0, <2>1, <2>2, <2>3, <2>4 DEF RebuildStep
<1> QED
    BY <1>1, <1>2

\* Commands, what interrupts a handler, and the client end.
LEMMA OtherBackup ==
    ASSUME TypeInv, NEW i \in Conns,
           \/ Run(i) \/ HandlerTimeout(i) \/ Refuse(i)
           \/ Request(i) \/ Respond(i) \/ ClientTimeout(i)
    PROVE  BackupIsTransient => BackupIsTransient'
<1>0. pc \in [Conns -> Pcs] /\ bak \in [Domains -> Config]
    BY DEF TypeInv, TypeOK, AgentTypeOK
<1>1. CASE Run(i)
    <2>1. UNCHANGED <<bak, op, dom, pc>>
        BY <1>1 DEF Run, RunTest, RunReload, RunUseradd, RunChown, RunCertbot, CertRefused,
            CommandFails, CertIssued, DeployHook, Outcome, diskVars, reqVars, hVars
    <2> QED
        BY <2>1 DEF BackupIsTransient
<1>2. CASE HandlerTimeout(i) \/ Refuse(i)
    <2> DEFINE inTry == InTry(i, dom[i])
    <2>0. UNCHANGED <<op, dom>> /\ \A j \in Conns \ {i} : pc'[j] = pc[j]
        BY <1>0, <1>2 DEF HandlerTimeout, Refuse, Reply, reqVars
    <2>2. IF inTry THEN bak' = [bak EXCEPT ![dom[i]] = "none"] ELSE bak' = bak
        BY <1>2 DEF HandlerTimeout, Refuse, NoFiles, diskVars, InTry
    <2>1. BackupFrame(i)
        BY <1>0, <2>0, <2>2 DEF BackupFrame, InTry
    <2> QED
        BY <2>1, BackupFrameKeeps
<1>3. CASE Request(i) \/ Respond(i) \/ ClientTimeout(i)
    <2>1. ApiFrame(i)
        BY <1>3, ApiFrames
    <2>2. CASE UNCHANGED <<op, dom, pc>>
        BY <2>1, <2>2 DEF ApiFrame, BackupIsTransient
    <2>3. CASE pc[i] = "idle"
        <3> SUFFICES ASSUME BackupIsTransient, NEW d \in Domains, bak'[d] # "none"
                     PROVE  \E j \in Conns : InTry(j, d)'
            BY DEF BackupIsTransient, InTry
        <3>1. PICK j \in Conns : InTry(j, d)
            BY <2>1 DEF ApiFrame, BackupIsTransient, InTry
        <3>2. j # i
            BY <2>3, <3>1 DEF InTry
        <3> QED
            BY <2>1, <3>1, <3>2 DEF ApiFrame, InTry
    <2> QED
        BY <2>1, <2>2, <2>3 DEF ApiFrame
<1> QED
    BY <1>1, <1>2, <1>3

\* As long as the agent does not die, .conf.bak exists only while a rebuild of
\* the domain is inside its try statement: no failed command, cancelled
\* handler, lost answer or second rebuild leaves one behind.
THEOREM SpecBackupIsTransient ==
    ASSUME "crash" \notin Faults
    PROVE  Spec => []BackupIsTransient
<1>1. Init => BackupIsTransient
    BY DEF Init, AgentInit, BackupIsTransient
<1>2. TypeInv /\ BackupIsTransient /\ [Next]_vars => BackupIsTransient'
    <2> SUFFICES ASSUME TypeInv, BackupIsTransient, [Next]_vars PROVE BackupIsTransient'
        OBVIOUS
    <2>1. ASSUME NEW i \in Conns, Handle(i) PROVE BackupIsTransient'
        BY <2>1, HandleBackup, BackupFrameKeeps
    <2>2. ASSUME NEW i \in Conns,
                 \/ Run(i) \/ HandlerTimeout(i) \/ Refuse(i)
                 \/ Request(i) \/ Respond(i) \/ ClientTimeout(i)
          PROVE  BackupIsTransient'
        BY <2>2, OtherBackup
    <2>3. ASSUME NEW o \in orphans, OrphanRuns(o) PROVE BackupIsTransient'
        BY <2>3 DEF OrphanRuns, reqVars, hVars, BackupIsTransient
    <2>4. ~AgentCrash
        BY DEF AgentCrash
    <2>5. CASE InstallSnippet
        BY <2>5 DEF InstallSnippet, reqVars, hVars, BackupIsTransient
    <2>6. CASE UNCHANGED vars
        BY <2>6 DEF vars, agentVars, BackupIsTransient
    <2> QED
        BY <2>1, <2>2, <2>3, <2>4, <2>5, <2>6 DEF Next, AgentStep
<1> QED
    BY <1>1, <1>2, SpecTypeInv, PTL DEF Spec

=============================================================================
