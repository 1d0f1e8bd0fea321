--------------------------- MODULE DomainApiProofs ---------------------------
(***************************************************************************)
(* Proofs about DomainApi for any domains, users, connections, operations, *)
(* candidate names, admitted failures and overlap of requests.             *)
(***************************************************************************)
EXTENDS DomainApi, WellFoundedInduction, TLAPS

\* A request about a domain names one, and a creation its user once derived.
RequestOK ==
    \A i \in Conns :
        /\ op[i] \in {"create", "delete", "suspend", "unsuspend", "rebuild"}
                => dom[i] \in Domains
        /\ op[i] = "create" /\ (pc[i] # "idle" \/ api[i] \in {"recheck", "wait"})
                => usr[i] \in Users
        /\ pc[i] \in {"user", "chown", "cert"} => op[i] = "create"
        /\ api[i] \in {"derive", "recheck"} => op[i] = "create" /\ pc[i] = "idle"

OrphanOK ==
    \A o \in orphans :
        /\ o.cmd \in {"useradd", "chown"} => o.usr \in Users
        /\ o.cmd \in {"certbot", "chown"} => o.dom \in Domains

TypeInv == TypeOK /\ RequestOK /\ OrphanOK

USE DEF TypeInv, TypeOK, AgentTypeOK, RequestOK, OrphanOK

\* Replacing one value of a function keeps its range.
LEMMA ExceptInRange ==
    ASSUME NEW S, NEW T, NEW f \in [S -> T], NEW i \in S, NEW b \in T
    PROVE  [f EXCEPT ![i] = b] \in [S -> T]
OBVIOUS

LEMMA InitType == Init => TypeInv
<1> SUFFICES ASSUME Init PROVE TypeInv
    OBVIOUS
<1> USE DEF Init, AgentInit
<1>1. conf \in [Domains -> Config] /\ live \in [Domains -> Config]
    BY DEF Config, Site
<1>2. disabled \in [Domains -> Config] /\ bak \in [Domains -> Config]
    BY DEF Config
<1>3. snippet \in BOOLEAN
    OBVIOUS
<1>4. AgentTypeOK
    BY <1>1, <1>2, <1>3 DEF Pcs
<1> QED
    BY <1>4

LEMMA CreateType ==
    ASSUME TypeInv, NEW i \in Conns, CreateStep(i), UNCHANGED <<dbVars, apiVars>>
    PROVE  TypeInv'
<1> USE DEF Resume, Start, Await, Reply, NoFiles, diskVars, dbVars, apiVars,
            Config, Site, Stub, Pcs
<1>1. CASE StartCreate(i)
    BY <1>1 DEF StartCreate
<1>2. CASE CreateUserDone(i)
    BY <1>2 DEF CreateUserDone
<1>3. CASE CreateChownDone(i)
    BY <1>3 DEF CreateChownDone
<1>4. CASE CreateSetupFailed(i)
    BY <1>4 DEF CreateSetupFailed
<1>5. CASE CreateTested(i)
    BY <1>5 DEF CreateTested
<1>6. CASE CreateTestFailed(i)
    BY <1>6 DEF CreateTestFailed
<1>7. CASE CreateReloaded(i)
    BY <1>7, SMTT(30) DEF CreateReloaded
<1>8. CASE CreateCertIssued(i)
    BY <1>8 DEF CreateCertIssued
<1>9. CASE CreateCertFailed(i)
    BY <1>9 DEF CreateCertFailed
<1>10. CASE CreateTlsTested(i)
    BY <1>10 DEF CreateTlsTested
<1>11. CASE CreateTlsTestFailed(i)
    BY <1>11 DEF CreateTlsTestFailed
<1>12. CASE CreateTlsReloaded(i)
    BY <1>12 DEF CreateTlsReloaded
<1>13. CASE CreateBackTested(i)
    BY <1>13 DEF CreateBackTested
<1>14. CASE CreateBackDone(i)
    BY <1>14 DEF CreateBackDone
<1>15. CASE CreateAborted(i)
    BY <1>15 DEF CreateAborted
<1> QED
    BY <1>1, <1>2, <1>3, <1>4, <1>5, <1>6, <1>7, <1>8, <1>9, <1>10, <1>11,
       <1>12, <1>13, <1>14, <1>15 DEF CreateStep

LEMMA DeleteType ==
    ASSUME TypeInv, NEW i \in Conns, DeleteStep(i), UNCHANGED <<dbVars, apiVars>>
    PROVE  TypeInv'
<1> USE DEF Resume, Start, Await, Reply, NoFiles, diskVars, dbVars, apiVars,
            Config, Site, Stub, Pcs
<1>1. CASE StartDelete(i)
    <2>1. /\ conf' \in [Domains -> Config] /\ disabled' \in [Domains -> Config]
          /\ owner' \in [Domains -> Users \cup {"absent", "root"}]
        BY <1>1 DEF StartDelete
    <2>2. CASE conf[dom[i]] # "none"
        BY <1>1, <2>1, <2>2 DEF StartDelete
    <2>3. CASE conf[dom[i]] = "none"
        BY <1>1, <2>1, <2>3, SMTT(30) DEF StartDelete
    <2> QED
        BY <2>2, <2>3
<1>2. CASE DeleteTested(i)
    BY <1>2 DEF DeleteTested
<1>3. CASE DeleteReloaded(i)
    BY <1>3 DEF DeleteReloaded
<1>4. CASE DeleteAborted(i)
    BY <1>4 DEF DeleteAborted
<1> QED
    BY <1>1, <1>2, <1>3, <1>4 DEF DeleteStep

LEMMA SuspendType ==
    ASSUME TypeInv, NEW i \in Conns, SuspendStep(i), UNCHANGED <<dbVars, apiVars>>
    PROVE  TypeInv'
<1> USE DEF Resume, Start, Await, Reply, NoFiles, diskVars, dbVars, apiVars,
            Config, Site, Stub, Pcs
<1>1. CASE StartSuspend(i)
    <2>1. dom[i] \in Domains
        BY <1>1 DEF StartSuspend
    <2>2. conf[dom[i]] \in Config /\ StubConfig(dom[i]) \in Config
        BY <2>1 DEF StubConfig
    <2>3. conf' \in [Domains -> Config] /\ disabled' \in [Domains -> Config]
        BY <1>1, <2>2 DEF StartSuspend
    <2>4. CASE conf[dom[i]] = "none"
        <3>1. /\ pc' = [pc EXCEPT ![i] = "idle"] /\ res' = [res EXCEPT ![i] = "none"]
              /\ chan' \in [Conns -> {"closed", "open", "ok", "error"}]
            BY <1>1, <2>4 DEF StartSuspend
        <3>2. UNCHANGED <<op, dom, usr, live, orphans, bak, cert, owner, osUsers, snippet,
                          stray, ssl, bkp>>
            BY <1>1 DEF StartSuspend
        <3>3. AgentTypeOK'
            BY <2>3, <3>1, <3>2
        <3> QED
            BY <3>1, <3>2, <3>3
    <2>5. CASE conf[dom[i]] # "none"
        BY <1>1, <2>3, <2>5, SMTT(30) DEF StartSuspend
    <2> QED
        BY <2>4, <2>5
<1>2. CASE SuspendTested(i)
    BY <1>2 DEF SuspendTested
<1>3. CASE SuspendTestFailed(i)
    BY <1>3 DEF SuspendTestFailed
<1>4. CASE SuspendReloaded(i)
    BY <1>4 DEF SuspendReloaded
<1>5. CASE SuspendAborted(i)
    BY <1>5 DEF SuspendAborted
<1> QED
    BY <1>1, <1>2, <1>3, <1>4, <1>5 DEF SuspendStep

LEMMA UnsuspendType ==
    ASSUME TypeInv, NEW i \in Conns, UnsuspendStep(i), UNCHANGED <<dbVars, apiVars>>
    PROVE  TypeInv'
<1> USE DEF Resume, Start, Await, Reply, NoFiles, diskVars, dbVars, apiVars,
            Config, Site, Stub, Pcs
<1>1. CASE StartUnsuspend(i)
    BY <1>1, SMTT(30) DEF StartUnsuspend
<1>2. CASE UnsuspendTested(i)
    BY <1>2 DEF UnsuspendTested
<1>3. CASE UnsuspendTestFailed(i)
    BY <1>3 DEF UnsuspendTestFailed
<1>4. CASE UnsuspendReloaded(i)
    BY <1>4 DEF UnsuspendReloaded
<1>5. CASE UnsuspendAborted(i)
    BY <1>5 DEF UnsuspendAborted
<1> QED
    BY <1>1, <1>2, <1>3, <1>4, <1>5 DEF UnsuspendStep

LEMMA RebuildType ==
    ASSUME TypeInv, NEW i \in Conns, RebuildStep(i), UNCHANGED <<dbVars, apiVars>>
    PROVE  TypeInv'
<1> USE DEF Resume, Start, Await, Reply, NoFiles, diskVars, dbVars, apiVars,
            Config, Site, Stub, Pcs
<1>1. CASE StartRebuild(i)
    <2>1. dom[i] \in Domains
        BY <1>1 DEF StartRebuild
    <2>2. conf[dom[i]] \in Config /\ SiteConfig(dom[i]) \in Config
        BY <2>1 DEF SiteConfig
    <2>3. /\ conf' \in [Domains -> Config] /\ disabled' \in [Domains -> Config]
          /\ bak' \in [Domains -> Config]
        BY <1>1, <2>2, SMTT(30) DEF StartRebuild
    <2>4. ssl' \in [Conns -> BOOLEAN] /\ bkp' \in [Conns -> BOOLEAN]
        <3> DEFINE b == conf[dom[i]] # "none"
        <3>1. cert[dom[i]] \in BOOLEAN /\ b \in BOOLEAN
            BY <2>1
        <3>2. ssl' = [ssl EXCEPT ![i] = cert[dom[i]]]
            BY <1>1 DEF StartRebuild
        <3>3. bkp' = bkp \/ bkp' = [bkp EXCEPT ![i] = b]
            BY <1>1 DEF StartRebuild
        <3> HIDE DEF b
        <3>4. ssl \in [Conns -> BOOLEAN] /\ bkp \in [Conns -> BOOLEAN]
            OBVIOUS
        <3>5. [ssl EXCEPT ![i] = cert[dom[i]]] \in [Conns -> BOOLEAN]
            BY <3>1, <3>4, ExceptInRange
        <3>6. [bkp EXCEPT ![i] = b] \in [Conns -> BOOLEAN]
            BY <3>1, <3>4, ExceptInRange
        <3> QED
            BY <3>2, <3>3, <3>4, <3>5, <3>6
    <2>5. CASE disabled[dom[i]] # "none"
        BY <1>1, <2>3, <2>4, <2>5, SMTT(30) DEF StartRebuild
    <2>6. CASE disabled[dom[i]] = "none"
        BY <1>1, <2>3, <2>4, <2>6 DEF StartRebuild
    <2> QED
        BY <2>5, <2>6
<1>2. CASE RebuildTested(i)
    BY <1>2 DEF RebuildTested
<1>3. CASE RebuildTestFailed(i)
    BY <1>3, SMTT(30) DEF RebuildTestFailed
<1>4. CASE RebuildBackTested(i)
    BY <1>4 DEF RebuildBackTested
<1>5. CASE RebuildRaised(i)
    BY <1>5 DEF RebuildRaised
<1>6. CASE RebuildReloaded(i)
    BY <1>6 DEF RebuildReloaded
<1>7. CASE RebuildReloadFailed(i)
    BY <1>7 DEF RebuildReloadFailed
<1> QED
    BY <1>1, <1>2, <1>3, <1>4, <1>5, <1>6, <1>7 DEF RebuildStep

LEMMA VhostType ==
    ASSUME TypeInv, NEW i \in Conns, VhostStep(i), UNCHANGED <<dbVars, apiVars>>
    PROVE  TypeInv'
<1> USE DEF Resume, Start, Await, Reply, NoFiles, diskVars, dbVars, apiVars,
            Config, Site, Stub, Pcs
<1>1. CASE StartReload(i)
    BY <1>1 DEF StartReload
<1>2. CASE ReloadTested(i)
    BY <1>2 DEF ReloadTested
<1>3. CASE ReloadDone(i)
    BY <1>3, SMTT(30) DEF ReloadDone
<1>4. CASE WriteVhost(i)
    BY <1>4 DEF WriteVhost
<1>5. CASE DeleteVhost(i)
    BY <1>5 DEF DeleteVhost
<1> QED
    BY <1>1, <1>2, <1>3, <1>4, <1>5 DEF VhostStep

LEMMA RunType ==
    ASSUME TypeInv, NEW i \in Conns, Run(i), UNCHANGED <<dbVars, apiVars>>
    PROVE  TypeInv'
<1> USE DEF Executes, Outcome, Command, diskVars, dbVars, apiVars, Pcs
<1>1. CASE RunTest(i)
    BY <1>1 DEF RunTest
<1>2. CASE RunReload(i)
    BY <1>2 DEF RunReload, ReloadNginx
<1>3. CASE RunUseradd(i)
    BY <1>3 DEF RunUseradd
<1>4. CASE RunChown(i)
    BY <1>4 DEF RunChown, Chown
<1>5. CASE RunCertbot(i)
    BY <1>5 DEF RunCertbot
<1>6. CASE CertRefused(i)
    BY <1>6 DEF CertRefused
<1>7. CASE CommandFails(i)
    BY <1>7 DEF CommandFails
<1>8. CASE CertIssued(i)
    BY <1>8 DEF CertIssued, reqVars, hVars
<1>9. CASE DeployHook(i)
    BY <1>9 DEF DeployHook, ReloadNginx, reqVars, hVars
<1> QED
    BY <1>1, <1>2, <1>3, <1>4, <1>5, <1>6, <1>7, <1>8, <1>9 DEF Run

LEMMA InterruptType ==
    ASSUME TypeInv, UNCHANGED <<dbVars, apiVars>>,
           \/ \E i \in Conns : HandlerTimeout(i) \/ Refuse(i)
           \/ \E o \in orphans : OrphanRuns(o)
           \/ AgentCrash
           \/ InstallSnippet
    PROVE  TypeInv'
<1> USE DEF diskVars, dbVars, apiVars, reqVars, hVars
<1>1. ASSUME NEW i \in Conns, HandlerTimeout(i) PROVE TypeInv'
    <2> USE <1>1 DEF HandlerTimeout
    <2>1. bak' \in [Domains -> Config]
        BY ZenonT(30) DEF Config
    <2>2. /\ pc' \in [Conns -> Pcs] /\ chan' \in [Conns -> {"closed", "open", "ok", "error"}]
          /\ res' \in [Conns -> {"none", "run", "ok", "fail", "timeout"}]
          /\ \A j \in Conns : pc'[j] = IF j = i THEN "idle" ELSE pc[j]
        BY ZenonT(30) DEF Reply, Pcs
    <2>3. orphans' \subseteq Orphan /\ OrphanOK'
        <3> DEFINE c == Command(pc[i])
                   a == Arguments(c, dom[i], usr[i])
        <3>1. CASE res[i] = "run" /\ c # "nginx -t"
            <4>1. /\ c \in {"useradd", "chown", "certbot", "reload"}
                  /\ c \in {"useradd", "chown", "certbot"} =>
                        op[i] = "create" /\ pc[i] # "idle"
                BY <3>1 DEF Running, Command, Pcs
            <4>2. /\ c \in {"useradd", "chown", "certbot"} =>
                        dom[i] \in Domains /\ usr[i] \in Users
                BY <4>1
            <4>3. a \in Orphan /\ a.cmd = c
                BY <4>1, <4>2 DEF Arguments, Orphan
            <4>4. /\ a.cmd \in {"useradd", "chown"} => a.usr \in Users
                  /\ a.cmd \in {"certbot", "chown"} => a.dom \in Domains
                BY <4>1, <4>2 DEF Arguments
            <4> HIDE DEF a, c
            <4>5. orphans' = orphans \cup {a}
                BY <3>1 DEF a, c
            <4> QED
                BY <4>3, <4>4, <4>5
        <3>2. CASE ~(res[i] = "run" /\ c # "nginx -t")
            BY <3>2
        <3> QED
            BY <3>1, <3>2
    <2> QED
        BY <2>1, <2>2, <2>3
<1>2. ASSUME NEW i \in Conns, Refuse(i) PROVE TypeInv'
    BY <1>2 DEF Refuse, Reply, NoFiles, Pcs
<1>3. ASSUME NEW o \in orphans, OrphanRuns(o) PROVE TypeInv'
    <2> USE <1>3 DEF OrphanRuns
    <2>1. o.cmd \in {"useradd", "chown", "certbot", "reload"}
        BY DEF Orphan
    <2>2. live' \in [Domains -> Config]
        BY DEF ReloadNginx
    <2>3. cert' \in [Domains -> BOOLEAN]
        BY <2>1, ZenonT(30)
    <2>4. osUsers' \subseteq Users
        BY <2>1
    <2>5. owner' \in [Domains -> Users \cup {"absent", "root"}]
        BY <2>1 DEF Chown
    <2>6. orphans' \subseteq Orphan /\ OrphanOK'
        <3> DEFINE a == Arguments("reload", NoDomain, NoUser)
        <3>1. a \in Orphan /\ a.cmd = "reload"
            BY DEF Arguments, Orphan
        <3>2. orphans' \subseteq orphans \cup {a}
            OBVIOUS
        <3> HIDE DEF a
        <3> QED
            BY <3>1, <3>2
    <2> QED
        BY <2>2, <2>3, <2>4, <2>5, <2>6
<1>4. CASE AgentCrash
    BY <1>4 DEF AgentCrash, Pcs
<1>5. CASE InstallSnippet
    BY <1>5 DEF InstallSnippet
<1> QED
    BY <1>1, <1>2, <1>3, <1>4, <1>5

\* The first free candidate of a domain is one of its candidates, and free.
LEMMA FirstFreeType ==
    ASSUME NEW d \in Domains, FreeCandidates(d) # {}
    PROVE  /\ FirstFree(d) \in Users /\ FirstFree(d) \notin TakenUsers
           /\ FirstFree(d) \in {Candidates[d][k] : k \in DOMAIN Candidates[d]}
<1> DEFINE F == FreeCandidates(d)
<1>1. Candidates[d] \in Seq(Users)
    BY CandidatesAssumption
<1>2. /\ DOMAIN Candidates[d] \subseteq Nat
      /\ \A k \in DOMAIN Candidates[d] : Candidates[d][k] \in Users
    BY <1>1
<1>3. F \subseteq DOMAIN Candidates[d] /\ F \subseteq Nat
    BY <1>2 DEF FreeCandidates
<1>4. \E k \in F : \A j \in F : ~ (<<j, k>> \in OpToRel(<, Nat))
    <2> HIDE DEF F
    <2> QED
        BY <1>3, NatLessThanWellFounded, WFMin, F # {} DEF F
<1>5. \E k \in F : \A j \in F : k <= j
    <2>1. PICK k \in F : \A j \in F : ~ (<<j, k>> \in OpToRel(<, Nat))
        BY <1>4
    <2>2. ASSUME NEW j \in F PROVE k <= j
        <3>1. j \in Nat /\ k \in Nat
            BY <1>3
        <3>2. <<j, k>> \in Nat \X Nat /\ <<j, k>>[1] = j /\ <<j, k>>[2] = k
            BY <3>1
        <3>3. j < k => <<j, k>> \in OpToRel(<, Nat)
            BY <3>2 DEF OpToRel
        <3>4. ~ (j < k)
            BY <2>1, <3>3
        <3> QED
            BY <3>1, <3>4
    <2> QED
        BY <2>2
<1>6. PICK k \in F : FirstFree(d) = Candidates[d][k]
    BY <1>5 DEF FirstFree
<1> QED
    BY <1>2, <1>3, <1>6 DEF FreeCandidates

LEMMA RequestType ==
    ASSUME TypeInv, NEW i \in Conns, Request(i)
    PROVE  TypeInv'
<1> USE DEF MayStart, InUse, Submit, BeginOn, diskVars, hVars, dbVars
<1>1. ASSUME NEW d \in Domains, BeginCreate(i, d) PROVE TypeInv'
    BY <1>1 DEF BeginCreate, AllOps
<1>2. ASSUME NEW d \in Domains, BeginDelete(i, d) PROVE TypeInv'
    BY <1>2 DEF BeginDelete, AllOps, Pcs
<1>3. ASSUME NEW d \in Domains, BeginSuspend(i, d) PROVE TypeInv'
    BY <1>3 DEF BeginSuspend, AllOps, Pcs
<1>4. ASSUME NEW d \in Domains, BeginUnsuspend(i, d) PROVE TypeInv'
    BY <1>4 DEF BeginUnsuspend, AllOps, Pcs
<1>5. ASSUME NEW d \in Domains, BeginRebuild(i, d) PROVE TypeInv'
    BY <1>5 DEF BeginRebuild, AllOps, Pcs
<1>6. ASSUME NEW d \in Domains, LegacyDelete(i, d) PROVE TypeInv'
    BY <1>6 DEF LegacyDelete, agentVars, apiVars
<1>7. ASSUME NEW o \in {"reload", "vhost", "unvhost"}, BeginVhost(i, o) PROVE TypeInv'
    BY <1>7 DEF BeginVhost, AllOps, Pcs
<1> QED
    BY <1>1, <1>2, <1>3, <1>4, <1>5, <1>6, <1>7, ZenonT(40) DEF Request

LEMMA RespondType ==
    ASSUME TypeInv, NEW i \in Conns, Respond(i) \/ ClientTimeout(i)
    PROVE  TypeInv'
<1> USE DEF Finish, Receive, GiveUp, Submit, diskVars, reqVars, hVars, dbVars
<1>1. CASE DeriveUsername(i)
    <2>1. dom[i] \in Domains /\ op[i] = "create" /\ pc[i] = "idle"
        BY <1>1 DEF DeriveUsername
    <2>2. CASE FreeCandidates(dom[i]) # {}
        <3>1. FirstFree(dom[i]) \in Users
            BY <2>1, <2>2, FirstFreeType
        <3> QED
            BY <1>1, <2>1, <2>2, <3>1, SMTT(30) DEF DeriveUsername
    <2>3. CASE FreeCandidates(dom[i]) = {}
        BY <1>1, <2>1, <2>3 DEF DeriveUsername
    <2> QED
        BY <2>2, <2>3
<1>2. CASE RecheckConflict(i)
    BY <1>2 DEF RecheckConflict
<1>3. CASE CallCreate(i)
    BY <1>3 DEF CallCreate, AllOps, Pcs
<1>4. CASE CommitCreate(i)
    BY <1>4 DEF CommitCreate
<1>5. CASE CommitDelete(i)
    <2>0. dom[i] \in Domains
        BY <1>5 DEF CommitDelete
    <2>1. /\ rowStatus' \in [Domains -> {"absent", "active", "suspended"}]
          /\ rowUser' \in [Domains -> Users \cup {NoUser}]
          /\ rowSsl' \in [Domains -> BOOLEAN]
        <3>1. CASE i \in held
            <4>1. /\ rowStatus' = [rowStatus EXCEPT ![dom[i]] = "absent"]
                  /\ rowUser' = [rowUser EXCEPT ![dom[i]] = NoUser]
                  /\ rowSsl' = [rowSsl EXCEPT ![dom[i]] = FALSE]
                BY <1>5, <3>1 DEF CommitDelete
            <4> QED
                BY <2>0, <4>1
        <3>2. CASE i \notin held
            BY <1>5, <3>2 DEF CommitDelete
        <3> QED
            BY <3>1, <3>2
    <2>2. held' \subseteq Conns
        BY <1>5 DEF CommitDelete
    <2> QED
        BY <1>5, <2>1, <2>2 DEF CommitDelete
<1>6. CASE CommitStatus(i)
    BY <1>6 DEF CommitStatus
<1>7. CASE CommitRebuild(i)
    BY <1>7 DEF CommitRebuild
<1>8. CASE VhostDone(i)
    BY <1>8 DEF VhostDone
<1>9. CASE CommitFailed(i)
    BY <1>9 DEF CommitFailed
<1>10. CASE AgentFailed(i)
    BY <1>10 DEF AgentFailed
<1>11. CASE ClientTimeout(i)
    BY <1>11 DEF ClientTimeout
<1> QED
    BY <1>1, <1>2, <1>3, <1>4, <1>5, <1>6, <1>7, <1>8, <1>9, <1>10, <1>11
    DEF Respond

LEMMA NextType == TypeInv /\ [Next]_vars => TypeInv'
<1> SUFFICES ASSUME TypeInv, [Next]_vars PROVE TypeInv'
    OBVIOUS
<1>1. ASSUME NEW i \in Conns, Handle(i), UNCHANGED <<dbVars, apiVars>> PROVE TypeInv'
    <2> HIDE DEF TypeInv
    <2> QED
        BY <1>1, CreateType, DeleteType, SuspendType, UnsuspendType, RebuildType,
           VhostType DEF Handle
<1>2. CASE AgentStep /\ UNCHANGED <<dbVars, apiVars>>
    <2> HIDE DEF TypeInv
    <2> QED
        BY <1>1, <1>2, RunType, InterruptType DEF AgentStep
<1>3. ASSUME NEW i \in Conns, Request(i) \/ Respond(i) \/ ClientTimeout(i) PROVE TypeInv'
    <2> HIDE DEF TypeInv
    <2> QED
        BY <1>3, RequestType, RespondType
<1>4. CASE UNCHANGED vars
    BY <1>4 DEF vars, agentVars, dbVars, apiVars
<1> QED
    BY <1>2, <1>3, <1>4 DEF Next

LEMMA SpecTypeInv == Spec => []TypeInv
<1> HIDE DEF TypeInv
<1> QED
    BY InitType, NextType, PTL DEF Spec

\* Every variable of the panel and the agent keeps its type: a connection's
\* request names a domain and, for a creation, a derived Linux user, whatever
\* fails, is cancelled or is answered late.
THEOREM SpecTypeOK == Spec => []TypeOK
<1>1. TypeInv => TypeOK
    BY DEF TypeInv
<1> HIDE DEF TypeInv, TypeOK
<1> QED
    BY SpecTypeInv, <1>1, PTL

=============================================================================
