------------------------- MODULE DomainRecordProofs -------------------------
(***************************************************************************)
(* The record and the server agree.  As long as nothing fails but requests *)
(* that are refused before they change anything, and no two requests about *)
(* one domain are in flight together, the domains table, the files of the  *)
(* agent and what nginx serves tell the same story, for any number of      *)
(* domains and connections, through every reload that any of them causes.  *)
(*                                                                         *)
(* The inductive invariant follows a request by what its handler has done  *)
(* with the files of its domain (Stage), and says of a domain without a    *)
(* request that its files are what its row says (SettledInv).  What nginx  *)
(* serves may lag behind the files, but never shows a third thing (Lag).   *)
(***************************************************************************)
EXTENDS DomainSafetyProofs

\* The names generate_unique_username may give a domain.
Names(d) == {Candidates[d][k] : k \in DOMAIN Candidates[d]}

\* Nothing fails once it has begun, and requests together in flight are about
\* different domains that cannot derive the same Linux user.
Healthy ==
    /\ Faults \subseteq {"refuse", "nosnippet"}
    /\ Overlap # "any"
    /\ Overlap = "distinct" =>
            \A d, e \in Domains : d # e => Names(d) \cap Names(e) = {}

-----------------------------------------------------------------------------
(* Requests *)

RowOps == {"delete", "suspend", "unsuspend", "rebuild"}
HostOps == {"reload", "vhost", "unvhost"}

\* The awaits of each operation when no command fails.
PcsOf(o) ==
    CASE o = "none" -> {"idle"}
      [] o = "create" -> {"idle", "queued", "user", "chown", "test", "reload", "cert",
                          "testTls", "reloadTls"}
      [] o \in {"vhost", "unvhost"} -> {"idle", "queued"}
      [] o \in RowOps \cup {"reload"} -> {"idle", "queued", "test", "reload"}

Plumbing(i) ==
    /\ api[i] = "idle" =>
            chan[i] = "closed" /\ pc[i] = "idle" /\ op[i] = "none" /\ dom[i] = NoDomain
    /\ api[i] \in {"derive", "recheck"} => chan[i] = "closed"
    /\ api[i] = "wait" =>
            /\ op[i] # "none"
            /\ IF pc[i] = "idle" THEN chan[i] \in {"ok", "error"} ELSE chan[i] = "open"
            /\ op[i] \in RowOps => i \in held
    /\ op[i] \in HostOps => dom[i] = NoDomain
    /\ pc[i] \in PcsOf(op[i])
    /\ pc[i] \notin {"idle", "queued"} =>
            res[i] \in {"run", "ok"} \/ (pc[i] = "cert" /\ res[i] = "fail")
    /\ op[i] = "create" /\ api[i] \in {"recheck", "wait"} => usr[i] \in Names(dom[i])

PlumbingInv == \A i \in Conns : Plumbing(i)

Exclusive ==
    \A i, j \in Conns : i # j /\ api[i] # "idle" /\ api[j] # "idle" =>
        Overlap = "distinct" /\ dom[i] # dom[j]

\* The name of a creation at the agent is not in the table.
NameInv ==
    \A i \in Conns : op[i] = "create" /\ api[i] = "wait" => usr[i] \notin TakenUsers

HostInv ==
    /\ stray # "bad" /\ orphans = {}
    /\ \A d \in Domains : cert[d] => snippet
    /\ \A i \in Conns : pc[i] = "cert" => snippet

-----------------------------------------------------------------------------
(* Domains *)

\* What the deletion of a pre-isolation record leaves behind.
Leftover(d) == d \in Legacy /\ conf[d] = "http" /\ owner[d] = "root"

Recorded(d) ==
    IF rowUser[d] = NoUser THEN Leftover(d)
    ELSE owner[d] = rowUser[d] /\ (rowSsl[d] <=> "https" \in {conf[d], disabled[d]})

IsFree(d) == disabled[d] = "none" /\ ((conf[d] = "none" /\ owner[d] = "absent") \/ Leftover(d))
IsSite(d) == conf[d] \in Site /\ disabled[d] = "none"
IsStub(d) == conf[d] \in Stub /\ disabled[d] \in Site

\* The files of d are what its row says.
Settled(d) ==
    /\ live[d] = conf[d]
    /\ rowStatus[d] = "absent" => IsFree(d)
    /\ rowStatus[d] = "active" => IsSite(d) /\ Recorded(d)
    /\ rowStatus[d] = "suspended" => IsStub(d) /\ Recorded(d)

Quiescent(d) == \A i \in Conns : dom[i] # d
SettledInv == \A d \in Domains : Quiescent(d) => Settled(d)

Kind(s) ==
    CASE s = "absent" -> "none" [] s = "active" -> "site" [] s = "suspended" -> "stub"

\* nginx serves what the files say or what the row says.
Lag(d) == ServedAs(live[d]) \in {ServedAs(conf[d]), Kind(rowStatus[d])}
LagInv == \A d \in Domains : Lag(d)

-----------------------------------------------------------------------------
(* Requests and their domains *)

\* The handler of i has not changed anything of its domain.
Untouched(i) == api[i] # "wait" \/ pc[i] \in {"queued", "user"} \/ chan[i] = "error"

\* nginx has loaded what the handler of i wrote last.
Loaded(i) ==
    \/ chan[i] = "ok" \/ pc[i] = "cert"
    \/ pc[i] \in {"reload", "reloadTls"} /\ res[i] = "ok"

Creating(i, d) ==
    /\ disabled[d] = "none"
    /\ pc[i] = "chown" =>
            conf[d] \in {"none", "http"} /\ live[d] = conf[d] /\ owner[d] \in {"root", usr[i]}
    /\ pc[i] # "chown" \/ res[i] = "ok" => owner[d] = usr[i]
    /\ pc[i] \in {"test", "reload", "cert"} => conf[d] = "http"
    /\ pc[i] = "cert" => ~ssl[i]
    /\ pc[i] \in {"testTls", "reloadTls"} => conf[d] = "https"
    /\ pc[i] = "idle" => conf[d] \in Site /\ (ssl[i] <=> conf[d] = "https")

Deleting(i, d) ==
    /\ conf[d] = "none" /\ disabled[d] = "none"
    /\ owner[d] = IF chan[i] = "ok" THEN "absent" ELSE rowUser[d]

Rebuilding(i, d) ==
    /\ rowStatus[d] = "active" => IsSite(d)
    /\ rowStatus[d] = "suspended" => IsStub(d)
    /\ owner[d] = rowUser[d]
    /\ ssl[i] <=> "https" \in {conf[d], disabled[d]}

Changed(i, d) ==
    /\ Loaded(i) => live[d] = conf[d]
    /\ op[i] = "create" => Creating(i, d)
    /\ op[i] = "delete" => Deleting(i, d)
    /\ op[i] = "suspend" => IsStub(d) /\ Recorded(d)
    /\ op[i] = "unsuspend" => IsSite(d) /\ Recorded(d)
    /\ op[i] = "rebuild" => Rebuilding(i, d)

Stage(i, d) ==
    /\ op[i] = "create" => rowStatus[d] = "absent"
    /\ op[i] = "suspend" => rowStatus[d] = "active"
    /\ op[i] = "unsuspend" => rowStatus[d] = "suspended"
    /\ op[i] = "rebuild" => seen[i] = rowSsl[d]
    /\ IF Untouched(i) THEN Settled(d) ELSE Changed(i, d)

StageInv == \A i \in Conns : \A d \in Domains : dom[i] = d => Stage(i, d)

\* The inductive invariant, beside those of DomainApiProofs and
\* DomainSafetyProofs.
AgreeInv ==
    /\ PlumbingInv /\ Exclusive /\ NameInv /\ HostInv
    /\ SettledInv /\ LagInv /\ StageInv

Known == TypeInv /\ CertInv /\ HeldInv /\ UserInv

-----------------------------------------------------------------------------
(* What a step of one request has to do with the others.                   *)

\* A step of connection i that touches no domain but d0.
Apart(i, d0) ==
    /\ {dom[i], dom'[i]} \subseteq {d0, NoDomain}
    /\ \A j \in Conns \ {i} :
          /\ op'[j] = op[j] /\ dom'[j] = dom[j] /\ usr'[j] = usr[j] /\ chan'[j] = chan[j]
          /\ pc'[j] = pc[j] /\ res'[j] = res[j] /\ ssl'[j] = ssl[j]
          /\ api'[j] = api[j] /\ seen'[j] = seen[j] /\ (j \in held => j \in held')
          /\ d0 \in Domains => dom[j] # d0
    /\ \A d \in Domains \ {d0} :
          /\ conf'[d] = conf[d] /\ disabled'[d] = disabled[d] /\ owner'[d] = owner[d]
          /\ live'[d] = live[d] /\ rowStatus'[d] = rowStatus[d]
          /\ rowUser'[d] = rowUser[d] /\ rowSsl'[d] = rowSsl[d]

LEMMA SettledKept ==
    ASSUME NEW d, Settled(d),
           conf'[d] = conf[d], disabled'[d] = disabled[d], owner'[d] = owner[d],
           live'[d] = live[d], rowStatus'[d] = rowStatus[d], rowUser'[d] = rowUser[d],
           rowSsl'[d] = rowSsl[d]
    PROVE  Settled(d)'
BY DEF Settled, IsFree, IsSite, IsStub, Recorded, Leftover

LEMMA StageKept ==
    ASSUME NEW j, NEW d, Stage(j, d),
           op'[j] = op[j], usr'[j] = usr[j], chan'[j] = chan[j], pc'[j] = pc[j],
           res'[j] = res[j], ssl'[j] = ssl[j], api'[j] = api[j], seen'[j] = seen[j],
           conf'[d] = conf[d], disabled'[d] = disabled[d], owner'[d] = owner[d],
           live'[d] = live[d], rowStatus'[d] = rowStatus[d], rowUser'[d] = rowUser[d],
           rowSsl'[d] = rowSsl[d]
    PROVE  Stage(j, d)'
<1>1. Untouched(j)' = Untouched(j) /\ Loaded(j)' = Loaded(j)
    BY DEF Untouched, Loaded
<1>2. Settled(d) => Settled(d)'
    BY SettledKept
<1>3. Changed(j, d) => Changed(j, d)'
    <2>1. Creating(j, d) => Creating(j, d)'
        BY DEF Creating
    <2>2. Deleting(j, d) => Deleting(j, d)'
        BY DEF Deleting
    <2>3. Rebuilding(j, d) => Rebuilding(j, d)'
        BY DEF Rebuilding, IsSite, IsStub
    <2>4. /\ IsStub(d) => IsStub(d)'
          /\ IsSite(d) => IsSite(d)'
          /\ Recorded(d) => Recorded(d)'
        BY DEF IsSite, IsStub, Recorded, Leftover
    <2> QED
        BY <1>1, <2>1, <2>2, <2>3, <2>4 DEF Changed
<1> QED
    BY <1>1, <1>2, <1>3 DEF Stage

\* All that is left to show of a step is what happens to i and to d0.
LEMMA Assemble ==
    ASSUME AgreeInv, NEW i \in Conns, NEW d0 \in Domains \cup {NoDomain}, Apart(i, d0),
           Plumbing(i)', Exclusive', NameInv', HostInv',
           d0 \in Domains => Lag(d0)',
           d0 \in Domains /\ dom'[i] = d0 => Stage(i, d0)',
           d0 \in Domains /\ dom'[i] # d0 => Settled(d0)'
    PROVE  AgreeInv'
<1>0. NoDomain \notin Domains
    BY DomainsAssumption
<1>1. PlumbingInv'
    <2> SUFFICES ASSUME NEW j \in Conns \ {i}
                 PROVE  Plumbing(j)'
        BY DEF PlumbingInv
    <2>1. Plumbing(j)
        BY DEF AgreeInv, PlumbingInv
    <2> QED
        BY <2>1 DEF Apart, Plumbing
<1>2. SettledInv'
    <2> SUFFICES ASSUME NEW d \in Domains, Quiescent(d)'
                 PROVE  Settled(d)'
        BY DEF SettledInv
    <2>1. CASE d = d0
        BY <2>1 DEF Quiescent
    <2>2. CASE d # d0
        <3>1. Quiescent(d)
            BY <1>0, <2>2 DEF Quiescent, Apart
        <3>2. Settled(d)
            BY <3>1 DEF AgreeInv, SettledInv
        <3> QED
            BY <2>2, <3>2, SettledKept DEF Apart
    <2> QED
        BY <2>1, <2>2
<1>3. LagInv'
    <2> SUFFICES ASSUME NEW d \in Domains, d # d0
                 PROVE  Lag(d)'
        BY DEF LagInv
    <2>1. Lag(d)
        BY DEF AgreeInv, LagInv
    <2> QED
        BY <2>1 DEF Apart, Lag, ServedAs
<1>4. StageInv'
    <2> SUFFICES ASSUME NEW j \in Conns, NEW d \in Domains, dom'[j] = d
                 PROVE  Stage(j, d)'
        BY DEF StageInv
    <2>1. CASE j = i
        BY <1>0, <2>1 DEF Apart
    <2>2. CASE j # i
        <3>1. dom[j] = d /\ d # d0
            BY <2>2 DEF Apart
        <3>2. Stage(j, d)
            BY <3>1 DEF AgreeInv, StageInv
        <3> QED
            BY <2>2, <3>1, <3>2, StageKept DEF Apart
    <2> QED
        BY <2>1, <2>2
<1> QED
    BY <1>1, <1>2, <1>3, <1>4 DEF AgreeInv

\* nginx accepts the files whenever it is asked.
LEMMA AlwaysLoadable ==
    ASSUME CertInv, HostInv
    PROVE  Loadable
BY DEF CertInv, HostInv, Loadable

-----------------------------------------------------------------------------
(* The handlers.                                                           *)

\* What a segment of a handler leaves alone.
Segment(i) ==
    /\ UNCHANGED <<cert, snippet, live, op, dom, usr, orphans, dbVars, apiVars>>
    /\ stray' # "bad"
    /\ \A j \in Conns \ {i} :
            pc'[j] = pc[j] /\ res'[j] = res[j] /\ chan'[j] = chan[j] /\ ssl'[j] = ssl[j]
    /\ \A d \in Domains \ {dom[i]} :
            conf'[d] = conf[d] /\ disabled'[d] = disabled[d] /\ owner'[d] = owner[d]

LEMMA Segments ==
    ASSUME Known, AgreeInv, Healthy, NEW i \in Conns, Handle(i), UNCHANGED <<dbVars, apiVars>>
    PROVE  Segment(i)
<1> USE DEF Resume, Start, NoFiles, diskVars
<1>0. /\ conf \in [Domains -> Config] /\ disabled \in [Domains -> Config]
      /\ owner \in [Domains -> Users \cup {"absent", "root"}] /\ ssl \in [Conns -> BOOLEAN]
      /\ stray # "bad" /\ "badvhost" \notin Faults
    BY DEF Known, TypeInv, TypeOK, AgentTypeOK, AgreeInv, HostInv, Healthy
<1>1. /\ UNCHANGED <<cert, snippet, live, op, dom, usr, orphans, dbVars, apiVars>>
      /\ \A j \in Conns \ {i} : pc'[j] = pc[j] /\ res'[j] = res[j] /\ chan'[j] = chan[j]
    BY HandleFrames DEF Known, HandleFrame
<1>2. /\ stray' # "bad"
      /\ \A j \in Conns \ {i} : ssl'[j] = ssl[j]
      /\ \A d \in Domains \ {dom[i]} :
            conf'[d] = conf[d] /\ disabled'[d] = disabled[d] /\ owner'[d] = owner[d]
    <2>1. CASE CreateStep(i)
        BY <1>0, <2>1, SMTT(30) DEF CreateStep, StartCreate, CreateUserDone, CreateChownDone,
            CreateSetupFailed, CreateTested, CreateTestFailed, CreateReloaded,
            CreateCertIssued, CreateCertFailed, CreateTlsTested, CreateTlsTestFailed,
            CreateTlsReloaded, CreateBackTested, CreateBackDone, CreateAborted
    <2>2. CASE DeleteStep(i)
        BY <1>0, <2>2, SMTT(30) DEF DeleteStep, StartDelete, DeleteTested, DeleteReloaded,
            DeleteAborted
    <2>3. CASE SuspendStep(i)
        BY <1>0, <2>3, SMTT(30) DEF SuspendStep, StartSuspend, SuspendTested,
            SuspendTestFailed, SuspendReloaded, SuspendAborted
    <2>4. CASE UnsuspendStep(i)
        BY <1>0, <2>4, SMTT(30) DEF UnsuspendStep, StartUnsuspend, UnsuspendTested,
            UnsuspendTestFailed, UnsuspendReloaded, UnsuspendAborted
    <2>5. CASE RebuildStep(i)
        BY <1>0, <2>5, SMTT(30) DEF RebuildStep, StartRebuild, RebuildTested,
            RebuildTestFailed, RebuildBackTested, RebuildRaised, RebuildReloaded,
            RebuildReloadFailed
    <2>6. CASE VhostStep(i)
        BY <1>0, <2>6, SMTT(30) DEF VhostStep, StartReload, ReloadTested, ReloadDone,
            WriteVhost, DeleteVhost
    <2> QED
        BY <2>1, <2>2, <2>3, <2>4, <2>5, <2>6 DEF Handle
<1> QED
    BY <1>1, <1>2 DEF Segment

\* A handler at work: its client waits, and alone, for an answer.
AtWork(i) ==
    /\ api[i] = "wait" /\ chan[i] = "open" /\ op[i] # "none" /\ Plumbing(i)
    /\ op[i] \in RowOps \cup {"create"} =>
            dom[i] \in Domains /\ Stage(i, dom[i]) /\ Lag(dom[i])

LEMMA Working ==
    ASSUME Known, AgreeInv, NEW i \in Conns, pc[i] # "idle"
    PROVE  AtWork(i)
<1>1. Plumbing(i)
    BY DEF AgreeInv, PlumbingInv
<1>2. api[i] = "wait"
    BY <1>1 DEF Plumbing, Known, TypeInv, TypeOK, RequestOK
<1>3. op[i] \in RowOps \cup {"create"} => dom[i] \in Domains
    BY DEF RowOps, Known, TypeInv, RequestOK
<1> QED
    BY <1>1, <1>2, <1>3 DEF AtWork, Plumbing, AgreeInv, StageInv, LagInv

LEMMA SegmentKeeps ==
    ASSUME Known, AgreeInv, NEW i \in Conns, AtWork(i), Segment(i),
           NEW d \in Domains \cup {NoDomain}, d = dom[i],
           pc'[i] \in PcsOf(op[i]), pc'[i] # "queued", pc'[i] = "cert" => snippet,
           IF pc'[i] = "idle" THEN chan'[i] \in {"ok", "error"}
                              ELSE chan'[i] = "open" /\ res'[i] = "run",
           d \in Domains => Lag(d)' /\ Stage(i, d)'
    PROVE  AgreeInv'
<1>1. Apart(i, d)
    <2>1. \A j \in Conns \ {i} : d \in Domains => dom[j] # d
        BY DomainsAssumption DEF AtWork, AgreeInv, Exclusive, PlumbingInv, Plumbing
    <2> QED
        BY <2>1 DEF Apart, Segment, dbVars, apiVars
<1>2. Plumbing(i)'
    <2>1. op' = op /\ dom' = dom /\ usr' = usr /\ api' = api /\ held' = held
        BY DEF Segment, apiVars
    <2> QED
        BY <2>1 DEF AtWork, Plumbing
<1>3. Exclusive' /\ NameInv'
    BY DEF Segment, dbVars, apiVars, AgreeInv, Exclusive, NameInv, TakenUsers, Rows
<1>4. HostInv'
    BY DEF Segment, AgreeInv, HostInv
<1>5. dom'[i] = d
    BY DEF Segment
<1> QED
    BY <1>1, <1>2, <1>3, <1>4, <1>5, Assemble

LEMMA CreateKeeps ==
    ASSUME Known, AgreeInv, Healthy, NEW i \in Conns, CreateStep(i), UNCHANGED <<dbVars, apiVars>>
    PROVE  AgreeInv'
<1> USE DEF Resume, Start, Await, Reply, NoFiles, diskVars
<1>0. Segment(i)
    BY Segments DEF Handle
<1>1. pc[i] # "idle" /\ op[i] = "create"
    BY SMTT(30) DEF CreateStep, StartCreate, CreateUserDone, CreateChownDone,
        CreateSetupFailed, CreateTested, CreateTestFailed, CreateReloaded,
        CreateCertIssued, CreateCertFailed, CreateTlsTested, CreateTlsTestFailed,
        CreateTlsReloaded, CreateBackTested, CreateBackDone, CreateAborted
<1>2. AtWork(i)
    BY <1>1, Working
<1>3. PICK d \in Domains : d = dom[i]
    BY <1>1, <1>2 DEF AtWork
<1>4. /\ conf \in [Domains -> Config] /\ disabled \in [Domains -> Config]
      /\ owner \in [Domains -> Users \cup {"absent", "root"}] /\ ssl \in [Conns -> BOOLEAN]
      /\ pc \in [Conns -> Pcs] /\ res \in [Conns -> {"none", "run", "ok", "fail", "timeout"}]
      /\ chan \in [Conns -> {"closed", "open", "ok", "error"}]
    BY DEF Known, TypeInv, TypeOK, AgentTypeOK
<1>5. /\ pc[i] \in PcsOf("create") \ {"idle"} /\ chan[i] = "open" /\ api[i] = "wait"
      /\ pc[i] # "queued" => res[i] \in {"run", "ok"} \/ (pc[i] = "cert" /\ res[i] = "fail")
      /\ usr[i] \in Names(d) /\ Stage(i, d) /\ Lag(d) /\ rowStatus[d] = "absent"
    BY <1>1, <1>2, <1>3 DEF AtWork, Plumbing, Stage
<1>6. PcsOf("create") = {"idle", "queued", "user", "chown", "test", "reload", "cert",
                         "testTls", "reloadTls"}
    BY DEF PcsOf, RowOps
<1>7. op' = op /\ dom' = dom /\ usr' = usr /\ live' = live /\ UNCHANGED <<dbVars, apiVars>>
    BY <1>0 DEF Segment
\* What is left to show for each segment.
<1> DEFINE Kept == /\ pc'[i] \in PcsOf("create") /\ pc'[i] # "queued"
                   /\ IF pc'[i] = "idle" THEN chan'[i] = "ok"
                                         ELSE chan'[i] = "open" /\ res'[i] = "run"
                   /\ pc'[i] = "cert" => snippet
                   /\ Lag(d)' /\ Stage(i, d)'
<1>8. Kept => AgreeInv'
    BY <1>0, <1>1, <1>2, <1>3, SegmentKeeps
<1>9. Kept
    <2> USE DEF Stage, Untouched, Lag, ServedAs, Kind, dbVars, apiVars
    <2>1. CASE StartCreate(i)
        BY <1>1, <1>4, <1>5, <1>6, <1>7, <2>1
        DEF StartCreate, Settled, IsFree, Leftover
    <2>2. CASE CreateUserDone(i)
        <3>1. Settled(d)
            BY <1>5, <2>2 DEF CreateUserDone
        <3>2. /\ pc'[i] = "chown" /\ res'[i] = "run" /\ chan'[i] = "open"
              /\ owner'[d] = "root" /\ UNCHANGED <<conf, disabled>>
            BY <1>3, <1>4, <1>5, <2>2, <3>1 DEF CreateUserDone, Settled, IsFree, Leftover
        <3>3. Creating(i, d)' /\ ~Loaded(i)'
            BY <1>5, <1>7, <3>1, <3>2 DEF Creating, Loaded, Settled, IsFree, Leftover
        <3> QED
            BY <1>1, <1>5, <1>6, <1>7, <3>2, <3>3 DEF Changed
    <2>3. CASE CreateChownDone(i)
        <3>1. Creating(i, d) /\ pc[i] = "chown" /\ res[i] = "ok"
            BY <1>1, <1>5, <2>3 DEF CreateChownDone, Changed
        <3>2. /\ pc'[i] = "test" /\ res'[i] = "run" /\ chan'[i] = "open"
              /\ conf'[d] = "http" /\ UNCHANGED <<owner, disabled>>
            BY <1>3, <1>4, <1>5, <2>3 DEF CreateChownDone
        <3>3. Creating(i, d)' /\ ~Loaded(i)'
            BY <1>5, <1>7, <3>1, <3>2 DEF Creating, Loaded
        <3>4. Lag(d)'
            BY <1>5, <1>7, <3>1, <3>2 DEF Creating, Site, Stub
        <3> QED
            BY <1>1, <1>5, <1>6, <1>7, <3>2, <3>3, <3>4 DEF Changed
    <2>4. CASE CreateTested(i)
        <3>1. Creating(i, d) /\ pc[i] = "test"
            BY <1>1, <1>5, <2>4 DEF CreateTested, Changed
        <3>2. /\ pc'[i] = "reload" /\ res'[i] = "run" /\ chan'[i] = "open"
              /\ UNCHANGED <<conf, owner, disabled>>
            BY <1>3, <1>4, <1>5, <2>4 DEF CreateTested
        <3>3. Creating(i, d)' /\ ~Loaded(i)'
            BY <1>5, <1>7, <3>1, <3>2 DEF Creating, Loaded
        <3> QED
            BY <1>1, <1>5, <1>6, <1>7, <3>2, <3>3 DEF Changed
    <2>5. CASE CreateReloaded(i)
        <3>1. /\ Creating(i, d) /\ pc[i] = "reload" /\ res[i] = "ok" /\ live[d] = conf[d]
            BY <1>1, <1>5, <2>5 DEF CreateReloaded, Changed, Loaded
        <3>2. /\ ~ssl'[i] /\ UNCHANGED <<conf, owner, disabled>>
              /\ \/ pc'[i] = "cert" /\ res'[i] = "run" /\ chan'[i] = "open" /\ snippet
                 \/ pc'[i] = "idle" /\ chan'[i] = "ok"
            BY <1>3, <1>4, <1>5, <2>5 DEF CreateReloaded
        <3>3. Creating(i, d)'
            BY <1>5, <1>7, <3>1, <3>2 DEF Creating, Site
        <3> QED
            BY <1>1, <1>5, <1>6, <1>7, <3>1, <3>2, <3>3 DEF Changed
    <2>6. CASE CreateCertIssued(i)
        <3>1. /\ Creating(i, d) /\ pc[i] = "cert" /\ live[d] = conf[d]
            BY <1>1, <1>5, <2>6 DEF CreateCertIssued, Changed, Loaded
        <3>2. /\ pc'[i] = "testTls" /\ res'[i] = "run" /\ chan'[i] = "open"
              /\ conf'[d] = "https" /\ UNCHANGED <<owner, disabled>>
            BY <1>3, <1>4, <1>5, <2>6 DEF CreateCertIssued
        <3>3. Creating(i, d)' /\ ~Loaded(i)'
            BY <1>5, <1>7, <3>1, <3>2 DEF Creating, Loaded
        <3>4. Lag(d)'
            BY <1>7, <3>1, <3>2 DEF Creating, Site, Stub
        <3> QED
            BY <1>1, <1>5, <1>6, <1>7, <3>2, <3>3, <3>4 DEF Changed
    <2>7. CASE CreateCertFailed(i)
        <3>1. /\ Creating(i, d) /\ pc[i] = "cert" /\ live[d] = conf[d]
            BY <1>1, <1>5, <2>7 DEF CreateCertFailed, Changed, Loaded
        <3>2. /\ pc'[i] = "idle" /\ chan'[i] = "ok" /\ UNCHANGED <<conf, owner, disabled, ssl>>
            BY <1>3, <1>4, <1>5, <2>7 DEF CreateCertFailed
        <3>3. Creating(i, d)'
            BY <1>5, <1>7, <3>1, <3>2 DEF Creating, Site
        <3> QED
            BY <1>1, <1>5, <1>6, <1>7, <3>1, <3>2, <3>3 DEF Changed
    <2>8. CASE CreateTlsTested(i)
        <3>1. Creating(i, d) /\ pc[i] = "testTls"
            BY <1>1, <1>5, <2>8 DEF CreateTlsTested, Changed
        <3>2. /\ pc'[i] = "reloadTls" /\ res'[i] = "run" /\ chan'[i] = "open"
              /\ UNCHANGED <<conf, owner, disabled>>
            BY <1>3, <1>4, <1>5, <2>8 DEF CreateTlsTested
        <3>3. Creating(i, d)' /\ ~Loaded(i)'
            BY <1>5, <1>7, <3>1, <3>2 DEF Creating, Loaded
        <3> QED
            BY <1>1, <1>5, <1>6, <1>7, <3>2, <3>3 DEF Changed
    <2>9. CASE CreateTlsReloaded(i)
        <3>1. /\ Creating(i, d) /\ pc[i] = "reloadTls" /\ res[i] = "ok" /\ live[d] = conf[d]
            BY <1>1, <1>5, <2>9 DEF CreateTlsReloaded, Changed, Loaded
        <3>2. /\ ssl'[i] /\ pc'[i] = "idle" /\ chan'[i] = "ok"
              /\ UNCHANGED <<conf, owner, disabled>>
            BY <1>3, <1>4, <1>5, <2>9 DEF CreateTlsReloaded
        <3>3. Creating(i, d)'
            BY <1>5, <1>7, <3>1, <3>2 DEF Creating, Site
        <3> QED
            BY <1>1, <1>5, <1>6, <1>7, <3>1, <3>2, <3>3 DEF Changed
    <2>10. ~(\/ CreateSetupFailed(i) \/ CreateTestFailed(i) \/ CreateTlsTestFailed(i)
             \/ CreateBackTested(i) \/ CreateBackDone(i) \/ CreateAborted(i))
        BY <1>4, <1>5, <1>6 DEF CreateSetupFailed, CreateTestFailed, CreateTlsTestFailed,
            CreateBackTested, CreateBackDone, CreateAborted
    <2> QED
        BY <2>1, <2>2, <2>3, <2>4, <2>5, <2>6, <2>7, <2>8, <2>9, <2>10 DEF CreateStep
<1> QED
    BY <1>8, <1>9

\* Where the handler of an operation on a row can be.
LEMMA RowWorking ==
    ASSUME Known, AgreeInv, NEW i \in Conns, pc[i] # "idle", op[i] \in RowOps
    PROVE  /\ AtWork(i) /\ dom[i] \in Domains /\ Stage(i, dom[i]) /\ Lag(dom[i])
           /\ PcsOf(op[i]) = {"idle", "queued", "test", "reload"}
           /\ pc[i] \in {"queued", "test", "reload"}
           /\ pc[i] # "queued" => res[i] \in {"run", "ok"}
           /\ chan[i] = "open" /\ api[i] = "wait"
           /\ rowStatus[dom[i]] # "absent" /\ rowUser[dom[i]] # NoUser
           /\ conf \in [Domains -> Config] /\ disabled \in [Domains -> Config]
           /\ owner \in [Domains -> Users \cup {"absent", "root"}]
           /\ pc \in [Conns -> Pcs] /\ ssl \in [Conns -> BOOLEAN]
           /\ res \in [Conns -> {"none", "run", "ok", "fail", "timeout"}]
           /\ chan \in [Conns -> {"closed", "open", "ok", "error"}]
           /\ rowStatus \in [Domains -> {"absent", "active", "suspended"}]
<1>1. AtWork(i)
    BY Working
<1>2. PcsOf(op[i]) = {"idle", "queued", "test", "reload"}
    BY DEF PcsOf, RowOps
<1>3. i \in held
    BY <1>1 DEF AtWork, Plumbing
<1>4. rowStatus[dom[i]] # "absent" /\ rowUser[dom[i]] # NoUser
    BY <1>3 DEF Known, HeldInv
<1>5. pc[i] \in {"queued", "test", "reload"} /\ (pc[i] # "queued" => res[i] \in {"run", "ok"})
    BY <1>1, <1>2 DEF AtWork, Plumbing
<1> QED
    BY <1>1, <1>2, <1>4, <1>5 DEF AtWork, Known, TypeInv, TypeOK, AgentTypeOK

LEMMA DeleteKeeps ==
    ASSUME Known, AgreeInv, Healthy, NEW i \in Conns, DeleteStep(i), UNCHANGED <<dbVars, apiVars>>
    PROVE  AgreeInv'
<1> USE DEF Resume, Start, Await, Reply, NoFiles, diskVars
<1>0. Segment(i)
    BY Segments DEF Handle
<1>1. pc[i] # "idle" /\ op[i] = "delete"
    BY DEF DeleteStep, StartDelete, DeleteTested, DeleteReloaded, DeleteAborted
<1>2. PICK d \in Domains : d = dom[i]
    BY <1>1, RowWorking DEF RowOps
<1>3. /\ AtWork(i) /\ Stage(i, d) /\ Lag(d)
      /\ PcsOf("delete") = {"idle", "queued", "test", "reload"}
      /\ pc[i] \in {"queued", "test", "reload"} /\ (pc[i] # "queued" => res[i] \in {"run", "ok"})
      /\ chan[i] = "open" /\ api[i] = "wait" /\ rowStatus[d] \in {"active", "suspended"}
      /\ rowUser[d] # NoUser
      /\ conf \in [Domains -> Config] /\ disabled \in [Domains -> Config]
      /\ owner \in [Domains -> Users \cup {"absent", "root"}] /\ ssl \in [Conns -> BOOLEAN]
      /\ pc \in [Conns -> Pcs] /\ res \in [Conns -> {"none", "run", "ok", "fail", "timeout"}]
      /\ chan \in [Conns -> {"closed", "open", "ok", "error"}]
    BY <1>1, <1>2, RowWorking DEF RowOps
<1>4. op' = op /\ dom' = dom /\ usr' = usr /\ live' = live /\ UNCHANGED <<dbVars, apiVars>>
    BY <1>0 DEF Segment
<1> DEFINE Kept == /\ pc'[i] \in PcsOf("delete") /\ pc'[i] # "queued" /\ pc'[i] # "cert"
                   /\ IF pc'[i] = "idle" THEN chan'[i] = "ok"
                                         ELSE chan'[i] = "open" /\ res'[i] = "run"
                   /\ Lag(d)' /\ Stage(i, d)'
<1>5. Kept => AgreeInv'
    BY <1>0, <1>1, <1>2, <1>3, SegmentKeeps
<1>6. Kept
    <2> USE DEF Stage, Untouched, Lag, ServedAs, Kind, dbVars, apiVars
    <2>1. CASE StartDelete(i)
        <3>1. Settled(d)
            BY <1>3, <2>1 DEF StartDelete
        <3>2. conf[d] \in Site \cup Stub /\ owner[d] = rowUser[d] /\ live[d] = conf[d]
              /\ (conf[d] \in Site <=> rowStatus[d] = "active")
            BY <1>3, <3>1 DEF Settled, IsSite, IsStub, Recorded, Site, Stub
        <3>3. conf[d] # "none"
            BY <3>2 DEF Site, Stub
        <3>4. /\ pc'[i] = "test" /\ res'[i] = "run" /\ chan'[i] = "open"
              /\ conf'[d] = "none" /\ disabled'[d] = "none" /\ owner' = owner
            BY <1>2, <1>3, <2>1, <3>3 DEF StartDelete
        <3>5. Deleting(i, d)' /\ ~Loaded(i)'
            BY <1>3, <1>4, <3>2, <3>4 DEF Deleting, Loaded
        <3>6. Lag(d)'
            BY <1>3, <1>4, <3>2, <3>4 DEF Site, Stub
        <3> QED
            BY <1>1, <1>3, <1>4, <3>4, <3>5, <3>6 DEF Changed
    <2>2. CASE DeleteTested(i)
        <3>1. Deleting(i, d) /\ pc[i] = "test"
            BY <1>1, <1>3, <2>2 DEF DeleteTested, Changed
        <3>2. /\ pc'[i] = "reload" /\ res'[i] = "run" /\ chan'[i] = "open"
              /\ UNCHANGED <<conf, owner, disabled>>
            BY <1>3, <2>2 DEF DeleteTested
        <3>3. Deleting(i, d)' /\ ~Loaded(i)'
            BY <1>3, <1>4, <3>1, <3>2 DEF Deleting, Loaded
        <3> QED
            BY <1>1, <1>3, <1>4, <3>2, <3>3 DEF Changed
    <2>3. CASE DeleteReloaded(i)
        <3>1. Deleting(i, d) /\ pc[i] = "reload" /\ res[i] = "ok" /\ live[d] = conf[d]
            BY <1>1, <1>3, <2>3 DEF DeleteReloaded, Changed, Loaded
        <3>2. /\ pc'[i] = "idle" /\ chan'[i] = "ok" /\ owner'[d] = "absent"
              /\ UNCHANGED <<conf, disabled>>
            BY <1>2, <1>3, <2>3 DEF DeleteReloaded
        <3>3. Deleting(i, d)'
            BY <1>3, <1>4, <3>1, <3>2 DEF Deleting
        <3> QED
            BY <1>1, <1>3, <1>4, <3>1, <3>2, <3>3 DEF Changed
    <2>4. ~DeleteAborted(i)
        BY <1>3 DEF DeleteAborted
    <2> QED
        BY <2>1, <2>2, <2>3, <2>4 DEF DeleteStep
<1> QED
    BY <1>5, <1>6

LEMMA SuspendKeeps ==
    ASSUME Known, AgreeInv, Healthy, NEW i \in Conns, SuspendStep(i), UNCHANGED <<dbVars, apiVars>>
    PROVE  AgreeInv'
<1> USE DEF Resume, Start, Await, Reply, NoFiles, diskVars
<1>0. Segment(i)
    BY Segments DEF Handle
<1>1. pc[i] # "idle" /\ op[i] = "suspend"
    BY DEF SuspendStep, StartSuspend, SuspendTested, SuspendTestFailed, SuspendReloaded,
        SuspendAborted
<1>2. PICK d \in Domains : d = dom[i]
    BY <1>1, RowWorking DEF RowOps
<1>3. /\ AtWork(i) /\ Stage(i, d) /\ Lag(d) /\ rowStatus[d] = "active"
      /\ PcsOf("suspend") = {"idle", "queued", "test", "reload"}
      /\ pc[i] \in {"queued", "test", "reload"} /\ (pc[i] # "queued" => res[i] \in {"run", "ok"})
      /\ chan[i] = "open" /\ api[i] = "wait" /\ rowUser[d] # NoUser
      /\ conf \in [Domains -> Config] /\ disabled \in [Domains -> Config]
      /\ pc \in [Conns -> Pcs] /\ res \in [Conns -> {"none", "run", "ok", "fail", "timeout"}]
      /\ chan \in [Conns -> {"closed", "open", "ok", "error"}]
    BY <1>1, <1>2, RowWorking, ZenonT(40) DEF RowOps, Stage
<1>4. op' = op /\ dom' = dom /\ usr' = usr /\ live' = live /\ UNCHANGED <<dbVars, apiVars>>
    BY <1>0 DEF Segment
<1> DEFINE Kept == /\ pc'[i] \in PcsOf("suspend") /\ pc'[i] # "queued" /\ pc'[i] # "cert"
                   /\ IF pc'[i] = "idle" THEN chan'[i] = "ok"
                                         ELSE chan'[i] = "open" /\ res'[i] = "run"
                   /\ Lag(d)' /\ Stage(i, d)'
<1>5. Kept => AgreeInv'
    BY <1>0, <1>1, <1>2, <1>3, SegmentKeeps
<1>6. Kept
    <2> USE DEF Stage, Untouched, Lag, ServedAs, Kind, dbVars, apiVars
    <2>1. CASE StartSuspend(i)
        <3>1. Settled(d)
            BY <1>3, <2>1 DEF StartSuspend
        <3>2. conf[d] \in Site /\ disabled[d] = "none" /\ live[d] = conf[d] /\ Recorded(d)
            BY <1>3, <3>1 DEF Settled, IsSite
        <3>3. /\ pc'[i] = "test" /\ res'[i] = "run" /\ chan'[i] = "open"
              /\ conf'[d] \in Stub /\ disabled'[d] = conf[d] /\ owner' = owner
            BY <1>2, <1>3, <2>1, <3>2 DEF StartSuspend, StubConfig, Site, Stub
        <3>4. IsStub(d)' /\ Recorded(d)' /\ ~Loaded(i)'
            BY <1>3, <1>4, <3>2, <3>3 DEF IsStub, Recorded, Loaded, Site, Stub
        <3>5. Lag(d)'
            BY <1>3, <1>4, <3>2 DEF Site, Stub
        <3> QED
            BY <1>1, <1>3, <1>4, <3>3, <3>4, <3>5 DEF Changed
    <2>2. CASE SuspendTested(i)
        <3>1. IsStub(d) /\ Recorded(d) /\ pc[i] = "test"
            BY <1>1, <1>3, <2>2 DEF SuspendTested, Changed
        <3>2. /\ pc'[i] = "reload" /\ res'[i] = "run" /\ chan'[i] = "open"
              /\ UNCHANGED <<conf, owner, disabled>>
            BY <1>3, <2>2 DEF SuspendTested
        <3>3. IsStub(d)' /\ Recorded(d)' /\ ~Loaded(i)'
            BY <1>3, <1>4, <3>1, <3>2 DEF IsStub, Recorded, Leftover, Loaded
        <3> QED
            BY <1>1, <1>3, <1>4, <3>2, <3>3 DEF Changed
    <2>3. CASE SuspendReloaded(i)
        <3>1. IsStub(d) /\ Recorded(d) /\ pc[i] = "reload" /\ live[d] = conf[d]
            BY <1>1, <1>3, <2>3 DEF SuspendReloaded, Changed, Loaded
        <3>2. /\ pc'[i] = "idle" /\ chan'[i] = "ok" /\ UNCHANGED <<conf, owner, disabled>>
            BY <1>2, <1>3, <2>3 DEF SuspendReloaded
        <3>3. IsStub(d)' /\ Recorded(d)'
            BY <1>3, <1>4, <3>1, <3>2 DEF IsStub, Recorded, Leftover
        <3> QED
            BY <1>1, <1>3, <1>4, <3>1, <3>2, <3>3 DEF Changed
    <2>4. ~SuspendTestFailed(i) /\ ~SuspendAborted(i)
        BY <1>3 DEF SuspendTestFailed, SuspendAborted
    <2> QED
        BY <2>1, <2>2, <2>3, <2>4 DEF SuspendStep
<1> QED
    BY <1>5, <1>6

LEMMA UnsuspendKeeps ==
    ASSUME Known, AgreeInv, Healthy, NEW i \in Conns, UnsuspendStep(i),
           UNCHANGED <<dbVars, apiVars>>
    PROVE  AgreeInv'
<1> USE DEF Resume, Start, Await, Reply, NoFiles, diskVars
<1>0. Segment(i)
    BY Segments DEF Handle
<1>1. pc[i] # "idle" /\ op[i] = "unsuspend"
    BY DEF UnsuspendStep, StartUnsuspend, UnsuspendTested, UnsuspendTestFailed,
        UnsuspendReloaded, UnsuspendAborted
<1>2. PICK d \in Domains : d = dom[i]
    BY <1>1, RowWorking DEF RowOps
<1>3. /\ AtWork(i) /\ Stage(i, d) /\ Lag(d) /\ rowStatus[d] = "suspended"
      /\ PcsOf("unsuspend") = {"idle", "queued", "test", "reload"}
      /\ pc[i] \in {"queued", "test", "reload"} /\ (pc[i] # "queued" => res[i] \in {"run", "ok"})
      /\ chan[i] = "open" /\ api[i] = "wait" /\ rowUser[d] # NoUser
      /\ conf \in [Domains -> Config] /\ disabled \in [Domains -> Config]
      /\ pc \in [Conns -> Pcs] /\ res \in [Conns -> {"none", "run", "ok", "fail", "timeout"}]
      /\ chan \in [Conns -> {"closed", "open", "ok", "error"}]
    BY <1>1, <1>2, RowWorking, ZenonT(40) DEF RowOps, Stage
<1>4. op' = op /\ dom' = dom /\ usr' = usr /\ live' = live /\ UNCHANGED <<dbVars, apiVars>>
    BY <1>0 DEF Segment
<1> DEFINE Kept == /\ pc'[i] \in PcsOf("unsuspend") /\ pc'[i] # "queued" /\ pc'[i] # "cert"
                   /\ IF pc'[i] = "idle" THEN chan'[i] = "ok"
                                         ELSE chan'[i] = "open" /\ res'[i] = "run"
                   /\ Lag(d)' /\ Stage(i, d)'
<1>5. Kept => AgreeInv'
    BY <1>0, <1>1, <1>2, <1>3, SegmentKeeps
<1>6. Kept
    <2> USE DEF Stage, Untouched, Lag, ServedAs, Kind, dbVars, apiVars
    <2>1. CASE StartUnsuspend(i)
        <3>1. Settled(d)
            BY <1>3, <2>1 DEF StartUnsuspend
        <3>2. conf[d] \in Stub /\ disabled[d] \in Site /\ live[d] = conf[d] /\ Recorded(d)
            BY <1>3, <3>1 DEF Settled, IsStub
        <3>3. /\ pc'[i] = "test" /\ res'[i] = "run" /\ chan'[i] = "open"
              /\ conf'[d] = disabled[d] /\ disabled'[d] = "none" /\ owner' = owner
            BY <1>2, <1>3, <2>1, <3>2 DEF StartUnsuspend, Site
        <3>4. IsSite(d)' /\ Recorded(d)' /\ ~Loaded(i)'
            BY <1>3, <1>4, <3>2, <3>3 DEF IsSite, Recorded, Loaded, Site, Stub
        <3>5. Lag(d)'
            BY <1>3, <1>4, <3>2 DEF Site, Stub
        <3> QED
            BY <1>1, <1>3, <1>4, <3>3, <3>4, <3>5 DEF Changed
    <2>2. CASE UnsuspendTested(i)
        <3>1. IsSite(d) /\ Recorded(d) /\ pc[i] = "test"
            BY <1>1, <1>3, <2>2 DEF UnsuspendTested, Changed
        <3>2. /\ pc'[i] = "reload" /\ res'[i] = "run" /\ chan'[i] = "open"
              /\ UNCHANGED <<conf, owner, disabled>>
            BY <1>3, <2>2 DEF UnsuspendTested
        <3>3. IsSite(d)' /\ Recorded(d)' /\ ~Loaded(i)'
            BY <1>3, <1>4, <3>1, <3>2 DEF IsSite, Recorded, Leftover, Loaded
        <3> QED
            BY <1>1, <1>3, <1>4, <3>2, <3>3 DEF Changed
    <2>3. CASE UnsuspendReloaded(i)
        <3>1. IsSite(d) /\ Recorded(d) /\ pc[i] = "reload" /\ live[d] = conf[d]
            BY <1>1, <1>3, <2>3 DEF UnsuspendReloaded, Changed, Loaded
        <3>2. /\ pc'[i] = "idle" /\ chan'[i] = "ok" /\ UNCHANGED <<conf, owner, disabled>>
            BY <1>2, <1>3, <2>3 DEF UnsuspendReloaded
        <3>3. IsSite(d)' /\ Recorded(d)'
            BY <1>3, <1>4, <3>1, <3>2 DEF IsSite, Recorded, Leftover
        <3> QED
            BY <1>1, <1>3, <1>4, <3>1, <3>2, <3>3 DEF Changed
    <2>4. ~UnsuspendTestFailed(i) /\ ~UnsuspendAborted(i)
        BY <1>3 DEF UnsuspendTestFailed, UnsuspendAborted
    <2> QED
        BY <2>1, <2>2, <2>3, <2>4 DEF UnsuspendStep
<1> QED
    BY <1>5, <1>6

LEMMA RebuildKeeps ==
    ASSUME Known, AgreeInv, Healthy, NEW i \in Conns, RebuildStep(i), UNCHANGED <<dbVars, apiVars>>
    PROVE  AgreeInv'
<1> USE DEF Resume, Start, Await, Reply, NoFiles, diskVars
<1>0. Segment(i)
    BY Segments DEF Handle
<1>1. pc[i] # "idle" /\ op[i] = "rebuild"
    BY SMTT(30) DEF RebuildStep, StartRebuild, RebuildTested, RebuildTestFailed,
        RebuildBackTested, RebuildRaised, RebuildReloaded, RebuildReloadFailed
<1>2. PICK d \in Domains : d = dom[i]
    BY <1>1, RowWorking DEF RowOps
<1>3. /\ AtWork(i) /\ Stage(i, d) /\ Lag(d) /\ rowStatus[d] \in {"active", "suspended"}
      /\ PcsOf("rebuild") = {"idle", "queued", "test", "reload"}
      /\ pc[i] \in {"queued", "test", "reload"} /\ (pc[i] # "queued" => res[i] \in {"run", "ok"})
      /\ chan[i] = "open" /\ api[i] = "wait" /\ rowUser[d] # NoUser
      /\ conf \in [Domains -> Config] /\ disabled \in [Domains -> Config]
      /\ pc \in [Conns -> Pcs] /\ res \in [Conns -> {"none", "run", "ok", "fail", "timeout"}]
      /\ chan \in [Conns -> {"closed", "open", "ok", "error"}] /\ ssl \in [Conns -> BOOLEAN]
    BY <1>1, <1>2, RowWorking DEF RowOps
<1>4. op' = op /\ dom' = dom /\ usr' = usr /\ live' = live /\ UNCHANGED <<dbVars, apiVars>>
    BY <1>0 DEF Segment
<1> DEFINE Kept == /\ pc'[i] \in PcsOf("rebuild") /\ pc'[i] # "queued" /\ pc'[i] # "cert"
                   /\ IF pc'[i] = "idle" THEN chan'[i] = "ok"
                                         ELSE chan'[i] = "open" /\ res'[i] = "run"
                   /\ Lag(d)' /\ Stage(i, d)'
<1>5. Kept => AgreeInv'
    BY <1>0, <1>1, <1>2, <1>3, SegmentKeeps
<1>6. Kept
    <2> USE DEF Stage, Untouched, Lag, ServedAs, Kind, dbVars, apiVars
    <2>1. CASE StartRebuild(i)
        <3>1. Settled(d)
            BY <1>3, <2>1 DEF StartRebuild
        <3>2. cert[d] \in BOOLEAN
            BY DEF Known, TypeInv, TypeOK, AgentTypeOK
        <3>3. /\ ssl'[i] = cert[d] /\ owner' = owner
              /\ SiteConfig(d) \in Site /\ (SiteConfig(d) = "https" <=> cert[d])
            BY <1>2, <1>3, <2>1, <3>2 DEF StartRebuild, SiteConfig, Site
        <3>4. owner[d] = rowUser[d]
            BY <1>3, <3>1 DEF Settled, Recorded
        <3>5. CASE rowStatus[d] = "suspended"
            <4>1. conf[d] \in Stub /\ disabled[d] \in Site /\ live[d] = conf[d]
                BY <3>1, <3>5 DEF Settled, IsStub
            <4>2. /\ pc'[i] = "idle" /\ chan'[i] = "ok" /\ conf' = conf
                  /\ disabled'[d] = SiteConfig(d)
                BY <1>2, <1>3, <2>1, <4>1 DEF StartRebuild, Site
            <4>3. Rebuilding(i, d)'
                BY <1>4, <3>3, <3>4, <3>5, <4>1, <4>2 DEF Rebuilding, IsStub, Stub
            <4> QED
                BY <1>1, <1>3, <1>4, <4>1, <4>2, <4>3 DEF Changed
        <3>6. CASE rowStatus[d] = "active"
            <4>1. conf[d] \in Site /\ disabled[d] = "none" /\ live[d] = conf[d]
                BY <3>1, <3>6 DEF Settled, IsSite
            <4>2. /\ pc'[i] = "test" /\ res'[i] = "run" /\ chan'[i] = "open"
                  /\ disabled' = disabled /\ conf'[d] = SiteConfig(d)
                BY <1>2, <1>3, <2>1, <4>1 DEF StartRebuild
            <4>3. Rebuilding(i, d)' /\ ~Loaded(i)'
                BY <1>4, <3>3, <3>4, <3>6, <4>1, <4>2 DEF Rebuilding, IsSite, Loaded
            <4>4. Lag(d)'
                BY <1>4, <3>6, <4>1 DEF Site, Stub
            <4> QED
                BY <1>1, <1>3, <1>4, <4>2, <4>3, <4>4 DEF Changed
        <3> QED
            BY <1>3, <3>5, <3>6
    <2>2. CASE RebuildTested(i)
        <3>1. Rebuilding(i, d) /\ pc[i] = "test"
            BY <1>1, <1>3, <2>2 DEF RebuildTested, Changed
        <3>2. /\ pc'[i] = "reload" /\ res'[i] = "run" /\ chan'[i] = "open"
              /\ UNCHANGED <<conf, owner, disabled, ssl>>
            BY <1>3, <2>2 DEF RebuildTested
        <3>3. Rebuilding(i, d)' /\ ~Loaded(i)'
            BY <1>3, <1>4, <3>1, <3>2 DEF Rebuilding, IsSite, IsStub, Loaded
        <3> QED
            BY <1>1, <1>3, <1>4, <3>2, <3>3 DEF Changed
    <2>3. CASE RebuildReloaded(i)
        <3>1. Rebuilding(i, d) /\ pc[i] = "reload" /\ live[d] = conf[d]
            BY <1>1, <1>3, <2>3 DEF RebuildReloaded, Changed, Loaded
        <3>2. /\ pc'[i] = "idle" /\ chan'[i] = "ok" /\ UNCHANGED <<conf, owner, disabled, ssl>>
            BY <1>2, <1>3, <2>3 DEF RebuildReloaded
        <3>3. Rebuilding(i, d)'
            BY <1>3, <1>4, <3>1, <3>2 DEF Rebuilding, IsSite, IsStub
        <3> QED
            BY <1>1, <1>3, <1>4, <3>1, <3>2, <3>3 DEF Changed
    <2>4. ~RebuildTestFailed(i) /\ ~RebuildBackTested(i) /\ ~RebuildRaised(i)
          /\ ~RebuildReloadFailed(i)
        BY <1>3 DEF RebuildTestFailed, RebuildBackTested, RebuildRaised, RebuildReloadFailed
    <2> QED
        BY <2>1, <2>2, <2>3, <2>4 DEF RebuildStep
<1> QED
    BY <1>5, <1>6

LEMMA VhostKeeps ==
    ASSUME Known, AgreeInv, Healthy, NEW i \in Conns, VhostStep(i), UNCHANGED <<dbVars, apiVars>>
    PROVE  AgreeInv'
<1> USE DEF Resume, Start, Await, Reply, NoFiles, diskVars
<1>0. Segment(i)
    BY Segments DEF Handle
<1>1. pc[i] # "idle" /\ op[i] \in HostOps
    BY SMTT(30) DEF VhostStep, StartReload, ReloadTested, ReloadDone, WriteVhost, DeleteVhost,
        HostOps
<1>2. AtWork(i)
    BY <1>1, Working
<1>3. dom[i] = NoDomain /\ NoDomain \notin Domains
    BY <1>1, <1>2, DomainsAssumption DEF AtWork, Plumbing
<1>4. /\ pc \in [Conns -> Pcs] /\ res \in [Conns -> {"none", "run", "ok", "fail", "timeout"}]
      /\ chan \in [Conns -> {"closed", "open", "ok", "error"}]
    BY DEF Known, TypeInv, TypeOK, AgentTypeOK
<1>5. /\ pc[i] \in PcsOf(op[i]) /\ chan[i] = "open"
      /\ pc[i] \in {"test", "reload"} => res[i] \in {"run", "ok"}
    BY <1>1, <1>2 DEF AtWork, Plumbing
<1>6. {"idle", "queued"} \subseteq PcsOf(op[i])
      /\ (op[i] = "reload" => PcsOf(op[i]) = {"idle", "queued", "test", "reload"})
    BY <1>1 DEF PcsOf, HostOps, RowOps
<1>7. /\ pc'[i] \in PcsOf(op[i]) /\ pc'[i] # "queued" /\ pc'[i] # "cert"
      /\ IF pc'[i] = "idle" THEN chan'[i] = "ok" ELSE chan'[i] = "open" /\ res'[i] = "run"
    <2>1. CASE StartReload(i) \/ ReloadTested(i)
        BY <1>4, <1>5, <1>6, <2>1 DEF StartReload, ReloadTested
    <2>2. CASE ReloadDone(i)
        BY <1>4, <1>5, <1>6, <2>2 DEF ReloadDone
    <2>3. CASE WriteVhost(i) \/ DeleteVhost(i)
        BY <1>4, <1>5, <1>6, <2>3 DEF WriteVhost, DeleteVhost
    <2> QED
        BY <2>1, <2>2, <2>3 DEF VhostStep
<1> QED
    BY <1>0, <1>2, <1>3, <1>7, SegmentKeeps

LEMMA HandleKeeps ==
    ASSUME Known, AgreeInv, Healthy, NEW i \in Conns, Handle(i), UNCHANGED <<dbVars, apiVars>>
    PROVE  AgreeInv'
BY CreateKeeps, DeleteKeeps, SuspendKeeps, UnsuspendKeeps, RebuildKeeps, VhostKeeps DEF Handle

-----------------------------------------------------------------------------
(* The commands.                                                           *)

LEMMA NamesAreUsers ==
    ASSUME NEW d \in Domains
    PROVE  Names(d) \subseteq Users
<1>1. Candidates[d] \in Seq(Users)
    BY CandidatesAssumption
<1>2. \A k \in DOMAIN Candidates[d] : Candidates[d][k] \in Users
    BY <1>1
<1> QED
    BY <1>2 DEF Names

\* What every command but the reload leaves alone.
CommandFrame(i) ==
    /\ UNCHANGED <<conf, disabled, snippet, stray, live, op, dom, usr, chan, pc, ssl, orphans,
                   dbVars, apiVars>>
    /\ \A d \in Domains : cert'[d] => cert[d] \/ pc[i] = "cert"
    /\ \A j \in Conns \ {i} : res'[j] = res[j]
    /\ \A d \in Domains \ {dom[i]} : owner'[d] = owner[d]

LEMMA CommandKeeps ==
    ASSUME Known, AgreeInv, NEW i \in Conns, AtWork(i), CommandFrame(i),
           NEW d \in Domains \cup {NoDomain}, d = dom[i],
           res'[i] \in {"run", "ok"} \/ (pc[i] = "cert" /\ res'[i] = "fail"),
           d \in Domains => Stage(i, d)'
    PROVE  AgreeInv'
<1>1. Apart(i, d)
    <2>1. \A j \in Conns \ {i} : d \in Domains => dom[j] # d
        BY DomainsAssumption DEF AtWork, AgreeInv, Exclusive, PlumbingInv, Plumbing
    <2> QED
        BY <2>1 DEF Apart, CommandFrame, dbVars, apiVars
<1>2. Plumbing(i)'
    BY DEF CommandFrame, AtWork, Plumbing, apiVars
<1>3. Exclusive' /\ NameInv'
    BY DEF CommandFrame, dbVars, apiVars, AgreeInv, Exclusive, NameInv, TakenUsers, Rows
<1>4. HostInv'
    BY DEF CommandFrame, AgreeInv, HostInv
<1>5. d \in Domains => Lag(d)'
    BY DEF CommandFrame, dbVars, AgreeInv, LagInv, Lag, ServedAs
<1>6. dom'[i] = d
    BY DEF CommandFrame
<1> QED
    BY <1>1, <1>2, <1>3, <1>4, <1>5, <1>6, Assemble

\* A reload shows every domain as its files say, those another request is at
\* work on included.
LEMMA ReloadKeeps ==
    ASSUME Known, AgreeInv, NEW i \in Conns, live' = conf,
           \/ pc[i] \in {"reload", "reloadTls"} /\ res' = [res EXCEPT ![i] = "ok"]
           \/ UNCHANGED res,
           UNCHANGED <<diskVars, op, dom, usr, chan, pc, ssl, bkp, orphans, dbVars, apiVars>>
    PROVE  AgreeInv'
<1> USE DEF diskVars, dbVars, apiVars
<1>1. PlumbingInv'
    BY DEF AgreeInv, PlumbingInv, Plumbing, Known, TypeInv, TypeOK, AgentTypeOK
<1>2. Exclusive' /\ NameInv' /\ HostInv'
    BY DEF AgreeInv, Exclusive, NameInv, HostInv, TakenUsers, Rows
<1>3. ASSUME NEW d \in Domains, Settled(d) PROVE Settled(d)'
    BY <1>3 DEF Settled, IsFree, IsSite, IsStub, Recorded, Leftover
<1>4. SettledInv'
    BY <1>3 DEF AgreeInv, SettledInv, Quiescent
<1>5. LagInv'
    BY DEF LagInv, Lag, ServedAs
<1>6. ASSUME NEW j \in Conns, NEW d \in Domains, dom[j] = d PROVE Stage(j, d)'
    <2>1. Stage(j, d) /\ Untouched(j)' = Untouched(j)
        BY <1>6 DEF AgreeInv, StageInv, Untouched
    <2>2. /\ pc[j] = "chown" => res'[j] = res[j]
          /\ live'[d] = conf'[d]
        BY DEF Known, TypeInv, TypeOK, AgentTypeOK
    <2>3. Changed(j, d) => Changed(j, d)'
        <3>1. Creating(j, d) => Creating(j, d)'
            BY <2>2 DEF Creating
        <3>2. /\ Deleting(j, d) => Deleting(j, d)'
              /\ Rebuilding(j, d) => Rebuilding(j, d)'
              /\ IsStub(d) => IsStub(d)'
              /\ IsSite(d) => IsSite(d)'
              /\ Recorded(d) => Recorded(d)'
            BY DEF Deleting, Rebuilding, IsSite, IsStub, Recorded, Leftover
        <3> QED
            BY <2>2, <3>1, <3>2 DEF Changed
    <2> QED
        BY <1>3, <2>1, <2>3 DEF Stage
<1>7. StageInv'
    BY <1>6 DEF StageInv
<1> QED
    BY <1>1, <1>2, <1>4, <1>5, <1>7 DEF AgreeInv

LEMMA RunKeeps ==
    ASSUME Known, AgreeInv, Healthy, NEW i \in Conns, Run(i), UNCHANGED <<dbVars, apiVars>>
    PROVE  AgreeInv'
<1> USE DEF Executes, Outcome, diskVars
<1>0. /\ pc \in [Conns -> Pcs] /\ res \in [Conns -> {"none", "run", "ok", "fail", "timeout"}]
      /\ owner \in [Domains -> Users \cup {"absent", "root"}] /\ cert \in [Domains -> BOOLEAN]
      /\ dom[i] \in Domains \cup {NoDomain}
      /\ Faults \cap {"cmdfail", "cmdtimeout"} = {}
    BY DEF Known, TypeInv, TypeOK, AgentTypeOK, Healthy
<1>1. Loadable
    BY AlwaysLoadable DEF Known, AgreeInv
<1>2. ~CommandFails(i)
    BY <1>0 DEF CommandFails
<1>3. pc[i] \notin {"idle", "queued"}
    BY <1>2 DEF Run, RunTest, RunReload, RunUseradd, RunChown, RunCertbot, CertRefused,
        CertIssued, DeployHook, Command
<1>4. AtWork(i)
    BY <1>3, Working
<1>5. PICK d \in Domains \cup {NoDomain} : d = dom[i]
    BY <1>0
<1>6. d \in Domains => Stage(i, d)
    BY <1>5 DEF AgreeInv, StageInv
<1>7. pc[i] \in PcsOf(op[i])
    BY <1>4 DEF AtWork, Plumbing
<1>8. CASE RunReload(i)
    <2>1. pc[i] \in {"reload", "reloadTls"}
        <3>1. pc[i] \in {"reload", "reloadTls", "reloadBack"}
            BY <1>0, <1>8 DEF RunReload, Command, Pcs
        <3>2. "reloadBack" \notin PcsOf(op[i])
            BY DEF PcsOf, RowOps, Known, TypeInv, TypeOK, AgentTypeOK, AllOps
        <3> QED
            BY <1>7, <3>1, <3>2
    <2>2. live' = conf /\ res' = [res EXCEPT ![i] = "ok"]
        BY <1>0, <1>1, <1>8 DEF RunReload, ReloadNginx
    <2> QED
        BY <1>8, <2>1, <2>2, ReloadKeeps DEF RunReload
<1>9. CASE RunTest(i)
    <2>1. pc[i] \in {"test", "testTls", "testBack"} /\ res'[i] = "ok"
        BY <1>0, <1>1, <1>9 DEF RunTest, Command, Pcs
    <2>2. CommandFrame(i)
        BY <1>0, <1>9 DEF RunTest, CommandFrame
    <2>3. d \in Domains => Stage(i, d)'
        <3>1. SUFFICES ASSUME d \in Domains PROVE Stage(i, d)'
            OBVIOUS
        <3>2. Untouched(i)' = Untouched(i) /\ Loaded(i)' = Loaded(i)
            BY <2>1, <2>2 DEF Untouched, Loaded, CommandFrame, apiVars
        <3>3. Settled(d) => Settled(d)'
            BY <1>9, <3>1, SettledKept DEF RunTest, dbVars
        <3>4. Changed(i, d) => Changed(i, d)'
            BY <2>1, <3>2, <1>9 DEF RunTest, Changed, Creating, Deleting, Rebuilding, IsSite,
                IsStub, Recorded, Leftover, dbVars
        <3> QED
            BY <1>6, <1>9, <3>1, <3>2, <3>3, <3>4 DEF Stage, RunTest, dbVars, apiVars
    <2> QED
        BY <1>4, <1>5, <2>1, <2>2, <2>3, CommandKeeps
<1>10. ASSUME op[i] = "create" PROVE d \in Domains /\ usr[i] \in Names(d) /\ usr[i] \in Users
    <2>1. d \in Domains
        BY <1>4, <1>5, <1>10 DEF AtWork
    <2>2. usr[i] \in Names(d)
        BY <1>4, <1>5, <1>10 DEF AtWork, Plumbing
    <2> QED
        BY <2>1, <2>2, NamesAreUsers
<1>11. pc[i] \in {"user", "chown", "cert"} => op[i] = "create"
    BY DEF Known, TypeInv, RequestOK
<1>12. CASE RunUseradd(i)
    <2>1. pc[i] = "user" /\ res'[i] = "ok"
        BY <1>0, <1>12 DEF RunUseradd, Command, Pcs
    <2>2. CommandFrame(i)
        BY <1>0, <1>12 DEF RunUseradd, CommandFrame
    <2>3. Untouched(i) /\ Untouched(i)' /\ op[i] = "create" /\ d \in Domains
        BY <1>10, <1>11, <2>1, <2>2 DEF Untouched, CommandFrame
    <2>4. Settled(d)'
        BY <1>6, <1>12, <2>3, SettledKept DEF RunUseradd, Stage, dbVars
    <2>5. Stage(i, d)'
        BY <1>6, <2>2, <2>3, <2>4 DEF Stage, CommandFrame, dbVars, apiVars
    <2> QED
        BY <1>4, <1>5, <2>1, <2>2, <2>5, CommandKeeps
<1>13. CASE RunChown(i)
    <2>1. pc[i] = "chown" /\ op[i] = "create" /\ d \in Domains
        BY <1>0, <1>10, <1>11, <1>13 DEF RunChown, Command, Pcs
    <2>2. Creating(i, d) /\ ~Untouched(i) /\ ~Loaded(i)
        BY <1>4, <1>6, <2>1 DEF Stage, Changed, Untouched, Loaded, AtWork
    <2>3. owner[d] # "absent"
        BY <1>10, <2>1, <2>2, UsersAssumption DEF Creating
    <2>4. res'[i] = "ok" /\ owner'[d] = usr[i]
        BY <1>0, <1>5, <1>13, <2>1, <2>3 DEF RunChown, Chown
    <2>5. CommandFrame(i)
        BY <1>0, <1>13 DEF RunChown, CommandFrame, Chown
    <2>6. Creating(i, d)' /\ ~Untouched(i)' /\ ~Loaded(i)'
        BY <2>1, <2>2, <2>4, <2>5 DEF Creating, Untouched, Loaded, CommandFrame, apiVars
    <2>7. Stage(i, d)'
        BY <1>6, <2>1, <2>5, <2>6 DEF Stage, Changed, CommandFrame, dbVars, apiVars
    <2> QED
        BY <1>4, <1>5, <2>4, <2>5, <2>7, CommandKeeps
<1>14. CASE RunCertbot(i) \/ CertRefused(i)
    <2>1. /\ pc[i] = "cert" /\ op[i] = "create" /\ d \in Domains
          /\ res'[i] \in {"ok", "fail"}
        BY <1>0, <1>10, <1>11, <1>14 DEF RunCertbot, CertRefused, Command, Pcs
    <2>2. CommandFrame(i) /\ UNCHANGED owner
        BY <1>0, <1>14, <2>1 DEF RunCertbot, CertRefused, CommandFrame
    <2>3. Creating(i, d) /\ ~Untouched(i) /\ live[d] = conf[d]
        BY <1>4, <1>6, <2>1 DEF Stage, Changed, Untouched, Loaded, AtWork
    <2>4. Creating(i, d)' /\ ~Untouched(i)' /\ live'[d] = conf'[d]
        BY <2>1, <2>2, <2>3 DEF Creating, Untouched, CommandFrame, apiVars
    <2>5. Stage(i, d)'
        BY <1>6, <2>1, <2>2, <2>4 DEF Stage, Changed, CommandFrame, dbVars, apiVars
    <2> QED
        BY <1>4, <1>5, <2>1, <2>2, <2>5, CommandKeeps
<1>15. CASE CertIssued(i)
    <2>1. pc[i] = "cert" /\ op[i] = "create" /\ d \in Domains /\ UNCHANGED res /\ res[i] = "run"
        BY <1>0, <1>10, <1>11, <1>15
        DEF CertIssued, Command, Pcs, reqVars, hVars, AgreeInv, HostInv
    <2>2. CommandFrame(i) /\ UNCHANGED owner
        BY <1>0, <1>15, <2>1 DEF CertIssued, CommandFrame, reqVars, hVars
    <2>3. Creating(i, d) /\ ~Untouched(i) /\ live[d] = conf[d]
        BY <1>4, <1>6, <2>1 DEF Stage, Changed, Untouched, Loaded, AtWork
    <2>4. Creating(i, d)' /\ ~Untouched(i)' /\ live'[d] = conf'[d]
        BY <2>1, <2>2, <2>3 DEF Creating, Untouched, CommandFrame, apiVars
    <2>5. Stage(i, d)'
        BY <1>6, <2>1, <2>2, <2>4 DEF Stage, Changed, CommandFrame, dbVars, apiVars
    <2> QED
        BY <1>4, <1>5, <2>1, <2>2, <2>5, CommandKeeps
<1>16. CASE DeployHook(i)
    BY <1>1, <1>16, ReloadKeeps DEF DeployHook, ReloadNginx, reqVars, hVars
<1> QED
    BY <1>2, <1>8, <1>9, <1>12, <1>13, <1>14, <1>15, <1>16 DEF Run

\* A request refused before its handler starts has changed nothing, and the
\* snippet only makes more certificates usable.
LEMMA InterruptKeeps ==
    ASSUME Known, AgreeInv, Healthy, UNCHANGED <<dbVars, apiVars>>,
           \/ \E i \in Conns : HandlerTimeout(i) \/ Refuse(i)
           \/ \E o \in orphans : OrphanRuns(o)
           \/ AgentCrash
           \/ InstallSnippet
    PROVE  AgreeInv'
<1>0. /\ "handlertimeout" \notin Faults /\ "crash" \notin Faults /\ orphans = {}
    BY DEF Healthy, AgreeInv, HostInv
<1>1. ASSUME NEW i \in Conns, Refuse(i) PROVE AgreeInv'
    <2> USE <1>1 DEF Refuse, Reply, NoFiles, diskVars, reqVars
    <2>0. /\ pc \in [Conns -> Pcs] /\ res \in [Conns -> {"none", "run", "ok", "fail", "timeout"}]
          /\ chan \in [Conns -> {"closed", "open", "ok", "error"}]
          /\ dom[i] \in Domains \cup {NoDomain}
        BY DEF Known, TypeInv, TypeOK, AgentTypeOK
    <2>1. AtWork(i)
        BY Working
    <2>2. PICK d \in Domains \cup {NoDomain} : d = dom[i]
        BY <2>0
    <2>3. Segment(i)
        BY <2>0 DEF Segment, AgreeInv, HostInv
    <2>4. pc'[i] = "idle" /\ chan'[i] = "error"
        BY <2>0, <2>1 DEF AtWork
    <2>5. "idle" \in PcsOf(op[i])
        BY <2>1 DEF AtWork, PcsOf, RowOps, HostOps, Known, TypeInv, TypeOK, AgentTypeOK, AllOps
    <2>6. ASSUME d \in Domains PROVE Lag(d)' /\ Stage(i, d)'
        <3>1. Lag(d) /\ Stage(i, d)
            BY <2>2, <2>6 DEF AgreeInv, LagInv, StageInv
        <3>2. Untouched(i) /\ Untouched(i)'
            BY <2>4 DEF Untouched
        <3>3. Settled(d)'
            BY <2>6, <3>1, <3>2, SettledKept DEF Stage, dbVars
        <3> QED
            BY <3>1, <3>2, <3>3 DEF Stage, Lag, ServedAs, dbVars, apiVars
    <2> QED
        BY <2>1, <2>2, <2>3, <2>4, <2>5, <2>6, SegmentKeeps
<1>2. CASE InstallSnippet
    <2>1. /\ UNCHANGED <<conf, disabled, cert, owner, stray, live, orphans>>
          /\ UNCHANGED <<op, dom, usr, chan, pc, res, ssl>> /\ snippet' = TRUE
        BY <1>2 DEF InstallSnippet, reqVars, hVars
    <2>2. PlumbingInv' /\ Exclusive' /\ NameInv' /\ HostInv'
        BY <2>1 DEF AgreeInv, PlumbingInv, Plumbing, Exclusive, NameInv, HostInv, TakenUsers,
            Rows, dbVars, apiVars
    <2>3. SettledInv' /\ LagInv'
        BY <2>1, SettledKept DEF AgreeInv, SettledInv, Quiescent, LagInv, Lag, ServedAs, dbVars
    <2>4. StageInv'
        <3> SUFFICES ASSUME NEW j \in Conns, NEW d \in Domains, dom[j] = d
                     PROVE  Stage(j, d)'
            BY <2>1 DEF StageInv
        <3>1. Stage(j, d)
            BY DEF AgreeInv, StageInv
        <3> QED
            BY <2>1, <3>1, StageKept DEF dbVars, apiVars
    <2> QED
        BY <2>2, <2>3, <2>4 DEF AgreeInv
<1> QED
    BY <1>0, <1>1, <1>2 DEF HandlerTimeout, AgentCrash

LEMMA AgentKeeps ==
    ASSUME Known, AgreeInv, Healthy, AgentStep, UNCHANGED <<dbVars, apiVars>>
    PROVE  AgreeInv'
BY HandleKeeps, RunKeeps, InterruptKeeps DEF AgentStep

-----------------------------------------------------------------------------
(* The endpoints.                                                          *)

\* What an endpoint's step leaves alone: every file, every other request, and
\* the rows of every domain but d.
Endpoint(i, d) ==
    /\ UNCHANGED <<conf, disabled, owner, live, cert, snippet, stray, orphans>>
    /\ \A j \in Conns \ {i} :
          /\ op'[j] = op[j] /\ dom'[j] = dom[j] /\ usr'[j] = usr[j] /\ chan'[j] = chan[j]
          /\ pc'[j] = pc[j] /\ res'[j] = res[j] /\ ssl'[j] = ssl[j]
          /\ api'[j] = api[j] /\ seen'[j] = seen[j]
          /\ j \in held => j \in held' \/ dom[j] = dom[i]
    /\ \A e \in Domains \ {d} :
          /\ rowStatus'[e] = rowStatus[e] /\ rowUser'[e] = rowUser[e] /\ rowSsl'[e] = rowSsl[e]

\* A request begins alone on its domain, whose files are what its row says.
LEMMA Starting ==
    ASSUME Known, AgreeInv, Healthy, NEW i \in Conns, NEW d \in Domains \cup {NoDomain},
           MayStart(i, d)
    PROVE  /\ api[i] = "idle" /\ pc[i] = "idle" /\ chan[i] = "closed" /\ dom[i] = NoDomain
           /\ \A j \in Conns \ {i} : api[j] # "idle" => Overlap = "distinct" /\ dom[j] # d
           /\ d \in Domains => Settled(d) /\ Lag(d) /\ \A j \in Conns : dom[j] # d
<1>0. Overlap \in {"none", "distinct"}
    BY OverlapAssumption DEF Overlaps, Healthy
<1>1. \A j \in Conns : Plumbing(j)
    BY DEF AgreeInv, PlumbingInv
<1>2. \A j \in Conns : api[j] = "idle" => dom[j] = NoDomain
    BY <1>1 DEF Plumbing
<1>3. /\ api[i] = "idle" /\ pc[i] = "idle" /\ chan[i] = "closed" /\ dom[i] = NoDomain
    BY <1>2 DEF MayStart, InUse
<1>4. \A j \in Conns \ {i} : api[j] # "idle" => Overlap = "distinct" /\ dom[j] # d
    BY <1>0 DEF MayStart, InUse
<1>5. d \in Domains => \A j \in Conns : dom[j] # d
    BY <1>2, <1>3, <1>4, DomainsAssumption
<1>6. d \in Domains => Settled(d) /\ Lag(d)
    BY <1>5 DEF AgreeInv, SettledInv, LagInv, Quiescent
<1> QED
    BY <1>3, <1>4, <1>5, <1>6

LEMMA Beginning ==
    ASSUME Known, AgreeInv, Healthy, NEW i \in Conns, NEW d \in Domains \cup {NoDomain},
           MayStart(i, d), Endpoint(i, d), UNCHANGED <<rowStatus, rowUser, rowSsl>>,
           dom'[i] = d, held \subseteq held', Plumbing(i)', pc'[i] # "cert",
           ~(op'[i] = "create" /\ api'[i] = "wait"),
           d \in Domains => Stage(i, d)'
    PROVE  AgreeInv'
<1>1. /\ api[i] = "idle" /\ dom[i] = NoDomain
      /\ \A j \in Conns \ {i} : api[j] # "idle" => Overlap = "distinct" /\ dom[j] # d
      /\ d \in Domains => Lag(d) /\ \A j \in Conns : dom[j] # d
    BY Starting
<1>2. Apart(i, d)
    BY <1>1 DEF Apart, Endpoint
<1>3. Exclusive'
    <2> SUFFICES ASSUME NEW j \in Conns, NEW k \in Conns, j # k, api'[j] # "idle",
                        api'[k] # "idle"
                 PROVE  Overlap = "distinct" /\ dom'[j] # dom'[k]
        BY DEF Exclusive
    <2>1. CASE j = i
        BY <1>1, <2>1 DEF Endpoint
    <2>2. CASE k = i
        BY <1>1, <2>2 DEF Endpoint
    <2>3. CASE j # i /\ k # i
        BY <2>3 DEF Endpoint, AgreeInv, Exclusive
    <2> QED
        BY <2>1, <2>2, <2>3
<1>4. NameInv'
    BY DEF AgreeInv, NameInv, TakenUsers, Rows, Endpoint
<1>5. HostInv'
    BY DEF AgreeInv, HostInv, Endpoint
<1>6. d \in Domains => Lag(d)'
    BY <1>1 DEF Endpoint, Lag, ServedAs
<1> QED
    BY <1>2, <1>3, <1>4, <1>5, <1>6, Assemble

\* A request ends.
LEMMA Ending ==
    ASSUME Known, AgreeInv, Healthy, NEW i \in Conns, NEW d \in Domains \cup {NoDomain},
           d = dom[i], api[i] # "idle", Endpoint(i, d),
           op'[i] = "none", dom'[i] = NoDomain, chan'[i] = "closed", pc'[i] = "idle",
           api'[i] = "idle",
           TakenUsers' \subseteq TakenUsers \cup {u \in Users : op[i] = "create" /\ api[i] = "wait"
                                                               /\ u = usr[i]},
           d \in Domains => Settled(d)'
    PROVE  AgreeInv'
<1>1. \A j \in Conns \ {i} : api[j] # "idle" => Overlap = "distinct" /\ dom[j] # d
    BY DEF AgreeInv, Exclusive
<1>2. \A j \in Conns \ {i} : api[j] = "idle" => dom[j] = NoDomain
    BY DEF AgreeInv, PlumbingInv, Plumbing
<1>3. \A j \in Conns \ {i} : j \in held => dom[j] # d
    BY <1>1 DEF Known, HeldInv
<1>4. Apart(i, d)
    BY <1>1, <1>2, <1>3, DomainsAssumption DEF Apart, Endpoint
<1>5. Plumbing(i)'
    BY DEF Plumbing, PcsOf, RowOps, HostOps
<1>6. Exclusive'
    BY DEF AgreeInv, Exclusive, Endpoint
<1>7. NameInv'
    <2> SUFFICES ASSUME NEW j \in Conns \ {i}, op[j] = "create", api[j] = "wait"
                 PROVE  usr[j] \notin TakenUsers'
        BY DEF NameInv, Endpoint
    <2>1. usr[j] \notin TakenUsers
        BY DEF AgreeInv, NameInv
    <2>2. ASSUME op[i] = "create", api[i] = "wait" PROVE usr[j] # usr[i]
        <3>1. Plumbing(i) /\ Plumbing(j)
            BY DEF AgreeInv, PlumbingInv
        <3>2. usr[i] \in Names(dom[i]) /\ usr[j] \in Names(dom[j])
            BY <2>2, <3>1 DEF Plumbing
        <3>3. dom[i] \in Domains /\ dom[j] \in Domains
            BY <2>2 DEF Known, TypeInv, RequestOK
        <3>4. Names(dom[i]) \cap Names(dom[j]) = {}
            BY <1>1, <3>3 DEF Healthy
        <3> QED
            BY <3>2, <3>4
    <2> QED
        BY <2>1, <2>2
<1>8. HostInv'
    BY DEF AgreeInv, HostInv, Endpoint
<1>9. d \in Domains => Lag(d)'
    BY DEF Settled, Lag
<1> QED
    BY <1>4, <1>5, <1>6, <1>7, <1>8, <1>9, DomainsAssumption, Assemble

LEMMA RequestKeeps ==
    ASSUME Known, AgreeInv, Healthy, NEW i \in Conns, Request(i)
    PROVE  AgreeInv'
<1> USE DEF diskVars, dbVars, hVars
<1>0. /\ pc \in [Conns -> Pcs] /\ res \in [Conns -> {"none", "run", "ok", "fail", "timeout"}]
      /\ chan \in [Conns -> {"closed", "open", "ok", "error"}] /\ ssl \in [Conns -> BOOLEAN]
      /\ op \in [Conns -> AllOps \cup {"none"}] /\ dom \in [Conns -> Domains \cup {NoDomain}]
      /\ usr \in [Conns -> Users \cup {NoUser}]
      /\ api \in [Conns -> {"idle", "derive", "recheck", "wait"}]
      /\ seen \in [Conns -> BOOLEAN] /\ held \subseteq Conns
      /\ rowStatus \in [Domains -> {"absent", "active", "suspended"}]
      /\ rowSsl \in [Domains -> BOOLEAN]
    BY DEF Known, TypeInv, TypeOK, AgentTypeOK
<1>1. ASSUME NEW d \in Domains, BeginCreate(i, d) PROVE AgreeInv'
    <2> USE <1>1 DEF BeginCreate
    <2>1. pc[i] = "idle" /\ chan[i] = "closed" /\ Settled(d) /\ dom[i] = NoDomain
        BY Starting
    <2>2. Endpoint(i, d)
        BY <1>0 DEF Endpoint
    <2>3. /\ op'[i] = "create" /\ dom'[i] = d /\ api'[i] = "derive"
          /\ pc'[i] = "idle" /\ chan'[i] = "closed"
        BY <1>0, <2>1
    <2>4. Plumbing(i)'
        BY <2>3 DEF Plumbing, PcsOf, RowOps, HostOps
    <2>5. Stage(i, d)'
        BY <2>1, <2>3, SettledKept DEF Stage, Untouched
    <2> QED
        BY <2>2, <2>3, <2>4, <2>5, Beginning
<1>2. ASSUME NEW d \in Domains, NEW o \in RowOps, BeginOn(i, o, d),
             o = "suspend" => rowStatus[d] = "active",
             o = "unsuspend" => rowStatus[d] = "suspended",
             IF o = "rebuild" THEN seen' = [seen EXCEPT ![i] = rowSsl[d]] ELSE UNCHANGED seen
      PROVE  AgreeInv'
    <2> USE <1>2 DEF BeginOn, Submit
    <2>1. Settled(d)
        BY Starting
    <2>2. Endpoint(i, d)
        BY <1>0 DEF Endpoint
    <2>3. /\ op'[i] = o /\ dom'[i] = d /\ api'[i] = "wait" /\ pc'[i] = "queued"
          /\ chan'[i] = "open" /\ i \in held' /\ (o = "rebuild" => seen'[i] = rowSsl[d])
        BY <1>0
    <2>4. Plumbing(i)'
        BY <2>3 DEF Plumbing, PcsOf, RowOps, HostOps
    <2>5. Settled(d)'
        BY <2>1, SettledKept
    <2>6. Stage(i, d)'
        BY <2>3, <2>5 DEF Stage, Untouched, RowOps
    <2>7. o # "create"
        BY DEF RowOps
    <2> QED
        BY <2>2, <2>3, <2>4, <2>6, <2>7, Beginning
<1>3. ASSUME NEW d \in Domains, LegacyDelete(i, d) PROVE AgreeInv'
    <2> USE <1>3 DEF LegacyDelete, agentVars, apiVars
    <2>1. /\ Settled(d) /\ dom[i] = NoDomain /\ chan[i] = "closed" /\ pc[i] = "idle"
          /\ \A j \in Conns : dom[j] # d
        BY Starting
    <2>2. live[d] = conf[d] /\ Leftover(d) /\ disabled[d] = "none"
        BY <1>0, <2>1 DEF Settled, Recorded, Leftover, IsSite, IsStub, Stub
    <2>3. /\ rowStatus'[d] = "absent" /\ UNCHANGED <<live, conf, disabled, owner>>
        BY <1>0
    <2>4. Settled(d)' /\ Lag(d)'
        BY <2>2, <2>3 DEF Settled, IsFree, Leftover, Lag
    <2>5. Apart(i, d)
        BY <1>0, <2>1 DEF Apart
    <2>6. NameInv'
        <3>1. TakenUsers' \subseteq TakenUsers
            BY <1>0 DEF TakenUsers, Rows
        <3> QED
            BY <3>1 DEF AgreeInv, NameInv
    <2>7. Plumbing(i)' /\ Exclusive' /\ HostInv'
        BY DEF AgreeInv, PlumbingInv, Plumbing, Exclusive, HostInv
    <2>8. dom'[i] # d
        BY <2>1
    <2> QED
        BY <2>4, <2>5, <2>6, <2>7, <2>8, Assemble
<1>4. ASSUME NEW o \in {"reload", "vhost", "unvhost"}, BeginVhost(i, o) PROVE AgreeInv'
    <2> USE <1>4 DEF BeginVhost, Submit
    <2>1. Endpoint(i, NoDomain)
        BY <1>0 DEF Endpoint
    <2>2. /\ op'[i] = o /\ dom'[i] = NoDomain /\ api'[i] = "wait" /\ pc'[i] = "queued"
          /\ chan'[i] = "open"
        BY <1>0
    <2>3. Plumbing(i)'
        BY <2>2 DEF Plumbing, PcsOf, RowOps, HostOps
    <2> QED
        BY <2>1, <2>2, <2>3, Beginning, DomainsAssumption
<1> QED
    <2>1. ASSUME NEW d \in Domains,
                 \/ BeginDelete(i, d) \/ BeginSuspend(i, d)
                 \/ BeginUnsuspend(i, d) \/ BeginRebuild(i, d)
          PROVE  AgreeInv'
        <3>1. BeginDelete(i, d) => AgreeInv'
            BY <1>2 DEF BeginDelete, RowOps
        <3>2. BeginSuspend(i, d) => AgreeInv'
            <4> SUFFICES ASSUME BeginSuspend(i, d) PROVE AgreeInv'
                OBVIOUS
            <4>1. rowStatus[d] = "active"
                BY <1>0 DEF BeginSuspend, BeginOn
            <4> QED
                BY <1>2, <4>1 DEF BeginSuspend, RowOps
        <3>3. BeginUnsuspend(i, d) => AgreeInv'
            BY <1>2 DEF BeginUnsuspend, RowOps
        <3>4. BeginRebuild(i, d) => AgreeInv'
            BY <1>2 DEF BeginRebuild, RowOps
        <3> QED
            BY <2>1, <3>1, <3>2, <3>3, <3>4
    <2> QED
        BY <1>1, <1>3, <1>4, <2>1 DEF Request

\* The creation that has not called the agent yet goes on or gives up.
LEMMA CreationKeeps ==
    ASSUME Known, AgreeInv, Healthy, NEW i \in Conns,
           DeriveUsername(i) \/ RecheckConflict(i) \/ CallCreate(i)
    PROVE  AgreeInv'
<1> USE DEF diskVars, dbVars, hVars
<1>0. /\ pc \in [Conns -> Pcs] /\ res \in [Conns -> {"none", "run", "ok", "fail", "timeout"}]
      /\ chan \in [Conns -> {"closed", "open", "ok", "error"}] /\ ssl \in [Conns -> BOOLEAN]
      /\ op \in [Conns -> AllOps \cup {"none"}] /\ dom \in [Conns -> Domains \cup {NoDomain}]
      /\ usr \in [Conns -> Users \cup {NoUser}]
      /\ api \in [Conns -> {"idle", "derive", "recheck", "wait"}]
    BY DEF Known, TypeInv, TypeOK, AgentTypeOK
<1>1. /\ api[i] \in {"derive", "recheck"} /\ op[i] = "create" /\ pc[i] = "idle"
      /\ dom[i] \in Domains
    BY DEF DeriveUsername, RecheckConflict, CallCreate, Known, TypeInv, RequestOK
<1>2. PICK d \in Domains : d = dom[i]
    BY <1>1
<1>3. Plumbing(i) /\ chan[i] = "closed" /\ Stage(i, d) /\ Lag(d) /\ Settled(d)
    BY <1>1, <1>2 DEF AgreeInv, PlumbingInv, Plumbing, StageInv, LagInv, Stage, Untouched
<1>4. /\ UNCHANGED <<conf, disabled, owner, live, cert, snippet, stray, orphans>>
      /\ UNCHANGED <<rowStatus, rowUser, rowSsl, seen, held>>
      /\ \A j \in Conns \ {i} : /\ op'[j] = op[j] /\ dom'[j] = dom[j] /\ usr'[j] = usr[j]
                                /\ chan'[j] = chan[j] /\ pc'[j] = pc[j] /\ res'[j] = res[j]
                                /\ ssl'[j] = ssl[j] /\ api'[j] = api[j]
    BY <1>0 DEF DeriveUsername, RecheckConflict, CallCreate, Submit
<1>5. Settled(d)'
    BY <1>3, <1>4, SettledKept
<1>6. TakenUsers' = TakenUsers
    BY <1>4 DEF TakenUsers, Rows
<1>7. CASE op'[i] = "none"
    <2>1. /\ dom'[i] = NoDomain /\ chan'[i] = "closed" /\ pc'[i] = "idle" /\ api'[i] = "idle"
        BY <1>0, <1>1, <1>3, <1>7 DEF DeriveUsername, RecheckConflict, CallCreate, Submit
    <2>2. Endpoint(i, d)
        BY <1>4 DEF Endpoint
    <2> QED
        BY <1>1, <1>2, <1>5, <1>6, <1>7, <2>1, <2>2, Ending
<1>8. CASE op'[i] # "none"
    <2>1. op'[i] = "create" /\ dom'[i] = d
        BY <1>0, <1>1, <1>2, <1>8 DEF DeriveUsername, RecheckConflict, CallCreate, Submit
    <2>2. usr'[i] \in Names(d)
        <3>1. CASE DeriveUsername(i)
            <4>1. FreeCandidates(d) # {} /\ usr'[i] = FirstFree(d)
                BY <1>0, <1>2, <1>8, <3>1 DEF DeriveUsername
            <4> QED
                BY <4>1, FirstFreeType DEF Names
        <3>2. CASE CallCreate(i)
            BY <1>0, <1>1, <1>2, <1>3, <3>2 DEF CallCreate, Submit, Plumbing
        <3> QED
            BY <1>0, <1>8, <3>1, <3>2 DEF RecheckConflict
    <2>3. \/ api'[i] = "recheck" /\ pc'[i] = "idle" /\ chan'[i] = "closed"
          \/ /\ api'[i] = "wait" /\ pc'[i] = "queued" /\ chan'[i] = "open"
             /\ usr'[i] \notin TakenUsers
        BY <1>0, <1>1, <1>3, <1>8 DEF DeriveUsername, RecheckConflict, CallCreate, Submit
    <2>4. Plumbing(i)'
        BY <2>1, <2>2, <2>3 DEF Plumbing, PcsOf, RowOps, HostOps
    <2>5. Stage(i, d)'
        BY <1>1, <1>3, <1>4, <1>5, <2>1, <2>3 DEF Stage, Untouched
    <2>6. Exclusive'
        BY <1>1, <1>2, <1>4, <2>1 DEF AgreeInv, Exclusive
    <2>7. NameInv'
        BY <1>4, <1>6, <2>3 DEF AgreeInv, NameInv
    <2>8. HostInv'
        BY <1>4, <2>3 DEF AgreeInv, HostInv
    <2>9. Apart(i, d)
        BY <1>1, <1>2, <1>4, <2>1, DomainsAssumption DEF Apart, AgreeInv, Exclusive, PlumbingInv, Plumbing
    <2>10. Lag(d)'
        BY <1>3, <1>4 DEF Lag, ServedAs
    <2> QED
        BY <2>1, <2>4, <2>5, <2>6, <2>7, <2>8, <2>9, <2>10, Assemble
<1> QED
    BY <1>7, <1>8

\* An answered request is over in one step of its endpoint.
LEMMA Finished ==
    ASSUME Known, AgreeInv, NEW i \in Conns, NEW r \in {"ok", "error"}, Finish(i, r)
    PROVE  /\ api[i] = "wait" /\ chan[i] = r /\ pc[i] = "idle"
           /\ op'[i] = "none" /\ dom'[i] = NoDomain /\ chan'[i] = "closed" /\ pc'[i] = "idle"
           /\ api'[i] = "idle"
           /\ UNCHANGED <<conf, disabled, owner, live, cert, snippet, stray, orphans>>
           /\ \A j \in Conns \ {i} :
                  /\ op'[j] = op[j] /\ dom'[j] = dom[j] /\ usr'[j] = usr[j] /\ chan'[j] = chan[j]
                  /\ pc'[j] = pc[j] /\ res'[j] = res[j] /\ ssl'[j] = ssl[j]
                  /\ api'[j] = api[j] /\ seen'[j] = seen[j]
           /\ Plumbing(i)
           /\ \A d \in Domains : d = dom[i] =>
                  Stage(i, d) /\ IF r = "ok" THEN Changed(i, d) /\ live[d] = conf[d] ELSE Settled(d)
<1>0. /\ pc \in [Conns -> Pcs] /\ res \in [Conns -> {"none", "run", "ok", "fail", "timeout"}]
      /\ chan \in [Conns -> {"closed", "open", "ok", "error"}] /\ ssl \in [Conns -> BOOLEAN]
      /\ op \in [Conns -> AllOps \cup {"none"}] /\ dom \in [Conns -> Domains \cup {NoDomain}]
      /\ usr \in [Conns -> Users \cup {NoUser}] /\ seen \in [Conns -> BOOLEAN]
      /\ api \in [Conns -> {"idle", "derive", "recheck", "wait"}]
    BY DEF Known, TypeInv, TypeOK, AgentTypeOK
<1>1. api[i] = "wait" /\ chan[i] = r /\ pc[i] = "idle"
    BY DEF Finish, Receive
<1>2. ASSUME NEW d \in Domains, d = dom[i]
      PROVE  Stage(i, d) /\ IF r = "ok" THEN Changed(i, d) /\ live[d] = conf[d] ELSE Settled(d)
    <2>1. Stage(i, d)
        BY <1>2 DEF AgreeInv, StageInv
    <2>2. (r = "ok" => ~Untouched(i) /\ Loaded(i)) /\ (r = "error" => Untouched(i))
        BY <1>1 DEF Untouched, Loaded
    <2> QED
        BY <2>1, <2>2 DEF Stage, Changed
<1>3. Plumbing(i)
    BY DEF AgreeInv, PlumbingInv
<1>4. /\ op'[i] = "none" /\ dom'[i] = NoDomain /\ chan'[i] = "closed" /\ pc'[i] = "idle"
      /\ api'[i] = "idle"
      /\ UNCHANGED <<conf, disabled, owner, live, cert, snippet, stray, orphans>>
    BY <1>0, <1>1 DEF Finish, Receive, diskVars
<1>5. \A j \in Conns \ {i} :
          /\ op'[j] = op[j] /\ dom'[j] = dom[j] /\ usr'[j] = usr[j] /\ chan'[j] = chan[j]
          /\ pc'[j] = pc[j] /\ res'[j] = res[j] /\ ssl'[j] = ssl[j]
          /\ api'[j] = api[j] /\ seen'[j] = seen[j]
    BY <1>0 DEF Finish, Receive
<1> QED
    BY <1>1, <1>2, <1>3, <1>4, <1>5

LEMMA CommitKeeps ==
    ASSUME Known, AgreeInv, Healthy, NEW i \in Conns,
           CommitCreate(i) \/ CommitDelete(i) \/ CommitStatus(i) \/ CommitRebuild(i)
    PROVE  AgreeInv'
<1>0. /\ Finish(i, "ok") /\ op[i] \in RowOps \cup {"create"}
    BY DEF CommitCreate, CommitDelete, CommitStatus, CommitRebuild, RowOps
<1>1. dom[i] \in Domains
    BY <1>0 DEF RowOps, Known, TypeInv, RequestOK
<1>2. PICK d \in Domains : d = dom[i]
    BY <1>1
<1>3. /\ api[i] = "wait" /\ chan[i] = "ok" /\ pc[i] = "idle"
      /\ op'[i] = "none" /\ dom'[i] = NoDomain /\ chan'[i] = "closed" /\ pc'[i] = "idle"
      /\ api'[i] = "idle"
      /\ UNCHANGED <<conf, disabled, owner, live, cert, snippet, stray, orphans>>
      /\ \A j \in Conns \ {i} :
             /\ op'[j] = op[j] /\ dom'[j] = dom[j] /\ usr'[j] = usr[j] /\ chan'[j] = chan[j]
             /\ pc'[j] = pc[j] /\ res'[j] = res[j] /\ ssl'[j] = ssl[j]
             /\ api'[j] = api[j] /\ seen'[j] = seen[j]
      /\ Plumbing(i) /\ Stage(i, d) /\ Changed(i, d) /\ live[d] = conf[d]
    BY <1>0, <1>2, Finished
<1>4. op[i] \in RowOps => i \in held
    BY <1>3 DEF Plumbing
<1>5. op[i] \in RowOps => rowStatus[d] # "absent" /\ rowUser[d] # NoUser
    BY <1>2, <1>4 DEF Known, HeldInv
<1>6. /\ rowStatus \in [Domains -> {"absent", "active", "suspended"}]
      /\ rowUser \in [Domains -> Users \cup {NoUser}] /\ rowSsl \in [Domains -> BOOLEAN]
      /\ ssl \in [Conns -> BOOLEAN] /\ NoUser \notin Users
    BY UsersAssumption DEF Known, TypeInv, TypeOK, AgentTypeOK
\* What is left to show for each commit.
<1> DEFINE Kept == /\ \A j \in Conns \ {i} : j \in held => j \in held' \/ dom[j] = dom[i]
                   /\ \A e \in Domains \ {d} : /\ rowStatus'[e] = rowStatus[e]
                                               /\ rowUser'[e] = rowUser[e]
                                               /\ rowSsl'[e] = rowSsl[e]
                   /\ TakenUsers' \subseteq TakenUsers \cup {u \in Users : op[i] = "create"
                                                                        /\ u = usr[i]}
                   /\ Settled(d)'
<1>7. Kept => AgreeInv'
    <2> SUFFICES ASSUME Kept PROVE AgreeInv'
        OBVIOUS
    <2>1. Endpoint(i, d)
        BY <1>3 DEF Endpoint
    <2>2. TakenUsers' \subseteq TakenUsers \cup {u \in Users : op[i] = "create" /\ api[i] = "wait"
                                                            /\ u = usr[i]}
        BY <1>3
    <2> QED
        BY <1>2, <1>3, <2>1, <2>2, Ending
<1>8. Kept
    <2>1. CASE CommitCreate(i)
        <3>1. usr[i] \in Users /\ op[i] = "create"
            BY <1>3, <2>1 DEF CommitCreate, Known, TypeInv, RequestOK
        <3>2. /\ disabled[d] = "none" /\ owner[d] = usr[i] /\ conf[d] \in Site
              /\ (ssl[i] <=> conf[d] = "https")
            BY <1>3, <3>1 DEF Changed, Creating
        <3>3. /\ rowStatus'[d] = "active" /\ rowUser'[d] = usr[i] /\ rowSsl'[d] = ssl[i]
              /\ held' = held
              /\ \A e \in Domains \ {d} : /\ rowStatus'[e] = rowStatus[e]
                                          /\ rowUser'[e] = rowUser[e] /\ rowSsl'[e] = rowSsl[e]
            BY <1>2, <1>6, <2>1 DEF CommitCreate
        <3>4. TakenUsers' \subseteq TakenUsers \cup {u \in Users : op[i] = "create" /\ u = usr[i]}
            BY <3>1, <3>3 DEF TakenUsers, Rows
        <3>5. Settled(d)'
            BY <1>3, <1>6, <3>1, <3>2, <3>3 DEF Settled, IsSite, Recorded
        <3> QED
            BY <3>3, <3>4, <3>5
    <2>2. CASE CommitDelete(i)
        <3>1. i \in held /\ op[i] = "delete"
            BY <1>4, <2>2 DEF CommitDelete, RowOps
        <3>2. conf[d] = "none" /\ disabled[d] = "none" /\ owner[d] = "absent"
            BY <1>3, <3>1 DEF Changed, Deleting
        <3>3. /\ rowStatus'[d] = "absent" /\ rowUser'[d] = NoUser
              /\ held' = {j \in held : dom[j] # dom[i]}
              /\ \A e \in Domains \ {d} : /\ rowStatus'[e] = rowStatus[e]
                                          /\ rowUser'[e] = rowUser[e] /\ rowSsl'[e] = rowSsl[e]
            BY <1>2, <1>6, <2>2, <3>1 DEF CommitDelete
        <3>4. TakenUsers' \subseteq TakenUsers
            BY <3>3 DEF TakenUsers, Rows
        <3>5. Settled(d)'
            BY <1>3, <3>2, <3>3 DEF Settled, IsFree
        <3> QED
            BY <3>3, <3>4, <3>5
    <2>3. CASE CommitStatus(i)
        <3>1. /\ rowStatus'[d] = (IF op[i] = "suspend" THEN "suspended" ELSE "active")
              /\ held' = held \ {i} /\ UNCHANGED <<rowUser, rowSsl>>
              /\ \A e \in Domains \ {d} : rowStatus'[e] = rowStatus[e]
              /\ op[i] \in {"suspend", "unsuspend"}
            BY <1>2, <1>6, <2>3 DEF CommitStatus
        <3>2. TakenUsers' \subseteq TakenUsers
            BY <1>5, <3>1 DEF TakenUsers, Rows, RowOps
        <3>3. Settled(d)'
            BY <1>3, <3>1 DEF Changed, Settled, IsSite, IsStub, Recorded, Leftover
        <3> QED
            BY <3>1, <3>2, <3>3
    <2>4. CASE CommitRebuild(i)
        <3>1. Rebuilding(i, d) /\ op[i] = "rebuild" /\ seen[i] = rowSsl[d]
            BY <1>3, <2>4 DEF CommitRebuild, Changed, Stage
        <3>2. /\ rowSsl'[d] = ssl[i] /\ held' = held \ {i} /\ UNCHANGED <<rowStatus, rowUser>>
              /\ \A e \in Domains \ {d} : rowSsl'[e] = rowSsl[e]
            BY <1>2, <1>6, <2>4, <3>1 DEF CommitRebuild
        <3>3. TakenUsers' \subseteq TakenUsers
            BY <3>2 DEF TakenUsers, Rows
        <3>4. Settled(d)'
            BY <1>3, <1>5, <3>1, <3>2 DEF Rebuilding, Settled, IsSite, IsStub, Recorded, RowOps
        <3> QED
            BY <3>2, <3>3, <3>4
    <2> QED
        BY <2>1, <2>2, <2>3, <2>4
<1> QED
    BY <1>7, <1>8

\* No commit is refused: the row, or its absence, is what the endpoint found.
LEMMA NothingRefused ==
    ASSUME Known, AgreeInv, Healthy, NEW i \in Conns
    PROVE  ~CommitFailed(i)
<1> SUFFICES ASSUME CommitFailed(i) PROVE FALSE
    OBVIOUS
<1>1. CommitRefused(i) /\ Finish(i, "ok")
    BY DEF CommitFailed, Healthy
<1>2. /\ api[i] = "wait" /\ Plumbing(i)
      /\ \A d \in Domains : d = dom[i] => Stage(i, d)
    BY <1>1, Finished
<1>3. op[i] \in RowOps => i \in held
    BY <1>2 DEF Plumbing
<1>4. op[i] = "create" /\ ~Insertable(i)
    BY <1>1, <1>3 DEF CommitRefused, RowOps
<1>5. dom[i] \in Domains
    BY <1>4 DEF Known, TypeInv, RequestOK
<1>6. rowStatus[dom[i]] = "absent"
    BY <1>2, <1>4, <1>5 DEF Stage
<1> QED
    BY <1>2, <1>4, <1>6 DEF AgreeInv, NameInv, Insertable

LEMMA AnswerKeeps ==
    ASSUME Known, AgreeInv, Healthy, NEW i \in Conns, VhostDone(i) \/ AgentFailed(i)
    PROVE  AgreeInv'
<1>0. PICK r \in {"ok", "error"} : Finish(i, r) /\ (r = "ok" => op[i] \in HostOps)
    BY DEF VhostDone, AgentFailed, HostOps
<1>1. PICK d \in Domains \cup {NoDomain} : d = dom[i]
    BY DEF Known, TypeInv, TypeOK, AgentTypeOK
<1>2. /\ UNCHANGED <<rowStatus, rowUser, rowSsl>>
      /\ \A j \in Conns \ {i} : j \in held => j \in held'
    BY DEF VhostDone, AgentFailed, dbVars
<1>3. /\ api[i] = "wait" /\ Plumbing(i) /\ Endpoint(i, d)
      /\ op'[i] = "none" /\ dom'[i] = NoDomain /\ chan'[i] = "closed" /\ pc'[i] = "idle"
      /\ api'[i] = "idle" /\ UNCHANGED <<conf, disabled, owner, live>>
    BY <1>0, <1>2, Finished DEF Endpoint
<1>4. TakenUsers' \subseteq TakenUsers
    BY <1>2 DEF TakenUsers, Rows
<1>5. ASSUME d \in Domains PROVE Settled(d)'
    <2>1. r = "error"
        BY <1>0, <1>1, <1>3, <1>5, DomainsAssumption DEF Plumbing
    <2>2. Settled(d)
        BY <1>0, <1>1, <1>5, <2>1, Finished
    <2> QED
        BY <1>2, <1>3, <2>2, SettledKept
<1> QED
    BY <1>1, <1>3, <1>4, <1>5, Ending

LEMMA ApiKeeps ==
    ASSUME Known, AgreeInv, Healthy, NEW i \in Conns,
           Request(i) \/ Respond(i) \/ ClientTimeout(i)
    PROVE  AgreeInv'
<1>1. ~ClientTimeout(i)
    BY DEF ClientTimeout, GiveUp, Healthy
<1> QED
    BY <1>1, RequestKeeps, CreationKeeps, CommitKeeps, AnswerKeeps, NothingRefused DEF Respond

LEMMA InitAgree ==
    ASSUME Init, Healthy
    PROVE  AgreeInv
<1> USE DEF Init, AgentInit
<1>1. PlumbingInv
    BY DEF PlumbingInv, Plumbing, PcsOf, RowOps, HostOps
<1>2. Exclusive /\ NameInv /\ HostInv
    BY DEF Exclusive, NameInv, HostInv
<1>3. ASSUME NEW d \in Domains PROVE Settled(d)
    BY DEF Settled, IsFree, IsSite, Recorded, Leftover, Site
<1>4. SettledInv /\ LagInv
    BY <1>3 DEF SettledInv, LagInv, Lag
<1>5. StageInv
    BY DomainsAssumption DEF StageInv
<1> QED
    BY <1>1, <1>2, <1>4, <1>5 DEF AgreeInv

LEMMA StepAgree ==
    ASSUME Known, AgreeInv, Healthy, [Next]_vars
    PROVE  AgreeInv'
<1>1. CASE UNCHANGED vars
    <2> USE <1>1 DEF vars, agentVars, dbVars, apiVars
    <2>1. PlumbingInv' /\ Exclusive' /\ NameInv' /\ HostInv'
        BY DEF AgreeInv, PlumbingInv, Plumbing, Exclusive, NameInv, HostInv, TakenUsers, Rows
    <2>2. SettledInv' /\ LagInv'
        BY SettledKept DEF AgreeInv, SettledInv, Quiescent, LagInv, Lag, ServedAs
    <2>3. StageInv'
        <3> SUFFICES ASSUME NEW j \in Conns, NEW d \in Domains, dom[j] = d
                     PROVE  Stage(j, d)'
            BY DEF StageInv
        <3>1. Stage(j, d)
            BY DEF AgreeInv, StageInv
        <3> QED
            BY <3>1, StageKept
    <2> QED
        BY <2>1, <2>2, <2>3 DEF AgreeInv
<1> QED
    BY <1>1, AgentKeeps, ApiKeeps DEF Next

\* The inductive invariant of the record, for any number of domains and
\* connections.
LEMMA SpecAgree ==
    ASSUME Healthy
    PROVE  Spec => [](Known /\ AgreeInv)
<1>1. Spec => []Known
    <2>1. TypeInv /\ CertInv /\ HeldInv /\ UserInv => Known
        BY DEF Known
    <2> QED
        BY <2>1, SpecTypeInv, SpecCertInv, SpecHeldInv, SpecUserInv, PTL
<1>2. Init => AgreeInv
    BY InitAgree
<1>3. Known /\ AgreeInv /\ [Next]_vars => AgreeInv'
    BY StepAgree
<1> QED
    BY <1>1, <1>2, <1>3, PTL DEF Spec

-----------------------------------------------------------------------------
(* The properties.                                                         *)

\* A domain that no request is about is one no connection names.
LEMMA QuietIsQuiescent ==
    ASSUME AgreeInv, NEW d \in Domains, Quiet(d)
    PROVE  Settled(d)
<1>1. ASSUME NEW i \in Conns PROVE dom[i] # d
    <2>1. ~InUse(i) => dom[i] = NoDomain
        BY DEF InUse, AgreeInv, PlumbingInv, Plumbing
    <2> QED
        BY <2>1, DomainsAssumption DEF Quiet
<1> QED
    BY <1>1 DEF Quiescent, AgreeInv, SettledInv

\* The request about a domain, if there is one.
LEMMA SettledOrAtWork ==
    ASSUME Known, AgreeInv, NEW d \in Domains
    PROVE  \/ Settled(d)
           \/ \E i \in Conns : /\ dom[i] = d /\ api[i] = "wait" /\ Plumbing(i)
                               /\ Stage(i, d) /\ Changed(i, d)
                               /\ op[i] \in RowOps \cup {"create"}
                               /\ op[i] \in RowOps => rowStatus[d] # "absent"
                                                      /\ rowUser[d] # NoUser
<1> SUFFICES ASSUME ~Settled(d)
             PROVE  \E i \in Conns : /\ dom[i] = d /\ api[i] = "wait" /\ Plumbing(i)
                                     /\ Stage(i, d) /\ Changed(i, d)
                                     /\ op[i] \in RowOps \cup {"create"}
                                     /\ op[i] \in RowOps => rowStatus[d] # "absent"
                                                            /\ rowUser[d] # NoUser
    OBVIOUS
<1>1. PICK i \in Conns : dom[i] = d
    BY DEF AgreeInv, SettledInv, Quiescent
<1>2. Stage(i, d) /\ Plumbing(i)
    BY <1>1 DEF AgreeInv, StageInv, PlumbingInv
<1>3. Changed(i, d) /\ api[i] = "wait"
    BY <1>2 DEF Stage, Untouched
<1>4. op[i] \in RowOps \cup {"create"}
    BY <1>1, <1>2, <1>3, DomainsAssumption
    DEF Plumbing, RowOps, HostOps, Known, TypeInv, TypeOK, AgentTypeOK, AllOps
<1>5. op[i] \in RowOps => rowStatus[d] # "absent" /\ rowUser[d] # NoUser
    BY <1>1, <1>2, <1>3 DEF Plumbing, Known, HeldInv
<1> QED
    BY <1>1, <1>2, <1>3, <1>4, <1>5

\* Row, files and nginx agree about every domain that has no request in
\* flight, for any number of domains and connections.
THEOREM SpecRowMatchesDisk ==
    ASSUME Healthy
    PROVE  Spec => []RowMatchesDisk
<1>1. Known /\ AgreeInv => RowMatchesDisk
    <2> SUFFICES ASSUME Known, AgreeInv, NEW d \in Domains \ Legacy, Quiet(d)
                 PROVE  CASE rowStatus[d] = "absent" ->
                                conf[d] = "none" /\ disabled[d] = "none" /\ owner[d] = "absent"
                                /\ live[d] = "none"
                          [] rowStatus[d] = "active" ->
                                conf[d] \in Site /\ disabled[d] = "none" /\ live[d] = conf[d]
                          [] rowStatus[d] = "suspended" ->
                                conf[d] \in Stub /\ disabled[d] \in Site /\ live[d] = conf[d]
        BY DEF RowMatchesDisk
    <2>1. Settled(d) /\ ~Leftover(d)
        BY QuietIsQuiescent DEF Leftover
    <2>2. rowStatus[d] \in {"absent", "active", "suspended"}
        BY DEF Known, TypeInv, TypeOK
    <2> QED
        BY <2>1, <2>2 DEF Settled, IsFree, IsSite, IsStub
<1> QED
    BY <1>1, SpecAgree, PTL

\* The ssl_enabled column and the owner of the webroot are what the row says,
\* through certificates, rebuilds and suspensions.
THEOREM SpecRowTellsTheTruth ==
    ASSUME Healthy
    PROVE  Spec => []RowTellsTheTruth
<1>1. Known /\ AgreeInv => RowTellsTheTruth
    <2> SUFFICES ASSUME Known, AgreeInv, NEW d \in Domains \ Legacy, Quiet(d),
                        rowStatus[d] # "absent"
                 PROVE  /\ owner[d] = rowUser[d]
                        /\ rowSsl[d] <=> "https" \in {conf[d], disabled[d]}
        BY DEF RowTellsTheTruth
    <2>1. Settled(d) /\ ~Leftover(d)
        BY QuietIsQuiescent DEF Leftover
    <2>2. rowStatus[d] \in {"active", "suspended"}
        BY DEF Known, TypeInv, TypeOK
    <2> QED
        BY <2>1, <2>2 DEF Settled, Recorded
<1> QED
    BY <1>1, SpecAgree, PTL

\* A suspended domain answers with the stub until an unsuspend or a delete is
\* under way, whatever is rebuilt or reloaded meanwhile.
THEOREM SpecSuspendedServesStub ==
    ASSUME Healthy
    PROVE  Spec => []SuspendedServesStub
<1>1. Known /\ AgreeInv => SuspendedServesStub
    <2> SUFFICES ASSUME Known, AgreeInv, NEW d \in Domains, rowStatus[d] = "suspended",
                        ~InFlight(d, {"unsuspend", "delete"})
                 PROVE  live[d] \in Stub
        BY DEF SuspendedServesStub
    <2>1. CASE Settled(d)
        BY <2>1 DEF Settled, IsStub
    <2>2. ASSUME NEW i \in Conns, dom[i] = d, Stage(i, d), Changed(i, d),
                 op[i] \in RowOps \cup {"create"}
          PROVE  live[d] \in Stub
        <3>1. op[i] = "rebuild"
            BY <2>2 DEF InFlight, Stage, RowOps
        <3>2. conf[d] \in Stub
            BY <2>2, <3>1 DEF Changed, Rebuilding, IsStub
        <3>3. ServedAs(conf[d]) = "stub" /\ Kind(rowStatus[d]) = "stub"
            BY <3>2 DEF ServedAs, Kind, Site, Stub
        <3>4. ServedAs(live[d]) = "stub"
            BY <3>3 DEF AgreeInv, LagInv, Lag
        <3>5. live[d] \in Config
            BY DEF Known, TypeInv, TypeOK, AgentTypeOK
        <3> QED
            BY <3>4, <3>5 DEF ServedAs, Config, Site, Stub
    <2> QED
        BY <2>1, <2>2, SettledOrAtWork
<1> QED
    BY <1>1, SpecAgree, PTL

\* What a suspension preserves is the site, through any number of
\* suspensions and rebuilds.
THEOREM SpecPreservedIsSite ==
    ASSUME Healthy
    PROVE  Spec => []PreservedIsSite
<1>1. Known /\ AgreeInv => PreservedIsSite
    <2> SUFFICES ASSUME Known, AgreeInv, NEW d \in Domains
                 PROVE  disabled[d] \notin Stub
        BY DEF PreservedIsSite
    <2> USE DEF IsFree, IsSite, IsStub, Site, Stub
    <2>0. rowStatus[d] \in {"absent", "active", "suspended"}
        BY DEF Known, TypeInv, TypeOK
    <2>1. CASE Settled(d)
        BY <2>0, <2>1 DEF Settled
    <2>2. ASSUME NEW i \in Conns, Changed(i, d), op[i] \in RowOps \cup {"create"},
                 op[i] \in RowOps => rowStatus[d] # "absent"
          PROVE  disabled[d] \notin Stub
        BY <2>0, <2>2 DEF Changed, Creating, Deleting, Rebuilding, RowOps
    <2> QED
        BY <2>1, <2>2, SettledOrAtWork
<1> QED
    BY <1>1, SpecAgree, PTL

\* Whose webroot it is: the row's user's, or that of the creation at work.
Claims(d, u) ==
    \/ rowStatus[d] # "absent" /\ rowUser[d] = u
    \/ \E i \in Conns : op[i] = "create" /\ api[i] = "wait" /\ dom[i] = d /\ usr[i] = u

\* No two webroots belong to one Linux user.
THEOREM SpecOneUserPerWebroot ==
    ASSUME Healthy
    PROVE  Spec => []OneUserPerWebroot
<1>1. Known /\ AgreeInv => OneUserPerWebroot
    <2> SUFFICES ASSUME Known, AgreeInv PROVE OneUserPerWebroot
        OBVIOUS
    <2>1. ASSUME NEW d \in Domains, owner[d] \in Users PROVE Claims(d, owner[d])
        <3>0. /\ rowStatus[d] \in {"absent", "active", "suspended"}
              /\ owner[d] \notin {"absent", "root"}
            BY <2>1, UsersAssumption DEF Known, TypeInv, TypeOK
        <3>1. CASE Settled(d)
            BY <3>0, <3>1 DEF Settled, IsFree, Recorded, Leftover, Claims
        <3>2. ASSUME NEW i \in Conns, dom[i] = d, api[i] = "wait", Changed(i, d),
                     op[i] \in RowOps \cup {"create"},
                     op[i] \in RowOps => rowStatus[d] # "absent" /\ rowUser[d] # NoUser
              PROVE  Claims(d, owner[d])
            <4>1. CASE op[i] = "create"
                BY <3>0, <3>2, <4>1 DEF Changed, Creating, Claims
            <4>2. CASE op[i] \in RowOps
                BY <3>0, <3>2, <4>2 DEF Changed, Deleting, Rebuilding, Recorded, Claims, RowOps
            <4> QED
                BY <3>2, <4>1, <4>2
        <3> QED
            BY <3>1, <3>2, SettledOrAtWork
    <2>2. ASSUME NEW d \in Domains, NEW e \in Domains, d # e, NEW u \in Users,
                 Claims(d, u), Claims(e, u)
          PROVE  FALSE
        <3>0. u # NoUser /\ RowsHaveOwnUser
            BY UsersAssumption DEF Known, UserInv
        <3>1. ASSUME NEW a \in Domains, rowStatus[a] # "absent", rowUser[a] = u
              PROVE  u \in TakenUsers
            BY <3>0, <3>1 DEF TakenUsers, Rows
        <3>2. ASSUME NEW i \in Conns, op[i] = "create", api[i] = "wait", usr[i] = u
              PROVE  u \notin TakenUsers /\ u \in Names(dom[i])
            BY <3>2 DEF AgreeInv, NameInv, PlumbingInv, Plumbing
        <3>3. CASE rowStatus[d] # "absent" /\ rowUser[d] = u
            <4>1. rowStatus[e] # "absent" /\ rowUser[e] = u
                BY <2>2, <3>1, <3>2, <3>3 DEF Claims
            <4> QED
                BY <2>2, <3>0, <3>3, <4>1 DEF RowsHaveOwnUser, Rows
        <3>4. CASE \E i \in Conns : op[i] = "create" /\ api[i] = "wait" /\ dom[i] = d /\ usr[i] = u
            <4>1. PICK i \in Conns : op[i] = "create" /\ api[i] = "wait" /\ dom[i] = d /\ usr[i] = u
                BY <3>4
            <4>2. PICK j \in Conns : op[j] = "create" /\ api[j] = "wait" /\ dom[j] = e /\ usr[j] = u
                BY <2>2, <3>1, <3>2, <4>1 DEF Claims
            <4>3. u \in Names(d) /\ u \in Names(e)
                BY <3>2, <4>1, <4>2
            <4>4. Overlap = "distinct"
                BY <2>2, <4>1, <4>2 DEF AgreeInv, Exclusive
            <4> QED
                BY <2>2, <4>3, <4>4 DEF Healthy
        <3> QED
            BY <2>2, <3>3, <3>4 DEF Claims
    <2> QED
        BY <2>1, <2>2 DEF OneUserPerWebroot
<1> QED
    BY <1>1, SpecAgree, PTL

-----------------------------------------------------------------------------
(* The panel and its server implement DomainService.                       *)

Served == [d \in Domains |-> ServedAs(live[d])]

LEMMA ServedType ==
    ASSUME NEW c \in Config
    PROVE  ServedAs(c) \in {"none", "site", "stub"}
BY DEF ServedAs, Config, Site, Stub

\* Without a row nobody has written a suspension stub.
LEMMA NoRowNoStub ==
    ASSUME Known, AgreeInv, NEW d \in Domains, rowStatus[d] = "absent"
    PROVE  conf[d] \notin Stub
<1> USE DEF Site, Stub
<1>1. CASE Settled(d)
    BY <1>1 DEF Settled, IsFree, Leftover
<1>2. ASSUME NEW i \in Conns, Plumbing(i), api[i] = "wait", Changed(i, d), op[i] = "create",
             Stage(i, d)
      PROVE  conf[d] \notin Stub
    <2>1. pc[i] \in {"idle", "chown", "test", "reload", "cert", "testTls", "reloadTls"}
          \/ Untouched(i)
        BY <1>2 DEF Plumbing, PcsOf, RowOps, Untouched
    <2> QED
        BY <1>1, <1>2, <2>1 DEF Changed, Creating, Stage
<1> QED
    BY <1>1, <1>2, SettledOrAtWork

\* A reload serves, of each domain that changes, what its status allows.
LEMMA ReloadServes ==
    ASSUME Known, AgreeInv, live' = conf, UNCHANGED rowStatus
    PROVE  Service!Serve \/ UNCHANGED <<Served, rowStatus>>
<1> DEFINE new == [d \in Domains |-> ServedAs(conf[d])]
           S == {d \in Domains : new[d] # Served[d]}
<1>0. /\ rowStatus \in [Domains -> {"absent", "active", "suspended"}]
      /\ conf \in [Domains -> Config]
    BY DEF Known, TypeInv, TypeOK, AgentTypeOK
<1>1. Served' = new
    BY DEF Served, ServedAs
<1>2. ASSUME NEW d \in S
      PROVE  /\ Served[d] = Service!Settled(rowStatus[d])
             /\ new[d] \in Service!MayServe(rowStatus[d]) \ {Served[d]}
             /\ new[d] \in Service!Services
    <2>1. d \in Domains /\ Lag(d) /\ Served[d] = ServedAs(live[d]) /\ new[d] = ServedAs(conf[d])
        BY DEF AgreeInv, LagInv, Served
    <2>2. Served[d] = Kind(rowStatus[d]) /\ new[d] # Served[d]
        BY <2>1 DEF Lag
    <2>3. new[d] \in {"none", "site", "stub"} /\ rowStatus[d] \in {"absent", "active", "suspended"}
        BY <1>0, <2>1, ServedType
    <2>4. rowStatus[d] = "absent" => new[d] # "stub"
        BY <1>0, <2>1, NoRowNoStub DEF ServedAs, Site, Stub, Config
    <2> HIDE DEF new, S
    <2> QED
        BY <2>2, <2>3, <2>4 DEF Kind, Service!Settled, Service!MayServe, Service!Services
<1>3. CASE S = {}
    <2>1. \A d \in Domains : new[d] = Served[d]
        BY <1>3
    <2>2. new = Served
        BY <2>1 DEF Served
    <2> QED
        BY <1>1, <2>2
<1>4. CASE S # {}
    <2> DEFINE f == [d \in S |-> new[d]]
    <2>1. S \in (SUBSET Domains) \ {{}}
        BY <1>4
    <2>2. \A d \in S : Served[d] = Service!Settled(rowStatus[d])
        BY <1>2
    <2>3. f \in [S -> Service!Services] /\ \A d \in S : f[d] = new[d]
        BY <1>2
    <2>4. \A d \in S : f[d] \in Service!MayServe(rowStatus[d]) \ {Served[d]}
        BY <1>2, <2>3
    <2>5. Served' = [d \in Domains |-> IF d \in S THEN f[d] ELSE Served[d]]
        <3>1. \A d \in Domains : new[d] = IF d \in S THEN f[d] ELSE Served[d]
            BY <2>3
        <3> QED
            BY <1>1, <3>1
    <2> HIDE DEF new, S, f
    <2> QED
        BY <2>1, <2>2, <2>3, <2>4, <2>5 DEF Service!Serve, Served
<1> QED
    BY <1>3, <1>4

\* The record of a domain follows what is served for it.
LEMMA CommitRecords ==
    ASSUME Known, AgreeInv, AgreeInv', Legacy = {}, NEW d \in Domains,
           NEW s \in {"absent", "active", "suspended"}, s # rowStatus[d],
           rowStatus' = [rowStatus EXCEPT ![d] = s], UNCHANGED live, Quiescent(d)'
    PROVE  Service!Record(d)
<1>0. rowStatus \in [Domains -> {"absent", "active", "suspended"}]
    BY DEF Known, TypeInv, TypeOK
<1>1. Settled(d)' /\ rowStatus'[d] = s
    BY <1>0 DEF AgreeInv, SettledInv
<1>2. ServedAs(live[d]) = Kind(s)
    BY <1>1 DEF Settled, IsFree, IsSite, IsStub, Leftover, ServedAs, Kind, Site, Stub
<1>3. /\ Served[d] = Service!Settled(s) /\ Served[d] # Service!Settled(rowStatus[d])
      /\ s \in Service!Statuses \ {rowStatus[d]}
    BY <1>0, <1>2 DEF Served, Kind, Service!Settled, Service!Statuses
<1>4. Served' = Served
    BY DEF Served
<1> QED
    BY <1>3, <1>4 DEF Service!Record, Served

\* What a step of the panel and its agent does to what is served and recorded.
LEMMA Moves ==
    ASSUME Known, AgreeInv, AgreeInv', Healthy, Legacy = {}, [Next]_vars
    PROVE  \/ live' = conf /\ UNCHANGED rowStatus
           \/ UNCHANGED <<live, rowStatus>>
           \/ \E d \in Domains : Service!Record(d)
<1>0. /\ rowStatus \in [Domains -> {"absent", "active", "suspended"}]
      /\ rowUser \in [Domains -> Users \cup {NoUser}]
    BY DEF Known, TypeInv, TypeOK
<1>1. CASE UNCHANGED vars
    BY <1>1 DEF vars, agentVars, dbVars
<1>2. CASE AgentStep /\ UNCHANGED <<dbVars, apiVars>>
    <2>1. ASSUME NEW i \in Conns, Handle(i) PROVE UNCHANGED live
        BY <2>1, HandleFrames DEF Known, HandleFrame
    <2>2. ASSUME NEW i \in Conns, Run(i) PROVE live' = live \/ live' = conf
        BY <2>2 DEF Run, RunTest, RunReload, ReloadNginx, RunUseradd, RunChown, RunCertbot,
            CertRefused, CommandFails, CertIssued, DeployHook
    <2>3. ASSUME NEW i \in Conns, HandlerTimeout(i) \/ Refuse(i) PROVE UNCHANGED live
        BY <2>3 DEF HandlerTimeout, Refuse
    <2>4. orphans = {}
        BY DEF AgreeInv, HostInv
    <2>5. AgentCrash \/ InstallSnippet => UNCHANGED live
        BY DEF AgentCrash, InstallSnippet
    <2> QED
        BY <1>2, <2>1, <2>2, <2>3, <2>4, <2>5 DEF AgentStep, dbVars
<1>3. ASSUME NEW i \in Conns, Request(i) \/ Respond(i) \/ ClientTimeout(i), rowStatus' # rowStatus
      PROVE  \E d \in Domains : Service!Record(d)
    <2>1. UNCHANGED live
        BY <1>3, ApiFrames DEF Known, ApiFrame
    <2>2. ~(\E d \in Domains : LegacyDelete(i, d))
        <3> SUFFICES ASSUME NEW d \in Domains, LegacyDelete(i, d) PROVE FALSE
            OBVIOUS
        <3>1. Settled(d)
            BY Starting DEF LegacyDelete
        <3> QED
            BY <1>0, <3>1 DEF LegacyDelete, Settled, Recorded, Leftover
    <2>3. CommitCreate(i) \/ CommitDelete(i) \/ CommitStatus(i)
        BY <1>3, <2>2, SMTT(30) DEF Request, BeginCreate, BeginDelete, BeginSuspend,
            BeginUnsuspend, BeginRebuild, BeginOn, BeginVhost, Respond, DeriveUsername,
            RecheckConflict, CallCreate, CommitRebuild, VhostDone, CommitFailed, AgentFailed,
            ClientTimeout, dbVars
    <2>4. Finish(i, "ok") /\ op[i] \in {"create", "delete", "suspend", "unsuspend"}
        BY <2>3 DEF CommitCreate, CommitDelete, CommitStatus
    <2>5. dom[i] \in Domains
        BY <2>4 DEF Known, TypeInv, RequestOK
    <2>6. PICK d \in Domains : d = dom[i]
        BY <2>5
    <2>7. PICK s \in {"absent", "active", "suspended"} :
                rowStatus' = [rowStatus EXCEPT ![d] = s]
        BY <1>3, <2>3, <2>6 DEF CommitCreate, CommitDelete, CommitStatus, dbVars
    <2>8. s # rowStatus[d]
        BY <1>0, <1>3, <2>7
    <2>9. Quiescent(d)'
        <3>1. /\ api[i] = "wait" /\ dom'[i] = NoDomain
              /\ \A j \in Conns \ {i} : dom'[j] = dom[j]
            BY <2>4, Finished
        <3>2. \A j \in Conns \ {i} : dom[j] # d
            BY <2>6, <3>1, DomainsAssumption DEF AgreeInv, Exclusive, PlumbingInv, Plumbing
        <3> QED
            BY <3>1, <3>2, DomainsAssumption DEF Quiescent
    <2> QED
        BY <2>1, <2>7, <2>8, <2>9, CommitRecords
<1> QED
    <2>1. ASSUME NEW i \in Conns, Request(i) \/ Respond(i) \/ ClientTimeout(i)
          PROVE  UNCHANGED live
        BY <2>1, ApiFrames DEF Known, ApiFrame
    <2> QED
        BY <1>1, <1>2, <1>3, <2>1 DEF Next

\* What visitors are served and what the table records move in the order of
\* DomainService: the server first, the record after it, whatever is reloaded
\* meanwhile on behalf of other domains.
THEOREM SpecImplementsService ==
    ASSUME Healthy, Legacy = {}
    PROVE  Spec => ImplementsService
<1>1. Init => Service!Init
    <2> SUFFICES ASSUME Init PROVE Service!Init
        OBVIOUS
    <2>1. live = [d \in Domains |-> "none"] /\ rowStatus = [d \in Domains |-> "absent"]
        BY DEF Init, AgentInit
    <2>2. \A d \in Domains : ServedAs(live[d]) = "none"
        BY <2>1 DEF ServedAs, Site, Stub
    <2> QED
        BY <2>1, <2>2 DEF Service!Init
<1>2. Known /\ AgreeInv /\ (Known /\ AgreeInv)' /\ [Next]_vars
            => [Service!Next]_<<Served, rowStatus>>
    <2> SUFFICES ASSUME Known, AgreeInv, AgreeInv', [Next]_vars
                 PROVE  Service!Next \/ UNCHANGED <<Served, rowStatus>>
        OBVIOUS
    <2>1. UNCHANGED <<live, rowStatus>> => UNCHANGED <<Served, rowStatus>>
        BY DEF Served
    <2> QED
        BY <2>1, Moves, ReloadServes DEF Service!Next
<1>3. Spec => []Known /\ []AgreeInv
    BY SpecAgree, PTL
<1>4. ImplementsService <=> Service!Init /\ [][Service!Next]_<<Served, rowStatus>>
    BY DEF ImplementsService, Service!Spec, Served
<1> QED
    BY <1>1, <1>2, <1>3, <1>4, PTL DEF Spec

=============================================================================
