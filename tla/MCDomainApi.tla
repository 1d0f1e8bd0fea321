---------------------------- MODULE MCDomainApi ----------------------------
(***************************************************************************)
(* Small instances of DomainApi.  my-site.com and my.site.com derive the   *)
(* same base name my_site_com; other.com derives a name of its own.        *)
(***************************************************************************)
EXTENDS DomainApi, TLC

\* Operations
DomainOps == {"create", "delete", "suspend", "unsuspend", "rebuild"}
DomainOpsReload == DomainOps \cup {"reload"}
EditOps == {"create", "suspend", "rebuild"}
CreateDelete == {"create", "delete"}
CreateVhost == {"create", "vhost", "reload"}
CreateRebuild == {"create", "rebuild"}
Suspension == {"create", "suspend", "unsuspend", "vhost", "unvhost", "reload"}

\* Linux users and the candidate names of the domains
TwoUsers == {"my_site_com", "my_site_com_001"}
OneUser == {"my_site_com"}
SameBase == [d \in Domains |-> <<"my_site_com", "my_site_com_001">>]
OwnBase == [d \in Domains |-> IF d = CHOOSE e \in Domains : TRUE
                THEN <<"my_site_com">> ELSE <<"my_site_com_001">>]
OneName == [d \in Domains |-> <<"my_site_com">>]

\* Failures before anything was changed, and a host without TLS as yet.
Benign == {"refuse", "nosnippet"}

\* Everything that can go wrong with the requests of one domain, short of the
\* agent's death.
DomainFaults == FaultKinds \ {"badvhost", "crash"}

LiveFaults == {"handlertimeout", "refuse", "crash", "cmdfail"}

\* Connections are interchangeable: nothing names or orders them.  So are the
\* domains where they have the same candidate names and begin with the same
\* rows.
RaceSymmetry == Permutations(Conns) \cup Permutations(Domains)
=============================================================================
