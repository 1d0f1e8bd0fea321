---------------------------- MODULE MCAgentCalls ----------------------------
(* Instances of AgentCalls.  One unit of time is 5 seconds; the 2-second    *)
(* grace is rounded up to one unit.                                        *)
EXTENDS AgentCalls, TLC

\* The calls of the panel's services, with what their own checks let through:
\* domains of either case, networks of both families, any user name found in
\* an archive.  The agent turns away the second of each.
ServiceCalls ==
    UNION {NginxManagerCalls(d) \cup SSLManagerCalls(d) : d \in {"domain", "DOMAIN"}}
        \cup CageFSCalls \cup UNION {FirewallCalls(a) : a \in {"ipv4", "ipv6"}}
        \cup UNION {RestoreCalls(n) : n \in {"name", ""}}

AllCalls == ServiceCalls \cup EnableSslCalls \cup OtherCalls \cup MalformedCalls

Renewals == {c \in SSLManagerCalls("domain") : c.action = "ssl.renew"}

\* 300 seconds of certbot are more than the handler's 60: 14 stands for them.
Timeouts ==
    [b \in {"nginx"} |-> 3] @@ [b \in {"nft", "openssl", "useradd", "userdel"} |-> 2] @@
    [b \in {"systemctl", "chown"} |-> 6] @@ [b \in {"cagefsctl"} |-> 12] @@
    [b \in {"certbot"} |-> 14]

=============================================================================
