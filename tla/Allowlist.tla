------------------------------ MODULE Allowlist ------------------------------
(***************************************************************************)
(* The agent's allowlist (validator.py), the parameters its handlers read, *)
(* and the calls the panel makes.                                          *)
(*                                                                         *)
(* A parameter value is the class of texts it belongs to: "name" stands    *)
(* for every text of _RE_USERNAME, "NAME" for a name with an upper-case    *)
(* letter, and so on.  A pattern is the set of classes it matches in full. *)
(***************************************************************************)

NameRE    == {"name"}               \* _RE_USERNAME, _RE_LINUX_USERNAME
DomainRE  == {"domain"}             \* _RE_DOMAIN, lower case only
PhpRE     == {"php"}                \* _RE_PHP_VER
IpRE      == {"ipv4"}               \* _RE_IP_CIDR
WebrootRE == {"home webroot"}       \* _RE_WEBROOT
ActionRE  == {"DROP"}               \* _RE_FW_ACTION
ChainRE   == {"INPUT"}              \* _RE_FW_CHAIN
RuleRE    == {"handle"}             \* _RE_RULE_ID
ShellRE   == {"shell"}              \* _RE_SHELL

\* A parameter without a validator takes any value.
Rule(params, validators, strict) ==
    [params |-> params, validators |-> validators, strict |-> strict]
Strict(validators) == Rule(DOMAIN validators, validators, TRUE)

NoneDeclared == [k \in {} |-> {}]
OfDomain == Strict([domain |-> DomainRE, linux_username |-> NameRE])
OfUser   == Strict([username |-> NameRE])
OfCert   == Strict([domain |-> DomainRE])
Bare     == Rule({}, NoneDeclared, FALSE)

DomainActions ==
    {"nginx.create_domain", "nginx.delete_domain", "nginx.suspend_domain",
     "nginx.unsuspend_domain", "nginx.rebuild_domain", "user.ensure_domain_user"}
UserActions ==
    {"user.delete", "user.fix_ownership", "cagefs.enable", "cagefs.disable",
     "cagefs.remount"}
CertActions == {"ssl.renew", "ssl.get_expiry"}
BareActions == {"nginx.reload", "cagefs.update_skeleton", "firewall.list_rules"}

OwnActions ==
    {"nginx.write_vhost", "nginx.delete_vhost", "user.create", "firewall.add_rule",
     "firewall.delete_rule", "firewall.load_ruleset", "ssl.issue",
     "phpfpm.write_pool", "phpfpm.reload"}

ALLOWED_ACTIONS ==
    DomainActions \cup UserActions \cup CertActions \cup BareActions \cup OwnActions

RuleOf(action) ==
    CASE action \in DomainActions -> OfDomain
      [] action \in UserActions -> OfUser
      [] action \in CertActions -> OfCert
      [] action \in BareActions -> Bare
      [] action = "nginx.write_vhost" ->
            Rule({"username", "domain", "config_content"},
                 [username |-> NameRE, domain |-> DomainRE], FALSE)
      [] action = "nginx.delete_vhost" -> Strict([username |-> NameRE, domain |-> DomainRE])
      [] action = "user.create" ->
            Rule({"username", "uid", "shell"}, [username |-> NameRE, shell |-> ShellRE], FALSE)
      [] action = "firewall.add_rule" ->
            Strict([ip |-> IpRE, action |-> ActionRE, chain |-> ChainRE])
      [] action = "firewall.delete_rule" -> Strict([rule_id |-> RuleRE])
      [] action = "firewall.load_ruleset" -> Rule({"rules"}, NoneDeclared, FALSE)
      [] action = "ssl.issue" -> Strict([domain |-> DomainRE, webroot |-> WebrootRE])
      [] action = "phpfpm.write_pool" ->
            Rule({"username", "php_version", "config_content"},
                 [username |-> NameRE, php_version |-> PhpRE], FALSE)
      [] action = "phpfpm.reload" -> Strict([version |-> PhpRE])

\* params.get(field, ""): the empty text is in no pattern.
Given(params, field) == IF field \in DOMAIN params THEN params[field] ELSE ""

IsAllowed(action, params) ==
    /\ action \in ALLOWED_ACTIONS
    /\ LET spec == RuleOf(action) IN
        /\ spec.strict => DOMAIN params \subseteq spec.params
        /\ \A f \in DOMAIN spec.validators : Given(params, f) \in spec.validators[f]

-----------------------------------------------------------------------------
(* What a handler looks up in its parameters by subscription: a key that   *)
(* is missing raises KeyError.  user.create has a default for the shell    *)
(* and never looks at the uid.                                             *)

Needed(action) ==
    IF action = "user.create" THEN {"username"} ELSE RuleOf(action).params

-----------------------------------------------------------------------------
(* The calls of the panel's own services, with the values their callers'   *)
(* checks let through.  Those of the domain endpoints are in DomainApi.    *)

Call(action, params) == [action |-> action, params |-> params]
NoParams == [k \in {} |-> ""]

\* enable_ssl passes the panel's own ACME webroot, which no rule accepts.
EnableSslCalls == {Call("ssl.issue", [domain |-> "domain", webroot |-> "acme webroot"])}

\* NginxManager and SSLManager check the domain with a pattern of their own
\* that takes either case, the agent lower case only; the user name is taken
\* as it comes.
NginxManagerCalls(domain) ==
    {Call("nginx.write_vhost",
          [username |-> "name", domain |-> domain, config_content |-> "text"]),
     Call("nginx.delete_vhost", [username |-> "name", domain |-> domain]),
     Call("phpfpm.write_pool",
          [username |-> "name", php_version |-> "php", config_content |-> "text"]),
     Call("phpfpm.reload", [version |-> "php"]),
     Call("nginx.reload", NoParams)}

SSLManagerCalls(domain) ==
    {Call("ssl.issue", [domain |-> domain, webroot |-> "home webroot"]),
     Call("ssl.renew", [domain |-> domain]),
     Call("ssl.get_expiry", [domain |-> domain])}

CageFSCalls ==
    {Call(a, [username |-> "name"]) :
        a \in {"cagefs.enable", "cagefs.disable", "cagefs.remount"}}
    \cup {Call("cagefs.update_skeleton", NoParams)}

\* ipaddress.ip_network takes both families, the agent's rule IPv4 only.
FirewallCalls(ip) ==
    {Call("firewall.add_rule", [ip |-> ip, action |-> "DROP", chain |-> "INPUT"]),
     Call("firewall.delete_rule", [rule_id |-> "handle"]),
     Call("firewall.list_rules", NoParams)}

\* RestoreEngine: a user, and the ownership of what was unpacked.
RestoreCalls(name) ==
    {Call("user.create", [username |-> name, uid |-> "text", shell |-> "shell"]),
     Call("user.fix_ownership", [username |-> name])}

\* Calls nobody in the panel makes, as an administrator's script would.
OtherCalls ==
    {Call("user.delete", [username |-> "name"]),
     Call("user.ensure_domain_user", [domain |-> "domain", linux_username |-> "name"]),
     Call("firewall.load_ruleset", [rules |-> "text"])}

\* What the agent turns away: an unknown action, an undeclared field, a
\* missing one; the last one passes and fails in the handler.
MalformedCalls ==
    {Call("shell.run", NoParams),
     Call("ssl.renew", [domain |-> "domain", force |-> "text"]),
     Call("user.fix_ownership", NoParams),
     Call("firewall.load_ruleset", NoParams)}

=============================================================================
