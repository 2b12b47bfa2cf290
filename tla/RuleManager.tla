----------------------------- MODULE RuleManager ----------------------------
(***************************************************************************)
(* Blocking rules (rule_manager.py): blocked source addresses, blocked     *)
(* applications and blocked substrings of host names.                      *)
(***************************************************************************)
EXTENDS DpiTypes

CONSTANT Rules  \* [ips, apps, domains]: the sets the command line filled

ASSUME RulesAssumption ==
  /\ DOMAIN Rules = {"ips", "apps", "domains"}
  /\ Rules.apps \subseteq AppTypes

\* Mutant: the domain rules are only consulted for unclassified flows.
IsBlockedMutant(srcIp, app, sni) ==
  \/ srcIp \in Rules.ips
  \/ app \in Rules.apps
  \/ app = "UNKNOWN" /\ \E dom \in Rules.domains : dom \in Within[sni]

\* is_blocked: the three checks, made under the lock.
IsBlocked(srcIp, app, sni) ==
  \/ srcIp \in Rules.ips
  \/ app \in Rules.apps
  \/ \E dom \in Rules.domains : dom \in Within[sni]

=============================================================================
