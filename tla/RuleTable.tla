------------------------------ MODULE RuleTable -----------------------------
(***************************************************************************)
(* How the rules get into the RuleManager (add_blocked_* in                *)
(* rule_manager.py): one call per argument of the command line, first the  *)
(* applications, then the addresses, then the domains.                     *)
(*                                                                         *)
(* A host name is a sequence of character codes.  An integer of any size   *)
(* is the set of the positions of its ones, counted from the lowest.       *)
(***************************************************************************)
EXTENDS Integers, SequencesExt

CONSTANTS
  AppNames,  \* the names of the members of AppType
  Upper      \* str.upper, for the application names given

VARIABLES
  args,    \* [apps, ips, domains]: the arguments not yet added
  ips,     \* _blocked_ips
  apps,    \* _blocked_apps
  domains  \* _blocked_domains

ruleVars == <<args, ips, apps, domains>>

RulesStart == ips = {} /\ apps = {} /\ domains = {}

\* The bits of a part of an address; beyond 16 bits nobody looks.
Bits(n) == {b \in 0..15 : (n \div 2^b) % 2 = 1}

\* _str_to_ip: "result << 8 | part" for each part, whatever its size, so that
\* a part ends up shifted by 8 for every part behind it.
StrToIp(parts) ==
  UNION {{b + 8 * (Len(parts) - k) : b \in Bits(parts[k])} : k \in DOMAIN parts}

\* str.lower, on ASCII.
Lower(text) ==
  [k \in DOMAIN text |-> text[k] + (IF text[k] \in 65..90 THEN 32 ELSE 0)]

\* An unknown application is ignored with a warning.
AddBlockedApp ==
  /\ args.apps # <<>>
  /\ apps' = apps \cup ({Upper[Head(args.apps)]} \cap AppNames)
  /\ args' = [args EXCEPT !.apps = Tail(@)]
  /\ UNCHANGED <<ips, domains>>

AddBlockedIp ==
  /\ args.apps = <<>> /\ args.ips # <<>>
  /\ ips' = ips \cup {StrToIp(Head(args.ips))}
  /\ args' = [args EXCEPT !.ips = Tail(@)]
  /\ UNCHANGED <<apps, domains>>

\* Mutant: the domain is kept as it was given.
AddBlockedDomainMutant ==
  /\ args.apps = <<>> /\ args.ips = <<>> /\ args.domains # <<>>
  /\ domains' = domains \cup {Head(args.domains)}
  /\ args' = [args EXCEPT !.domains = Tail(@)]
  /\ UNCHANGED <<ips, apps>>

AddBlockedDomain ==
  /\ args.apps = <<>> /\ args.ips = <<>> /\ args.domains # <<>>
  /\ domains' = domains \cup {Lower(Head(args.domains))}
  /\ args' = [args EXCEPT !.domains = Tail(@)]
  /\ UNCHANGED <<ips, apps>>

AddRule == AddBlockedApp \/ AddBlockedIp \/ AddBlockedDomain

RulesComplete == args.apps = <<>> /\ args.ips = <<>> /\ args.domains = <<>>

=============================================================================
