------------------------------- MODULE NatMap -------------------------------
(***************************************************************************)
(* What the IPA NAT driver promises its client, NatApp: a table of rules,  *)
(* each named by the handle it was given when it was added.  It may refuse *)
(* any rule.  A handle that names no rule is refused.                      *)
(***************************************************************************)
EXTENDS Naturals

CONSTANTS
  Rule,      \* the rules a client may add
  MaxHandle  \* the largest handle the driver gives out

VARIABLE rules  \* the rules of the table, by handle

Handles == 1 .. MaxHandle
Tables  == UNION {[H -> Rule] : H \in SUBSET Handles}
Empty   == [h \in {} |-> h]

Holds(h, r) == h \in DOMAIN rules /\ rules[h] = r

AddRule(h, r) ==
  /\ h \in Handles \ DOMAIN rules
  /\ rules' = [g \in DOMAIN rules \cup {h} |-> IF g = h THEN r ELSE rules[g]]

DelRule(h) ==
  /\ h \in DOMAIN rules
  /\ rules' = [g \in DOMAIN rules \ {h} |-> rules[g]]

DelTable == rules' = Empty

MapInit == rules = Empty
MapNext ==
  \/ \E h \in Handles, r \in Rule : AddRule(h, r)
  \/ \E h \in Handles : DelRule(h)
  \/ DelTable

MapSpec == MapInit /\ [][MapNext]_rules
=============================================================================
