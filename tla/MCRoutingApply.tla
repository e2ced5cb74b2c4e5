--------------------------- MODULE MCRoutingApply ---------------------------
(***************************************************************************)
(* Two profile sets and two service packs, one of which grows when the     *)
(* repository is updated: with a domain asked for by name it then exceeds  *)
(* the bound on an expanded rule.                                          *)
(***************************************************************************)
EXTENDS RoutingApply

MCService == {1, 2}
MCDomain == {1, 2, 3}

Asking(addS, delS, addD, delD) == [addS |-> addS, delS |-> delS, addD |-> addD, delD |-> delD]

(* Add a service, ask for both, name a domain, take everything back, ask   *)
(* for nothing.                                                            *)
MCRequests ==
  {Asking({1}, {}, {}, {}), Asking({1, 2}, {}, {}, {}), Asking({}, {}, {3}, {}),
   Asking({}, {1, 2}, {}, {3}), Asking({}, {}, {}, {})}

Old == [s \in MCService |-> IF s = 1 THEN <<2>> ELSE <<1>>]
New == [s \in MCService |-> IF s = 1 THEN <<2, 1>> ELSE <<1>>]
MCPacks == {Old, New}

Plain(rule) == [inbounds |-> 1, outbounds |-> 1, direct |-> TRUE, routing |-> 1, rule |-> rule]
Router(rule, entry, boot) ==
  [config |-> Plain(rule), state |-> entry, live |-> Plain(rule), init |-> boot,
   pack |-> Old]

(* Freshly installed; with a rule that was put there by hand and is one    *)
(* pack; with a foreign rule; with a state file others can read; without a *)
(* direct outbound and without an init script.                             *)
MCInitial ==
  {Router(NoRule, Missing, "on"), Router(RuleOf(1, <<2>>), Missing, "on"),
   Router(Foreign, Missing, "on"),
   Router(NoRule, [text |-> Nothing, private |-> FALSE], "off"),
   [Router(NoRule, Missing, "absent") EXCEPT !.config.direct = FALSE]}
=============================================================================
