----------------------------- MODULE MCNdmApply -----------------------------
(***************************************************************************)
(* Routers for model checking NdmApply: two profiles, of which the second  *)
(* is assigned to a device, and what earlier installations and the Web UI  *)
(* leave on a router.                                                      *)
(***************************************************************************)
EXTENDS NdmApply

CONSTANTS d1, d2

MCDevice   == {d1, d2}
MCGuard    == {"permit", "changed"}
MCEnabled  == [s \in 1..Profiles |-> TRUE]
Serving(n, s) == [name |-> n, public |-> TRUE, socks |-> TRUE, upstream |-> s,
                  up |-> TRUE, auth |-> FALSE]

Empty ==
  [proxies |-> [i \in ProxyIndex |-> Absent], policies |-> [j \in PolicyIndex |-> Absent],
   assigned |-> [d \in Device |-> Absent], guard |-> "permit"]

(* Objects of the first installation, under names of their own, with both  *)
(* devices on another policy.                                              *)
Legacy ==
  [Empty EXCEPT
     !.proxies[1] = Serving(0, 1),
     !.policies[0] = [name |-> 0, permits |-> {1, 2}],
     !.policies[2] = [name |-> 0, permits |-> {1}],
     !.assigned = [d \in Device |-> 0]]

(* A proxy that asks for authentication, and a policy that still permits a *)
(* proxy that is no longer there.                                          *)
Dangling ==
  [Empty EXCEPT
     !.proxies[0] = [Serving(0, 1) EXCEPT !.auth = TRUE],
     !.policies[1] = [name |-> 0, permits |-> {2}],
     !.assigned[d2] = 1]

(* Two proxies for one slot.                                               *)
Ambiguous == [Empty EXCEPT !.proxies[0] = Serving(0, 1), !.proxies[2] = Serving(1, 1)]

MCWhole  == {Empty, Legacy, Dangling, Ambiguous}
MCUsable == {Empty, Legacy, Dangling}
=============================================================================
