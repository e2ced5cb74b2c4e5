--------------------------- MODULE MCNativeExternal ---------------------------
(* Two profiles.  The router is empty; or a proxy and a policy of an older  *)
(* installation serve the first, and the device has another policy; or     *)
(* objects are in the way of the lowest ids.                               *)
EXTENDS NativeExternal

CONSTANTS d1

MCDevice  == {d1}
MCGuard   == {"permit", "changed"}
MCEnabled == [s \in 1..Profiles |-> TRUE]

Serving(n, s) == [name |-> n, public |-> TRUE, socks |-> TRUE, upstream |-> s,
                  up |-> TRUE, auth |-> FALSE]

Empty ==
  [proxies |-> [i \in ProxyIndex |-> Absent], policies |-> [j \in PolicyIndex |-> Absent],
   assigned |-> [d \in Device |-> Absent], guard |-> "permit"]

Legacy ==
  [Empty EXCEPT !.proxies[1] = Serving(0, 1), !.policies[0] = [name |-> 0, permits |-> {1, 2}],
                !.assigned = [d \in Device |-> 0]]

Dangling ==
  [Empty EXCEPT !.proxies[0] = [Serving(0, 1) EXCEPT !.auth = TRUE],
                !.policies[1] = [name |-> 0, permits |-> {2}], !.assigned[d1] = 1]

MCInitial == {Empty, Legacy, Dangling}
=============================================================================
