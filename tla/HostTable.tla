----------------------------- MODULE HostTable ------------------------------
(***************************************************************************)
(* What the registry promises about HTTP hosts, without the maps, items    *)
(* and port trimming by which it keeps the promise: a host has at most one *)
(* owner, a client is granted all the hosts it asks for or none, it is     *)
(* granted hosts only while it has none, and it loses all of them at once. *)
(***************************************************************************)
CONSTANTS
  Ids,        \* client identifiers
  HostNames,  \* the hosts end users ask for
  Nobody      \* the owner of a free host

VARIABLE owner

Owned(id) == {n \in HostNames : owner[n] = id}

Init == owner = [n \in HostNames |-> Nobody]

Grant(id, names) ==
  /\ Owned(id) = {}
  /\ \A n \in names : owner[n] = Nobody
  /\ owner' = [n \in HostNames |-> IF n \in names THEN id ELSE owner[n]]

Revoke(id) ==
  owner' = [n \in HostNames |-> IF owner[n] = id THEN Nobody ELSE owner[n]]

Next ==
  \E id \in Ids :
    \/ Revoke(id)
    \/ \E names \in SUBSET HostNames : Grant(id, names)

Spec == Init /\ [][Next]_owner
=============================================================================
