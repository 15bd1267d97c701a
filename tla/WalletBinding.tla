--------------------------- MODULE WalletBinding ---------------------------
(***************************************************************************)
(* What the wallet table promises: a user is bound to at most one address, *)
(* an address to at most one user, and a binding is never changed.  An     *)
(* address is what the table is keyed by: an account in one spelling.      *)
(***************************************************************************)
CONSTANTS Users, Addresses

VARIABLE bound   \* the pairs <<user, address>>

Init == bound = {}

Bind(u, address) ==
    /\ \A p \in bound : p[1] # u /\ p[2] # address
    /\ bound' = bound \cup {<<u, address>>}

Next == \E u \in Users, address \in Addresses : Bind(u, address)

Spec == Init /\ [][Next]_bound
=============================================================================
