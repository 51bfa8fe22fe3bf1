---------------------------- MODULE AccountVault ----------------------------
(***************************************************************************)
(* What the wallet's files promise, whatever the calls, failures and       *)
(* crashes: the wallet gets its password once and keeps it, and it only    *)
(* ever holds accounts whose keys that password opens.                     *)
(***************************************************************************)
CONSTANTS Accounts, Passwords, NoPassword

VARIABLES
    owner,   \* the password of the wallet, NoPassword before there is one
    held     \* the accounts whose keys the wallet holds

vars == <<owner, held>>

Init == owner = NoPassword /\ held = {}

\* The wallet is created.
Claim(p) ==
    /\ owner = NoPassword
    /\ owner' = p
    /\ held' = held

\* An account enters the wallet: only once it has a password.
Add(a) ==
    /\ owner # NoPassword
    /\ held' = held \union {a}
    /\ owner' = owner

\* An account leaves the wallet.
Remove(a) ==
    /\ held' = held \ {a}
    /\ owner' = owner

Next ==
    \/ \E p \in Passwords : Claim(p)
    \/ \E a \in Accounts : Add(a) \/ Remove(a)

Spec == Init /\ [][Next]_vars
=============================================================================
