----------------------------- MODULE MCAccounts -----------------------------
(***************************************************************************)
(* Instances of Accounts for TLC.                                          *)
(***************************************************************************)
EXTENDS Accounts, TLC

CONSTANTS q1, q2, b1, b2, t1, t2, t3, l1, l2

\* Browsers that refresh and sign out; passwords and mailed links; the ways into
\* an account that is suspended, with passwords, with Google and with both.
Everyday == {{"google", "refresh", "logout", "expire"},
             {"signup", "login", "google", "verify", "reset", "expire"},
             {"signup", "login", "refresh", "suspend"},
             {"google", "refresh", "suspend"},
             {"signup", "login", "google", "suspend"}}

Symmetry == Permutations({q1, q2}) \cup Permutations({b1, b2})
                \cup Permutations({t1, t2, t3}) \cup Permutations({l1, l2})
=============================================================================
