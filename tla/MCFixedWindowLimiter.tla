----------------------- MODULE MCFixedWindowLimiter -----------------------
(* Instances of FixedWindowLimiter for TLC. *)
EXTENDS FixedWindowLimiter, TLC

TwoScopes == {"auth_token", "write"}
Requests  == ("auth_token" :> 1) @@ ("write" :> 2)
Windows   == ("auth_token" :> 1) @@ ("write" :> 3)
Addresses == Permutations(Ips)
=============================================================================
