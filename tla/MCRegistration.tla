---- MODULE MCRegistration ----
(***************************************************************************)
(* Requests for Registration: one module from two proxies, with and        *)
(* without proxy_ip, with a unique pair that names every row of the module *)
(* or rows that are left open, and a request without module_name.          *)
(***************************************************************************)
EXTENDS Registration, TLC

From(m, p, s, name, value) ==
    [module |-> m, proxy |-> p, sender |-> s, uniqName |-> name, uniqValue |-> value]

SomeRequests ==
    {From("m", "p", "p", "absent", "m"), From("m", "q", "q", "absent", "m"),
     From("m", NoProxy, "q", "absent", "m"), From(NoModule, "p", "p", "absent", "m"),
     From("m", "p", "p", "module_name", "m"), From("m", "q", "q", "other", "m"),
     From("m", "p", "p", "unknown", "m")}

InstanceSymmetry == Permutations(Writers)
====
