---------------------------- MODULE MCRateLimit -----------------------------
(***************************************************************************)
(* TLC instances of RateLimit: paths of which two have an override, one is *)
(* closed with limit 0, and one is left to the default.                    *)
(***************************************************************************)
EXTENDS RateLimit

MCOverrides == <<<<"/api/cameras", 0>>, <<"/api/reports", 1>>, <<"/api", 3>>>>
MCStartsWith ==
    {<<"/api/cameras", "/api/cameras">>, <<"/api/cameras", "/api">>,
     <<"/api/reports", "/api/reports">>, <<"/api/reports", "/api">>}
=============================================================================
