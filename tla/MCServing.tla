------------------------------ MODULE MCServing ------------------------------
(* What a request meets: a behaviour shows one of its stages, the limiters   *)
(* (LoginThrottle), the way through layers and trees (Dispatch) or the       *)
(* rendering of templates (TemplateCache), with the other two at rest.       *)
EXTENDS LoginThrottle, Dispatch, TemplateCache, TLC

CONSTANTS n1, n2, r1, r2                       \* model values

VARIABLE stage

TwoNames == {n1, n2}
TwoAtOnce == {r1, r2}

(* One mapped host, two organizations beside main and cms.                   *)

Everything ==
    {<<"public", "index.jhs">>, <<"public", "index.html">>, <<"public", "/x.jhs">>,
     <<"public", "/assets/a.css">>, <<"views", "index.jhs">>, <<"views", "/x.jhs">>,
     <<"views", "/page">>, <<"t1", "index.jhs">>, <<"t1", "index.html">>, <<"t1", "/x.jhs">>}

\* Everything there, only the later links of the chains, and nothing at all.
SomeDisks == {Everything, Everything \ {<<"public", "index.jhs">>, <<"t1", "index.jhs">>}, {}}

SomeRequests ==
    {<<"GET", "/">>, <<"GET", "/x.jhs">>, <<"GET", "/page">>, <<"GET", "/assets/a.css">>,
     <<"GET", "/api">>, <<"GET", "/p/home">>, <<"GET", "/admin">>,
     <<"POST", "/">>, <<"POST", "/x.jhs">>, <<"POST", "/api">>, <<"POST", "/admin/media/1/alt">>}

(* A template, a partial that may include itself, a module that requires     *)
(* itself, two renders.                                                      *)

UsesOf == [f \in {"page", "part", "m"} |->
    CASE f = "page" -> {<<"part">>}
      [] f = "part" -> {<<>>, <<"part">>}
      [] f = "m"    -> {<<"m">>}]

SomeBodies == {<<"part">>}
NeedsTwice == <<"m", "m">>

\* Each module in an initial state of its own; one that is not shown stays in
\* the simplest.
ServingInit ==
    /\ stage \in {"throttle", "dispatch", "cache"}
    /\ ThrottleInit /\ Init /\ CacheInit
    /\ stage # "dispatch" => dispatching = FALSE /\ disk = {} /\ homepage = "missing"
    /\ stage # "cache" => files["part"].uses = <<>>

ServingNext ==
    /\ UNCHANGED stage
    /\ \/ stage = "throttle" /\ ThrottleNext /\ UNCHANGED <<vars, cacheVars>>
       \/ stage = "dispatch" /\ Next /\ UNCHANGED <<throttleVars, cacheVars>>
       \/ stage = "cache" /\ CacheNext /\ UNCHANGED <<throttleVars, vars>>

ServingSpec == ServingInit /\ [][ServingNext]_<<stage, throttleVars, vars, cacheVars>>

Symmetry == Permutations({r1, r2}) \cup Permutations({n1, n2})
=============================================================================
