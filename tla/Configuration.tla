----------------------------- MODULE Configuration -----------------------------
(***************************************************************************)
(* What the server takes from its configuration (src/src/config.rs): layers  *)
(* merged key by key over built-in defaults, then one pass of rules over the  *)
(* result.  The manager validates its editors with the same rules.           *)
(*                                                                          *)
(* A value is kept to what the rules tell apart: a switch is a Boolean, an    *)
(* optional list or address is "none", "good" or "bad", the two timeouts that *)
(* are compared are tenths of a second, every other value is "good" or "bad". *)
(***************************************************************************)
EXTENDS Naturals, TLC

Switches == {"database.enabled", "auth.enabled", "cms.enabled", "static.enabled",
             "templates.enabled", "templates.require_enabled", "tls.enabled"}

\* Lists and addresses that may be left out.
Optional == {"cms.hosts", "cms.default_page", "cms.site_url", "tls.http_listen",
             "external_api.endpoints", "cors.allowed_origins", "server.trusted_proxies"}

\* Values with a range or a shape, by the section whose rule looks at them.
ServerKeys == {"logging.level", "server.request_timeout_secs", "server.shutdown_timeout_secs",
               "server.max_body_size_bytes"}
RateLimitKeys == {"rate_limit.capacity", "rate_limit.refill_per_second"}
HeaderKeys == {"security_headers"}
ExternalKeys == {"external_api.timeout_secs", "external_api.response_limit_bytes"}
DatabaseKeys == {"database.max_connections", "database.url"}
AuthKeys == {"auth.jwt_secret", "auth.token_ttl_secs", "auth.min_password_len",
             "auth.issuer", "auth.refresh_token_ttl_secs", "auth.cookie_domain"}
CmsKeys == {"cms.media_dir", "cms.media_max_bytes", "cms.index_page_size", "cms.max_revisions"}
StaticKeys == {"static.root_dir", "static.index_file"}
TemplateKeys == {"templates.views_dir", "templates.loop_iteration_limit",
                 "templates.forbidden_modules", "templates.modules_dir", "templates.backend"}
SidecarKeys == {"templates.sidecar.workers", "templates.sidecar.startup_timeout_ms",
                "templates.sidecar.script"}
MetricsKeys == {"metrics.path"}
PemKeys == {"tls.cert_path", "tls.key_path"}

Patience == "templates.sidecar.request_timeout_ms"
Budget == "templates.sidecar.render_budget_ms"

Values == ServerKeys \cup RateLimitKeys \cup HeaderKeys \cup ExternalKeys \cup DatabaseKeys
            \cup AuthKeys \cup CmsKeys \cup StaticKeys \cup TemplateKeys \cup SidecarKeys
            \cup MetricsKeys \cup PemKeys

Keys == Switches \cup Optional \cup Values \cup {Patience, Budget}

\* A backend is "boa", "sidecar", "auto" or "bad".
Defaults ==
    [k \in Keys |-> CASE k = Patience -> 100
                      [] k = Budget -> 50
                      [] k = "templates.backend" -> "auto"
                      [] k \in Switches -> k = "templates.require_enabled"
                      [] k \in Optional -> "none"
                      [] k \in {"auth.jwt_secret"} \cup PemKeys -> "bad"
                      [] OTHER -> "good"]

\* A layer is a function on some of the keys, or a text that does not parse.
Empty == [k \in {} |-> "none"]
Malformed == [k \in {"syntax"} |-> "bad"]
Parses(layer) == DOMAIN layer \subseteq Keys

\* Later layers win, key by key.
Merged(base, local, env) ==
    [k \in Keys |-> IF k \in DOMAIN env THEN env[k]
                    ELSE IF k \in DOMAIN local THEN local[k]
                    ELSE IF k \in DOMAIN base THEN base[k]
                    ELSE Defaults[k]]

Sound(c, keys) == \A k \in keys : c[k] = "good"
NotBad(c, keys) == \A k \in keys : c[k] # "bad"

(* The rules, section by section. *)

ServerOK(c) == Sound(c, ServerKeys)
RateLimitOK(c) == Sound(c, RateLimitKeys)
CorsOK(c) == c["cors.allowed_origins"] # "bad"
HeadersOK(c) == Sound(c, HeaderKeys)

ExternalApiOK(c) == c["external_api.endpoints"] # "none" =>
    Sound(c, ExternalKeys \cup {"external_api.endpoints"})

DatabaseOK(c) == c["database.enabled"] => Sound(c, DatabaseKeys)

AuthOK(c) == c["auth.enabled"] => c["database.enabled"] /\ Sound(c, AuthKeys)

\* The shapes are checked while the CMS is off too.
CmsShapes(c) == NotBad(c, {"cms.hosts", "cms.default_page", "cms.site_url"}) /\ Sound(c, CmsKeys)

\* Slip: a CMS host needs nothing of the static tree.
CmsOKUnstyled(c) ==
    /\ CmsShapes(c)
    /\ c["cms.enabled"] => c["database.enabled"] /\ c["auth.enabled"] /\ c["templates.enabled"]

CmsOK(c) ==
    /\ CmsShapes(c)
    /\ c["cms.enabled"] =>
        /\ c["cms.hosts"] # "none" => c["static.enabled"]
        /\ c["database.enabled"] /\ c["auth.enabled"] /\ c["templates.enabled"]

StaticOK(c) == Sound(c, StaticKeys)

\* The client of the sidecar outwaits a render's budget.
SidecarOK(c) ==
    /\ Sound(c, SidecarKeys \ {"templates.sidecar.script"})
    /\ c["templates.backend"] # "boa" => c["templates.sidecar.script"] = "good"
    /\ c[Budget] >= 1
    /\ c[Patience] > c[Budget]

\* An empty modules_dir is neither good nor bad: nobody looks there while modules
\* are off.
TemplatesOK(c) ==
    /\ Sound(c, TemplateKeys \ {"templates.modules_dir", "templates.backend"})
    /\ c["templates.modules_dir"] # "bad"
    /\ c["templates.require_enabled"] => c["templates.modules_dir"] = "good"
    /\ c["templates.backend"] # "bad"
    /\ SidecarOK(c)

MetricsOK(c) == Sound(c, MetricsKeys)

TlsOK(c) ==
    /\ c["tls.http_listen"] # "bad"
    /\ c["tls.enabled"] => Sound(c, PemKeys)

ProxiesOK(c) == c["server.trusted_proxies"] # "bad"

\* AppConfig::validate, whatever the order in which it meets the problems.
Valid(c) ==
    /\ ServerOK(c) /\ RateLimitOK(c) /\ CorsOK(c) /\ HeadersOK(c) /\ ExternalApiOK(c)
    /\ DatabaseOK(c) /\ AuthOK(c) /\ CmsOK(c) /\ StaticOK(c) /\ TemplatesOK(c)
    /\ MetricsOK(c) /\ TlsOK(c) /\ ProxiesOK(c)

\* load: the two files and the environment.
Loads(base, local, env) ==
    /\ Parses(base) /\ Parses(local)
    /\ Valid(Merged(base, local, env))

\* ConfigManager::validate: the pair, without the environment.
Accepts(base, local) == Loads(base, local, Empty)

\* The two files; one that is missing reads as empty.
Layers == {"base", "local"}
Missing == [k \in {"missing"} |-> "bad"]
TextOf(files, layer) == IF files[layer] = Missing THEN Empty ELSE files[layer]
PairOK(files) == Accepts(TextOf(files, "base"), TextOf(files, "local"))
=============================================================================
