------------------------------ MODULE Dispatch ------------------------------
(***************************************************************************)
(* One request on its way through the server: the middleware layers        *)
(* (middleware/), the template layer that may answer before the routes do, *)
(* the dispatcher that picks an organization's tree by the Host header     *)
(* (routes/mod.rs, vhosts.rs), the trees, the panel's guards and the views *)
(* that answer what nothing else did.                                      *)
(*                                                                         *)
(* No layer passes its classification on: each of them reads the live host *)
(* mapping again, and the template layer looks at files the static layer   *)
(* opens later.  So the mapping, the files and the default page may change *)
(* between any two steps of the request.  The mapping is what Tenants      *)
(* calls the snapshot: panel writes swap it.                               *)
(***************************************************************************)
EXTENDS Naturals, Sequences, FiniteSets

CONSTANTS Hosts, Tenants,
          Disks,          \* initial contents of the document roots and views/
          Requests,       \* the <<method, path>> pairs that arrive
          EditorOf,       \* the organizations the visitor edits
          MaxChanges      \* bound on what happens beside the request

VARIABLES mapping,        \* VhostSnapshot.bindings: host -> organization
          dispatching,    \* build_app mounted vhost_routes, not routes
          disk,           \* files: <<root, name>>
          homepage,       \* the row cms.default_page names
          request,
          changes

vars == <<mapping, dispatching, disk, homepage, request, changes>>

Organizations == {"main", "cms"} \cup Tenants
Places == {"public", "views"} \cup Tenants
Nowhere == <<"nowhere", "">>
HomePage == <<"cms", "page">>

Paths == {"/", "/x.jhs", "/page", "/assets/a.css", "/api", "/p/home", "/admin",
          "/admin/media/1/alt"}

\* The files the model tells apart.
Documents ==
    Places \X {"index.jhs", "index.html", "/x.jhs", "/page", "/assets/a.css"}

\* Tenants are ids, no names of a surface or of a root.
ASSUME DispatchAssumption ==
    /\ Tenants \cap {"single", "main", "cms", "none", "public", "views"} = {}
    /\ Disks \subseteq SUBSET Documents
    /\ Requests \subseteq {"GET", "POST"} \X Paths
    /\ MaxChanges \in Nat

NoAnswer == [status |-> 0, body |-> "none", from |-> Nowhere]
Envelope(status) == [status |-> status, body |-> "envelope", from |-> Nowhere]
Plain(status) == [status |-> status, body |-> "plain", from |-> Nowhere]
Sent(body, from) == [status |-> 200, body |-> body, from |-> from]

MappedIn(bindings) == {h \in Hosts : bindings[h] # "none"}
Mapped == MappedIn(mapping)

\* vhosts::classify.  A missing or repeated Host header reads as no host.
ClassIn(bindings, host) ==
    IF host \notin Hosts \/ bindings[host] = "none" THEN "main" ELSE bindings[host]

Class(host) == ClassIn(mapping, host)

\* vhosts::organization_key: what the content plane takes the request for.
Scope(class) == IF class \in Tenants THEN class ELSE "cms"

\* What the visitor of a host is entitled to expect of it.
SurfaceIn(bindings, host) ==
    IF MappedIn(bindings) = {} THEN "single" ELSE ClassIn(bindings, host)

Surface(host) == SurfaceIn(mapping, host)

\* edited: a file or the page moved beside the request, or looking it up failed.
Idle == [pc |-> "idle", method |-> "GET", path |-> "/", host |-> "nohost",
         browser |-> FALSE, class |-> "main", vhosts |-> FALSE, scope |-> "none",
         allowed |-> "none", acted |-> "none", file |-> Nowhere, answer |-> NoAnswer,
         passed |-> {}, seen |-> {}, edited |-> FALSE]

TypeOK ==
    /\ mapping \in [Hosts -> Organizations \cup {"none"}]
    /\ dispatching \in BOOLEAN
    /\ disk \subseteq Documents
    /\ homepage \in {"published", "draft", "missing"}
    /\ request.path \in Paths /\ request.class \in Organizations
    /\ request.answer.status \in {0, 200, 303, 403, 404, 405, 408, 413, 429, 500}
    /\ changes \in 0..MaxChanges

\* build_app decides once, on the mapping of the boot.
Init ==
    /\ mapping \in [Hosts -> Organizations \cup {"none"}]
    /\ dispatching = (Mapped # {})
    /\ disk \in Disks
    /\ homepage \in {"published", "draft", "missing"}
    /\ request = Idle
    /\ changes = 0

World == <<mapping, dispatching, disk, homepage, changes>>

At(pc) == request.pc = pc /\ UNCHANGED World

GoTo(pc) == request' = [request EXCEPT !.pc = pc]

(* The layers (middleware::apply), outermost first.  An answer passes, on   *)
(* its way out, the layers outside the one that gave it.                    *)

Layers == <<"security", "pages", "cors", "id", "logging", "limit", "body", "timeout",
            "templates">>

Outside(layer) ==
    LET place == CHOOSE i \in DOMAIN Layers : Layers[i] = layer
    IN  {Layers[i] : i \in 1..(place - 1)}

Answer(answer, layer) ==
    request' = [request EXCEPT !.pc = "out", !.answer = answer, !.passed = Outside(layer)]

Arrive(target, host) ==
    /\ At("idle")
    /\ request' = [Idle EXCEPT !.pc = "layers", !.method = target[1], !.path = target[2],
                               !.host = host, !.seen = {Surface(host)}]

\* rate_limit::run: the address' bucket is empty.
Limited == Answer(Envelope(429), "limit")

\* body_limit::run: the declared length exceeds the limit.
TooLarge == Answer(Envelope(413), "body")

Refuse == At("layers") /\ (Limited \/ TooLarge)

\* timeout::run drops the rest of the request where it stands.
TimedOut ==
    /\ request.pc \notin {"idle", "layers", "out", "answered"} /\ UNCHANGED World
    /\ Answer(Envelope(408), "timeout")

\* templates::run: only reads pass through the template layer.
Classify ==
    /\ At("layers")
    /\ IF request.method = "GET"
          THEN request' = [request EXCEPT !.pc = "data", !.class = Class(request.host),
                                          !.vhosts = Mapped # {}]
          ELSE GoTo("pipeline")

\* base_data classifies the request anew.
Data ==
    /\ At("data")
    /\ request' = [request EXCEPT !.pc = "file", !.scope = Scope(Class(request.host))]

RenderRoot == IF request.class \in Tenants THEN request.class ELSE "public"

ToRender(file) == request' = [request EXCEPT !.pc = "render", !.file = file]

ExplicitFile ==
    /\ At("file")
    /\ LET file == <<RenderRoot, request.path>>
       IN  IF request.path = "/x.jhs" /\ request.class # "cms" /\ file \in disk
               THEN ToRender(file)
               ELSE GoTo("home")

(* The configured default page takes over the homepage (render_public_page).*)

\* The row the slug finds: the default page is the CMS organization's, other
\* organizations may have a page of that name too.
RowsOf(org) == IF org = "cms" THEN {homepage} ELSE {"published", "draft", "missing"}

\* The organization is read again.  Its editors preview what is not visible.
ShowPage(org, state) ==
    \/ Answer(IF state = "published" \/ org \in EditorOf
                 THEN Sent("content", <<org, "page">>)
                 ELSE [status |-> 404, body |-> "rendered", from |-> <<org, "page">>],
              "templates")
    \/ Answer(Envelope(500), "templates")

\* A slug that finds nothing leaves the request to the rest of the chain, and
\* a lookup that fails is taken for that.
Home ==
    /\ At("home")
    /\ LET org == Scope(Class(request.host)) IN
       IF request.path = "/" /\ (~request.vhosts \/ request.class = "cms")
          THEN \/ \E state \in RowsOf(org) \ {"missing"} : ShowPage(org, state)
               \/ "missing" \in RowsOf(org) /\ GoTo("index")
               \/ request' = [request EXCEPT !.pc = "index", !.edited = TRUE]
          ELSE GoTo("index")

\* directory_index_jhs: index.jhs before the static index.
DirectoryIndex ==
    /\ At("index")
    /\ LET file == <<RenderRoot, "index.jhs">>
       IN  IF request.path = "/" /\ (~request.vhosts \/ request.class # "cms") /\ file \in disk
               THEN ToRender(file)
               ELSE GoTo("pipeline")

\* render_response: the engine opens the file again, and may fail on it.
Render ==
    /\ At("render")
    /\ \/ request.file \in disk /\ Answer(Sent("rendered", request.file), "templates")
       \/ Answer(Envelope(500), "templates")

(* The trees (routes, vhost_routes, tenant_trees, static_files.rs).         *)

Tree == IF ~dispatching THEN "single" ELSE Class(request.host)

HasMachinery(tree) == tree \in {"single", "main"}
HasContent(tree) == tree # "main"

\* Slip: the tenants' trees are built on the static root.
StaticRootShared(tree) == "public"

StaticRoot(tree) == IF tree \in Tenants THEN tree ELSE "public"

\* ServeDir and what stands behind it.  is_shared_asset_path opens part of
\* public/ to the CMS tree and, behind their own root, to the tenants.
Static(tree, path) ==
    LET own    == <<StaticRoot(tree), path>>
        shared == <<"public", path>>
    IN  IF tree # "cms" /\ own \in disk
            THEN Sent(IF path = "/x.jhs" THEN "source" ELSE "file", own)
        ELSE IF tree \notin {"single", "main"} /\ path = "/assets/a.css"
            THEN IF shared \in disk THEN Sent("file", shared)
                 ELSE IF tree = "cms" THEN Envelope(404) ELSE Plain(404)
        ELSE Envelope(404)

\* "/" is a route of its own on every tree but the CMS one.
Root(tree) ==
    IF tree = "cms" THEN Envelope(404)
    ELSE IF request.method # "GET" THEN Envelope(405)
    ELSE IF <<StaticRoot(tree), "index.html">> \in disk
        THEN Sent("file", <<StaticRoot(tree), "index.html">>)
    ELSE Plain(404)

\* The handlers behind the panel's and the content's routes, by path.
Handler == [p \in {"/p/home", "/admin", "/admin/media/1/alt"} |->
              IF p = "/admin/media/1/alt" THEN "POST" ELSE "GET"]

\* A 404 to a read comes back to the template layer.
Returned(answer) ==
    request' = [request EXCEPT !.answer = answer, !.passed = Outside("templates"),
                  !.pc = IF answer.status = 404 /\ request.method = "GET" THEN "views" ELSE "out"]

Pipeline ==
    /\ At("pipeline")
    /\ LET tree == Tree  path == request.path IN
       \/ /\ path \in DOMAIN Handler /\ HasContent(tree)
          /\ IF request.method # Handler[path] THEN Returned(Envelope(405))
             ELSE GoTo(IF path = "/p/home" THEN "content" ELSE "guard")
       \/ /\ path = "/api" /\ HasMachinery(tree)
          /\ Returned(IF request.method = "GET" THEN Sent("json", Nowhere) ELSE Envelope(405))
       \/ path = "/" /\ Returned(Root(tree))
       \/ /\ ~(path \in DOMAIN Handler /\ HasContent(tree))
          /\ ~(path = "/api" /\ HasMachinery(tree))
          /\ path # "/"
          /\ Returned(IF request.method = "GET" THEN Static(tree, path) ELSE Envelope(404))

\* public_page: the organization is read again.  Without a page to show the
\* 404 view is rendered; a body that throws is an internal error.
Unshown == [status |-> 404, body |-> "rendered", from |-> Nowhere]

Content ==
    /\ At("content")
    /\ \/ Returned(Sent("content", <<Scope(Class(request.host)), "page">>))
       \/ Returned(Unshown)
       \/ Returned(Envelope(500))

\* CmsEditor: anonymous visitors go to the login form.
Guard ==
    /\ At("guard")
    /\ LET org == Scope(Class(request.host)) IN
       \/ Returned([status |-> 303, body |-> "plain", from |-> Nowhere])
       \/ org \notin EditorOf /\ Returned(Envelope(403))
       \/ org \in EditorOf
          /\ request' = [request EXCEPT !.pc = "handler", !.allowed = org]

\* Slip: the page handlers read the organization again.
ActsOnReread == Scope(Class(request.host))

\* The page handlers act on the organization the guard checked; update_alt
\* reads its form first and then the mapping once more.
ActsOn ==
    IF request.path = "/admin/media/1/alt" THEN Scope(Class(request.host))
    ELSE request.allowed

Act ==
    /\ At("handler")
    /\ request' = [request EXCEPT !.pc = "out", !.acted = ActsOn, !.passed = Outside("templates"),
                                  !.answer = Sent("content", <<ActsOn, "page">>)]

\* view_candidate: what nobody answered is looked up in views/, never for
\* the panel and never on the main host.
Views ==
    /\ At("views")
    /\ LET view == <<"views", IF request.path = "/" THEN "index.jhs" ELSE request.path>>
       IN  IF /\ ~request.vhosts \/ request.class = "cms" \/ request.class \in Tenants
              /\ request.path \notin {"/admin", "/admin/media/1/alt"}
              /\ view \in disk
             THEN ToRender(view)
             ELSE GoTo("out")

\* error_pages::run: browsers (the Accept header tells) get a page for an
\* envelope.
Finish(browser) ==
    /\ At("out")
    /\ request' = [request EXCEPT !.pc = "answered", !.browser = browser,
          !.answer.body = IF @ = "envelope" /\ browser /\ "pages" \in request.passed
                          THEN "error page" ELSE @]

Close == At("answered") /\ request' = Idle

(* Beside the request.                                                      *)

Beside(seen, edited) ==
    /\ changes < MaxChanges
    /\ changes' = changes + 1
    /\ request' = [request EXCEPT !.seen = IF @ = {} THEN {} ELSE @ \cup {seen},
                                  !.edited = IF request.pc = "idle" THEN FALSE ELSE @ \/ edited]
    /\ UNCHANGED dispatching

\* A Tenants page swaps the snapshot: the next reader sees it.
Swap ==
    \E h \in Hosts, org \in Organizations \cup {"none"} :
        /\ mapping[h] # org
        /\ mapping' = [mapping EXCEPT ![h] = org]
        /\ Beside(SurfaceIn([mapping EXCEPT ![h] = org], request.host), FALSE)
        /\ UNCHANGED <<disk, homepage>>

\* A deployment adds or removes a file.
Edit ==
    \E file \in UNION Disks :
        /\ disk' = IF file \in disk THEN disk \ {file} ELSE disk \cup {file}
        /\ Beside(Surface(request.host), TRUE)
        /\ UNCHANGED <<mapping, homepage>>

\* An editor publishes, hides or deletes the default page.
Publish ==
    \E state \in {"published", "draft", "missing"} :
        /\ homepage' = state /\ homepage # state
        /\ Beside(Surface(request.host), TRUE)
        /\ UNCHANGED <<mapping, disk>>

Next ==
    \/ \E target \in Requests, host \in Hosts \cup {"nohost"} : Arrive(target, host)
    \/ \E browser \in BOOLEAN : Finish(browser)
    \/ Refuse \/ TimedOut \/ Classify \/ Data \/ ExplicitFile \/ Home \/ DirectoryIndex
    \/ Render \/ Pipeline \/ Content \/ Guard \/ Act \/ Views \/ Close
    \/ Swap \/ Edit \/ Publish

Spec == Init /\ [][Next]_vars

-----------------------------------------------------------------------------
(* Properties.                                                             *)

Answered == request.pc = "answered"

\* build_app mounted what the server has hosts for: it is not asked again
\* when the first host is mapped or the last one goes.
Mounted ==
    IF dispatching THEN "single" \notin request.seen ELSE request.seen = {"single"}

\* The roots a surface serves bytes from.
Roots(surface) ==
    CASE surface = "single" -> {"public", "views", "cms"}
      [] surface = "main"   -> {"public"}
      [] surface = "cms"    -> {"public", "views", "cms"}
      [] OTHER              -> {surface, "views", "public"}

\* What is private to an organization is shown on its hosts only: whatever
\* the mapping did while the request ran, its answer comes from a root that
\* one of the organizations the host belonged to meanwhile is served from (a
\* tenant's tree reads the CMS organization's content when its host goes to
\* the main organization under it); public/ lends the CMS and tenant hosts its
\* assets alone; the templates saw the content of such an organization too;
\* and the source of a template leaves the server only when files or hosts
\* moved under the request.
ServedFromOwnSurface ==
    Answered /\ Mounted =>
        LET from == request.answer.from IN
        /\ from # Nowhere =>
              \/ from[1] \in UNION {Roots(s) : s \in request.seen}
              \/ Cardinality(request.seen) > 1 /\ from[1] \in {Scope(s) : s \in request.seen}
        /\ from[1] = "public" /\ request.path # "/assets/a.css" =>
              request.seen \cap {"single", "main"} # {}
        /\ request.scope # "none" => request.scope \in {Scope(s) : s \in request.seen}
        /\ request.answer.body = "source" =>
              request.edited \/ Cardinality(request.seen) > 1

\* The order in which a homepage is looked for, surface by surface, as the
\* template layer's documentation gives it.
Chain(surface) ==
    CASE surface = "single" -> <<HomePage, <<"public", "index.jhs">>, <<"public", "index.html">>,
                                 <<"views", "index.jhs">> >>
      [] surface = "main"   -> << <<"public", "index.jhs">>, <<"public", "index.html">> >>
      [] surface = "cms"    -> <<HomePage, <<"views", "index.jhs">> >>
      [] OTHER              -> << <<surface, "index.jhs">>, <<surface, "index.html">>,
                                  <<"views", "index.jhs">> >>

Exists(place) == place \in disk \/ (place = HomePage /\ homepage # "missing")

\* A homepage request that is neither refused nor broken by its template, whose
\* page lookup did not fail and during which nothing moved is answered by the
\* first link of the chain that exists, although the links are tried by two
\* layers on either side of the dispatcher.
HomepageChain ==
    LET surface == CHOOSE s \in request.seen : TRUE
        chain   == Chain(surface)
    IN  Answered /\ Mounted /\ Cardinality(request.seen) = 1 /\ ~request.edited
        /\ request.path = "/" /\ request.method = "GET" /\ request.answer.status \in {200, 404}
        => \/ \E i \in DOMAIN chain : /\ request.answer.from = chain[i] /\ Exists(chain[i])
                                      /\ \A j \in 1..(i - 1) : ~Exists(chain[j])
           \/ request.answer.from = Nowhere /\ \A i \in DOMAIN chain : ~Exists(chain[i])

\* The panel acts on the organization whose membership the guard checked --
\* save the alt texts of the media library, which it may write to another
\* one's when the host moves while the form is read.
ActsWhereAuthorized ==
    request.acted # "none" =>
        /\ request.allowed \in EditorOf
        /\ \/ request.acted = request.allowed
           \/ request.path = "/admin/media/1/alt" /\ Cardinality(request.seen) > 1

\* Every refusal reaches the client traceable: it has the correlation id and
\* the security headers, was logged, and is the kind of document asked for.
RefusalsTraceable ==
    Answered /\ request.answer.status >= 400 =>
        /\ {"security", "id", "logging"} \subseteq request.passed
        /\ request.browser => request.answer.body # "envelope"

\* On well-typed states, an answer is what its host is entitled to: what is
\* private to an organization is shown on its hosts only, a homepage is the
\* first link of its chain that exists, and a refusal can be traced.
AnswersHold == TypeOK /\ ServedFromOwnSurface /\ HomepageChain /\ RefusalsTraceable

\* What static_files.rs says of template sources: never served raw anywhere.
\* A server booted without hosts keeps its single tree when the panel maps
\* the first one, and that tree serves what the template layer now leaves to
\* the host's own.
SourcesNeverRaw ==
    Answered /\ request.answer.body = "source" => Cardinality(request.seen) > 1 \/ request.edited
=============================================================================
