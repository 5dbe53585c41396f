------------------------------- MODULE Tenancy --------------------------------
(***************************************************************************)
(* labs/multi-tenant-mcp-server: bearer tokens resolve to tenants          *)
(* (tenancy.py, auth.py) and a middleware scopes every listing and call to *)
(* the tenant (middleware.py), while tokens are registered anew.  A        *)
(* request passes the transport, the middleware, the handler and the       *)
(* middleware again, with awaits in between; the SDK's part - the bearer   *)
(* check and the dispatch - is external.                                   *)
(***************************************************************************)
EXTENDS FiniteSets, Naturals

CONSTANTS
  Tokens, Requests, NoTenant,
  Tenants,             \* [id, tools, resources]: what a token may be given
  ServerTools, ServerResources,
  Here, Elsewhere,     \* this server's resource indicator, and another's
  MaxRegistrations     \* bound

VARIABLES
  by_token, by_id, resource_by_token,   \* the registry
  request,       \* [token, method, name, stage, tenant, result]
  held,          \* held[r]: tenants its token stood for since it began (for the property)
  registrations
tenancyVars == <<by_token, by_id, resource_by_token, request, held, registrations>>

TenantIds == {t.id : t \in Tenants}
TENANT_SCOPED_METHODS ==
  {"tools/list", "tools/call", "resources/list", "resources/read",
   "resources/templates/list", "prompts/list", "prompts/get", "completion/complete"}
Methods == TENANT_SCOPED_METHODS \cup {"server/discover"}
Idle == [token |-> NoTenant, method |-> "none", name |-> "none", stage |-> "idle",
         tenant |-> NoTenant, result |-> {}]

TenancyInit ==
  /\ by_token = [t \in Tokens |-> NoTenant] /\ resource_by_token = [t \in Tokens |-> Here]
  /\ by_id = [i \in TenantIds |-> NoTenant]
  /\ request = [r \in Requests |-> Idle] /\ held = [r \in Requests |-> {}]
  /\ registrations = 0

\* register(): also a token that is known, and in the middle of requests
Register(token, tenant, resource) ==
  /\ registrations < MaxRegistrations /\ registrations' = registrations + 1
  /\ by_token' = [by_token EXCEPT ![token] = tenant]
  /\ by_id' = [by_id EXCEPT ![tenant.id] = tenant]
  /\ resource_by_token' = [resource_by_token EXCEPT ![token] = resource]
  /\ held' = [r \in Requests |-> IF request[r].token = token THEN held[r] \cup {tenant} ELSE held[r]]
  /\ UNCHANGED request

Moves(r, next) == /\ request' = [request EXCEPT ![r] = next]
                  /\ UNCHANGED <<by_token, by_id, resource_by_token, held, registrations>>

\* The transport: verify_token(), and the SDK refuses a token for another server.
Verified(token) == by_token[token] # NoTenant /\ resource_by_token[token] = Here
Arrives(r, token, method, name) ==
  /\ request[r] = Idle
  /\ request' = [request EXCEPT ![r] =
       [token |-> token, method |-> method, name |-> name, tenant |-> NoTenant, result |-> {},
        stage |-> IF Verified(token) THEN "verified" ELSE "rejected"]]
  /\ held' = [held EXCEPT ![r] = {by_token[token]}]
  /\ UNCHANGED <<by_token, by_id, resource_by_token, registrations>>

\* The middleware up to call_next: the tenant is looked up again, and kept.
RefusedUnknown(q, tenant) == q.method = "tools/call" /\ q.name \notin ServerTools   \* mutant
Refused(q, tenant) == q.method = "tools/call" /\ q.name \notin tenant.tools
Scopes(r) ==
  LET q == request[r]
      tenant == by_token[q.token]
  IN  /\ q.stage = "verified"
      /\ Moves(r, IF q.method \notin TENANT_SCOPED_METHODS THEN [q EXCEPT !.stage = "handling"]
                  ELSE IF tenant = NoTenant THEN [q EXCEPT !.stage = "rejected"]
                  ELSE IF Refused(q, tenant)
                  THEN [q EXCEPT !.stage = "answered", !.result = {"Unknown tool"}]
                  ELSE [q EXCEPT !.stage = "handling", !.tenant = tenant])

\* The handler: all that is registered, or the tool's answer in the name of the
\* tenant it looks up itself (whoami, search_docs, issue_refund: server.py:59-76);
\* a resource is read from the server, and there are no templates and no prompts.
Answer(q) == CASE q.method = "tools/list" -> ServerTools
               [] q.method = "resources/list" -> ServerResources
               [] q.method = "tools/call" -> IF q.name \in ServerTools THEN {by_token[q.token].id}
                                             ELSE {"Unknown tool"}
               [] q.method = "resources/read" -> IF q.name \in ServerResources THEN {q.name}
                                                 ELSE {"Unknown resource"}
               [] OTHER -> {}
Handles(r) == LET q == request[r] IN
  q.stage = "handling" /\ Moves(r, [q EXCEPT !.stage = "handled", !.result = Answer(q)])

\* The middleware after call_next: listings are filtered for the tenant it kept.
Filtered(q) == CASE q.method = "tools/list" -> q.result \cap q.tenant.tools
                 [] q.method = "resources/list" -> q.result \cap q.tenant.resources
                 [] OTHER -> q.result
Filters(r) == LET q == request[r] IN
  q.stage = "handled" /\ Moves(r, [q EXCEPT !.stage = "answered", !.result = Filtered(q)])

\* Only a call and a read name something; no other method is told by its params.
NamesFor(method) ==
  CASE method = "tools/call" -> UNION {t.tools : t \in Tenants} \cup {"no such tool"}
    [] method = "resources/read" -> ServerResources \cup {"no such resource"}
    [] OTHER -> {"none"}

TenancyNext ==
  \/ \E k \in Tokens, t \in Tenants, res \in {Here, Elsewhere} : Register(k, t, res)
  \/ \E r \in Requests :
       \/ \E k \in Tokens, m \in Methods : \E n \in NamesFor(m) : Arrives(r, k, m, n)
       \/ Scopes(r) \/ Handles(r) \/ Filters(r)
-------------------------------------------------------------------------------
\* Isolation (middleware.py:78-85, README.md): whatever is registered while a
\* request is on its way, a listing and a call are answered from the grants of one
\* tenant its token stood for meanwhile, a call in the name of one it stood for; a
\* tool that was not granted cannot be told from one that does not exist.  No
\* other method is held to the grants: a resource is read by every tenant, granted
\* or not.  But nobody is answered whose token ever stood for no tenant.
AnsweredForItsTenant ==
  \A r \in Requests : request[r].stage = "answered" =>
    LET q == request[r] IN
    /\ held[r] # {} /\ NoTenant \notin held[r]
    /\ q.method = "tools/list" => \E t \in held[r] : q.result \subseteq t.tools
    /\ q.method = "resources/list" => \E t \in held[r] : q.result = ServerResources \cap t.resources
    /\ q.method = "tools/call" /\ q.result # {"Unknown tool"} =>
         /\ \E t \in held[r] : q.name \in ServerTools \cap t.tools
         /\ \E t \in held[r] : q.result = {t.id}
    /\ q.method = "tools/call" /\ (\A t \in held[r] : q.name \in ServerTools \cap t.tools)
         => q.result # {"Unknown tool"}
    /\ q.method = "resources/read" =>
         q.result = IF q.name \in ServerResources THEN {q.name} ELSE {"Unknown resource"}
===============================================================================
