---------------------------- MODULE MCHttpServer ----------------------------
(* Instances of HttpServer for TLC. *)
EXTENDS HttpServer, TLC

Get(label)        == [method |-> "GET", label |-> label, path |-> label]
Post(label)       == [method |-> "POST", label |-> label, path |-> label]
PostAs(label, path) == [method |-> "POST", label |-> label, path |-> path]

\* Each kind of handler, calls without one, one of them with a GET of the token endpoint, and
\* paths that are not spelled as their routes are.
SomeCalls == {Get("/ready"), Get("/metrics"), Get("/none"), Get(TOKEN_ENDPOINT),
              Post(TOKEN_ENDPOINT), Post("/v1/transactions"), Post("/v1/admin/api-keys"),
              PostAs(TOKEN_ENDPOINT, "/v1/none"), PostAs(TOKEN_ENDPOINT, "/none"),
              PostAs("/v1/admin/api-keys", "/v1/none")}

OnePerWindow == [s \in Scopes |-> 1]
Symmetry     == Permutations(Requests)
=============================================================================
