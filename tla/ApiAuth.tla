------------------------------- MODULE ApiAuth ------------------------------
(***************************************************************************)
(* internal/api/auth.go: whether a request reaches its handler.  A request  *)
(* is reduced to what the checks look at:                                   *)
(*                                                                         *)
(*   token   the bearer token or ?token= it carries, or NoToken             *)
(*   origin  the page it comes from: "none" (no Origin header, "null", or a *)
(*           scheme of no web page), "loopback", "same" (the host that the  *)
(*           request names) or "other"                                      *)
(*   local   whether the caller's address is a loopback address             *)
(*   json    whether the Content-Type is application/json                   *)
(***************************************************************************)
CONSTANTS
  Token,
  NoToken    \* the empty api_token, and a request without a token

ASSUME TokenAssumption == NoToken \notin Token

Request ==
  [token : Token \cup {NoToken}, origin : {"none", "loopback", "same", "other"},
   local : BOOLEAN, json : BOOLEAN]

checkAuth(apiToken, r) == apiToken = NoToken \/ r.token = apiToken

originLocal(r) == r.origin \in {"none", "loopback"}

originAllowed(r) == originLocal(r) \/ r.origin = "same"

authed(apiToken, r) == checkAuth(apiToken, r) /\ originAllowed(r)

operatorOnly(apiToken, r, requireJSON) ==
  /\ originLocal(r)
  /\ requireJSON => r.json
  /\ apiToken # NoToken \/ r.local
=============================================================================
