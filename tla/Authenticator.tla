--------------------------- MODULE Authenticator ---------------------------
(* Tokens, roles and permissions (agent/internal/auth/auth.go).  The           *)
(* authenticator has no state: a token carries its claims.                     *)
EXTENDS Integers

CONSTANTS
  KeyRole,   \* the configured API keys with their roles, a function
  NoKey,     \* a key that is not among them
  TTL        \* how long a token lives, in ticks

ASSUME AuthAssumption ==
  /\ TTL \in Nat
  /\ NoKey \notin DOMAIN KeyRole

Roles == {"admin", "user", "viewer"}

RolePermissions == [
  admin  |-> {"create", "read", "write", "delete", "exec", "files", "admin"},
  user   |-> {"create", "read", "write", "exec", "files"},
  viewer |-> {"read"}]

HasPermission(role, perm) == perm \in RolePermissions[role]

\* signed: the signature is one the agent's secret gives.
Token == [signed : BOOLEAN, role : Roles, exp : Nat]

\* What is not a token the agent issued.
NoToken == [signed |-> FALSE, role |-> "viewer", exp |-> 0]

GenerateToken(key, now) ==
  [signed |-> TRUE, role |-> KeyRole[key], exp |-> now + TTL]

ValidToken(token, now) == token.signed /\ ~ now > token.exp

\* What the Authorization header, or the query's token, says.
BearerOf(token) == [scheme |-> "Bearer", token |-> token, key |-> NoKey]
ApiKeyOf(key) == [scheme |-> "ApiKey", token |-> NoToken, key |-> key]
Missing == [scheme |-> "none", token |-> NoToken, key |-> NoKey]

Accepts(cred, now) ==
  \/ cred.scheme = "Bearer" /\ ValidToken(cred.token, now)
  \/ cred.scheme = "ApiKey" /\ cred.key \in DOMAIN KeyRole

RoleOf(cred) ==
  IF cred.scheme = "Bearer" THEN cred.token.role ELSE KeyRole[cred.key]
=============================================================================
