-------------------------------- MODULE Access --------------------------------
(***************************************************************************)
(* Who may call the backend: users (services/user.rs), API keys            *)
(* (services/api_key.rs, handlers/api_keys.rs), tokens (handlers/auth.rs)  *)
(* and the middleware that checks them (middleware/auth.rs).               *)
(*                                                                         *)
(* A request is handled in steps, one for each statement it sends to the   *)
(* database; requests of several sessions interleave, and users, keys and  *)
(* the date change between the steps.  Hashing, encryption and signatures  *)
(* are injective: a key stands for its plaintext and its hash, a token for *)
(* its claims, a user for the e-mail address.  (utils/crypto.rs passes a   *)
(* nonce of fifteen bytes to a cipher that takes twelve; the module models *)
(* the services with one that fits.)                                       *)
(***************************************************************************)
EXTENDS Integers

CONSTANTS
  Session, UserId, KeyId,
  NoRow,         \* absent row, absent expiry, key of a request without a key
  Admin,         \* the user the deployment starts with
  Roles, Tiers,  \* roles and tiers that callers ask for
  TierLimit,     \* requests per minute of a tier
  Expiries,      \* expiry days callers ask for, or NoRow
  InactiveDays,  \* days without use after which a key is disabled
  MaxDay, MaxAccessCalls \* bounds on days and on requests

\* Rows of users and api_keys.
UserRows == [active : BOOLEAN, role : Roles \union {"administrator"}]
KeyRows ==
  [user : UserId, tier : Tiers, limit : Nat, expires : Expiries, active : BOOLEAN, lastUsed : Int]

ASSUME AccessAssumption ==
  /\ Admin \in UserId
  /\ NoRow \notin KeyId /\ NoRow \notin UserRows /\ NoRow \notin KeyRows
  /\ TierLimit \in [Tiers -> Nat]
  /\ Expiries \subseteq Int \union {NoRow}
  /\ InactiveDays \in Nat

VARIABLES
  users,   \* users
  keys,    \* api_keys
  tokens,  \* tokens that were issued
  inHand,  \* the request each session is handling
  day, calls

accessVars == <<users, keys, tokens, inHand, day, calls>>

Idle == [at |-> "idle"]
Never == -1

\* The roles a route admits: admin routes, reports, everything else.
AllowedRoles(kind) ==
  CASE kind \in {"register", "login"} -> {"administrator"}
    [] kind = "report" -> {"auditor", "administrator"}
    [] OTHER -> Roles \union {"administrator"}

\* What a token may be presented for, and what a key.
TokenOperations ==
  [kind : {"create"}, tier : Tiers, expires : Expiries] \union [kind : {"list"}]
    \union [kind : {"revoke", "rotate"}, key : KeyId]
    \union [kind : {"register"}, user : UserId, role : Roles] \union [kind : {"login"}, user : UserId]
KeyOperations == [kind : {"read", "report"}]

Expired(k) == keys[k].expires # NoRow /\ keys[k].expires < day
Usable(k) == keys[k] # NoRow /\ keys[k].active /\ ~Expired(k)
RightsOf(u) == IF users[u] # NoRow /\ users[u].active THEN {users[u].role} ELSE {}

Become(s, fields) == inHand' = [inHand EXCEPT ![s] = fields]
Advance(s, at) == Become(s, [inHand[s] EXCEPT !.at = at])
Finish(s) == Become(s, Idle)

------------------------------------------------------------------------------
(* Authentication.  rights and usable are history: the roles the user had, *)
(* while active, since the request came in, and whether its key could be   *)
(* used when it came in.                                                   *)

Arrive(s, op, user, key, at, claim) ==
  /\ inHand[s] = Idle
  /\ calls < MaxAccessCalls /\ calls' = calls + 1
  /\ Become(s, [at |-> at, op |-> op, user |-> user, key |-> key, role |-> claim, old |-> NoRow,
                rights |-> RightsOf(user), usable |-> key = NoRow \/ Usable(key)])
  /\ UNCHANGED <<users, keys, tokens, day>>

\* A token that has expired is refused at once.
CallWithToken(s, t, op) == t.exp >= day /\ Arrive(s, op, t.sub, NoRow, "user", t.role)

CallWithKey(s, k, op) == keys[k] # NoRow /\ Arrive(s, op, keys[k].user, k, "key", "none")

LookUpKey(s) ==
  /\ inHand[s].at = "key"
  /\ IF Usable(inHand[s].key) THEN Advance(s, "user") ELSE Finish(s)
  /\ UNCHANGED <<users, keys, tokens, day, calls>>

\* Mutant: the role is the one the token claims.
ClaimedRole(s, u) == IF inHand[s].key = NoRow THEN inHand[s].role ELSE u.role

ContextRole(s, u) == u.role

\* The user's row decides, and the role it has admits to the route.
LoadUser(s) ==
  LET r == inHand[s]  u == users[r.user]
  IN  /\ r.at = "user"
      /\ IF u # NoRow /\ u.active
           THEN LET role == ContextRole(s, u)
                IN IF r.key = NoRow /\ role \notin AllowedRoles(r.op.kind) THEN Finish(s)
                   ELSE Become(s, [r EXCEPT !.at = IF r.key = NoRow THEN "run" ELSE "used", !.role = role])
           ELSE Finish(s)
      /\ UNCHANGED <<users, keys, tokens, day, calls>>

\* update_last_used, whose failure is ignored; then the role is checked.
UpdateLastUsed(s) ==
  LET r == inHand[s]
  IN  /\ r.at = "used"
      /\ \/ keys' = [keys EXCEPT ![r.key].lastUsed = day]
         \/ UNCHANGED keys
      /\ IF r.role \in AllowedRoles(r.op.kind) THEN Advance(s, "run") ELSE Finish(s)
      /\ UNCHANGED <<users, tokens, day, calls>>

------------------------------------------------------------------------------
(* Handlers.                                                               *)

Running(s, kinds) == inHand[s].at = "run" /\ inHand[s].op.kind \in kinds

\* Handlers that only read.
Answer(s) ==
  /\ Running(s, {"list", "read", "report"})
  /\ Finish(s)
  /\ UNCHANGED <<users, keys, tokens, day, calls>>

ApiKey(user, tier, limit, expires) ==
  [user |-> user, tier |-> tier, limit |-> limit, expires |-> expires, active |-> TRUE, lastUsed |-> Never]

CreateKey(s, k) ==
  LET op == inHand[s].op
  IN  /\ Running(s, {"create"})
      /\ keys[k] = NoRow
      /\ keys' = [keys EXCEPT ![k] = ApiKey(inHand[s].user, op.tier, TierLimit[op.tier], op.expires)]
      /\ Finish(s)
      /\ UNCHANGED <<users, tokens, day, calls>>

\* revoke_key and rotate_key read the key and check whose it is; neither asks if it is active.
GetOwnKey(s) ==
  LET k == inHand[s].op.key
  IN  /\ Running(s, {"revoke", "rotate"})
      /\ IF keys[k] # NoRow /\ keys[k].user = inHand[s].user
           THEN Become(s, [inHand[s] EXCEPT !.at = "revoke", !.old = keys[k]]) ELSE Finish(s)
      /\ UNCHANGED <<users, keys, tokens, day, calls>>

RevokeKey(s) ==
  LET r == inHand[s]
  IN  /\ r.at = "revoke"
      /\ keys' = [keys EXCEPT ![r.op.key].active = FALSE]
      /\ IF r.op.kind = "rotate" THEN Advance(s, "insert") ELSE Finish(s)
      /\ UNCHANGED <<users, tokens, day, calls>>

RotatedKey(user, old) == ApiKey(user, old.tier, old.limit, old.expires)

RotateKey(s, k) ==
  LET r == inHand[s]
  IN  /\ r.at = "insert"
      /\ keys[k] = NoRow
      /\ keys' = [keys EXCEPT ![k] = RotatedKey(r.user, r.old)]
      /\ Finish(s)
      /\ UNCHANGED <<users, tokens, day, calls>>

\* register: an e-mail address that is taken fails.
Register(s) ==
  LET op == inHand[s].op
  IN  /\ Running(s, {"register"})
      /\ users' = [users EXCEPT ![op.user] =
                     IF @ = NoRow THEN [active |-> TRUE, role |-> op.role] ELSE @]
      /\ Finish(s)
      /\ UNCHANGED <<keys, tokens, day, calls>>

\* login, with the right password or a wrong one.
Login(s) ==
  LET u == users[inHand[s].op.user]
  IN  /\ Running(s, {"login"})
      /\ \/ /\ u # NoRow /\ u.active
            /\ tokens' = tokens \union {[sub |-> inHand[s].op.user, exp |-> day + 1, role |-> u.role]}
         \/ UNCHANGED tokens
      /\ Finish(s)
      /\ UNCHANGED <<users, keys, day, calls>>

\* Any statement may fail.
Fails(s) ==
  /\ inHand[s] # Idle
  /\ Finish(s)
  /\ UNCHANGED <<users, keys, tokens, day, calls>>

------------------------------------------------------------------------------
(* What changes meanwhile.                                                 *)

\* update_user, from outside: an account is closed or given another role.
UpdateUser(u, active, role) ==
  /\ users[u] # NoRow
  /\ users' = [users EXCEPT ![u] = [active |-> active, role |-> role]]
  /\ inHand' = [s \in Session |->
       IF inHand[s] # Idle /\ inHand[s].user = u /\ active
         THEN [inHand[s] EXCEPT !.rights = @ \union {role}] ELSE inHand[s]]
  /\ UNCHANGED <<keys, tokens, day, calls>>

Inactive(k) ==
  keys[k] # NoRow /\ keys[k].active /\ keys[k].lastUsed # Never /\ keys[k].lastUsed < day - InactiveDays

DisableInactiveKeys ==
  /\ \E k \in KeyId : Inactive(k)
  /\ keys' = [k \in KeyId |-> IF Inactive(k) THEN [keys[k] EXCEPT !.active = FALSE] ELSE keys[k]]
  /\ UNCHANGED <<users, tokens, inHand, day, calls>>

DayPasses ==
  /\ day < MaxDay /\ day' = day + 1
  /\ UNCHANGED <<users, keys, tokens, inHand, calls>>

\* The first token comes from outside: login itself asks for one.
AccessInit ==
  /\ users = [u \in UserId |-> IF u = Admin THEN [active |-> TRUE, role |-> "administrator"] ELSE NoRow]
  /\ keys = [k \in KeyId |-> NoRow]
  /\ tokens = {[sub |-> Admin, exp |-> 1, role |-> "administrator"]}
  /\ inHand = [s \in Session |-> Idle]
  /\ day = 0 /\ calls = 0

Handle(s) ==
  \/ \E t \in tokens, op \in TokenOperations : CallWithToken(s, t, op)
  \/ \E k \in KeyId, op \in KeyOperations : CallWithKey(s, k, op)
  \/ LookUpKey(s) \/ LoadUser(s) \/ UpdateLastUsed(s)
  \/ Answer(s) \/ GetOwnKey(s) \/ RevokeKey(s) \/ Register(s) \/ Login(s) \/ Fails(s)
  \/ \E k \in KeyId : CreateKey(s, k) \/ RotateKey(s, k)

AccessNext ==
  \/ \E s \in Session : Handle(s)
  \/ \E u \in UserId, active \in BOOLEAN, role \in Roles : UpdateUser(u, active, role)
  \/ DisableInactiveKeys \/ DayPasses

AccessSpec == AccessInit /\ [][AccessNext]_accessVars

------------------------------------------------------------------------------

(***************************************************************************)
(* No request runs on rights that were gone when it came in: whatever its  *)
(* token claims, the role it runs with is one its user had, as an active   *)
(* user, since it came in, that role is admitted to the route, and a key   *)
(* it came with could be used then -- while accounts are closed and        *)
(* demoted and keys revoked, rotated and disabled.                         *)
(***************************************************************************)
RunsOnCurrentRights ==
  \A s \in Session :
    inHand[s].at \in {"run", "revoke", "insert"} =>
      /\ inHand[s].role \in inHand[s].rights
      /\ inHand[s].role \in AllowedRoles(inHand[s].op.kind)
      /\ inHand[s].usable

=============================================================================
