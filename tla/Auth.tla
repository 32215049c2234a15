--------------------------------- MODULE Auth ---------------------------------
(***************************************************************************)
(* Users, logins and tokens (src/src/auth/manager.go,                      *)
(* src/src/domain/user/service.go and repository.go,                       *)
(* src/src/transport/http/user/handler.go).                                *)
(*                                                                         *)
(* The rights of the users who have logged in are kept in memory, their    *)
(* accounts in the database and their tokens by their clients.  A login    *)
(* through OpenID asks the provider, looks the account up, stores it and   *)
(* registers the rights in separate steps; other requests, a restart and   *)
(* errors of the database come in between.                                 *)
(*                                                                         *)
(* A user has the rights "admin" or "member", for isAdmin and the          *)
(* collections.  Names of users and wrong credentials are left out.        *)
(***************************************************************************)
EXTENDS Naturals, FiniteSets

CONSTANTS
  Requests,      \* requests that log a user in or create one
  Subs,          \* subjects the OpenID provider knows
  Usernames,     \* names of native accounts created at run time
  MethodSets,    \* config.Auth.Methods
  MaxLogins,     \* bound: logins through OpenID and native accounts created
  MaxChanges,    \* bound: changes of rights at the provider
  MaxRestarts,   \* bound: restarts of the server
  MaxFaults      \* bound: failing accesses to the database

ASSUME AuthAssumption == \A m \in MethodSets : m \subseteq {"admin", "openid", "desktop"}

VARIABLES
  methods,             \* the methods that are enabled
  fixedSecret,         \* SB_JWT_SECRET is set
  rows,                \* the table of users: pairs of a uuid and a sub
  authenticatedUsers,  \* uuid -> rights
  accounts,            \* nativeTestingAccounts: username -> uuid
  secret,              \* jwtSecret
  tokens,              \* the tokens clients hold
  provider,            \* external: the rights of every subject at the provider
  request,             \* the requests under way
  uuids,               \* number of uuids generated
  logins, changes, restarts, faults,
  raced,               \* history: subjects two first logins of which overlapped
  orphans,             \* history: users whose row was not written
  newest               \* history: per user, number and rights of the newest answer of the provider registered

memory == <<authenticatedUsers, accounts, secret, request>>
bounds == <<logins, changes, restarts, faults>>
history == <<raced, orphans, newest>>
config == <<methods, fixedSecret>>
authVars == <<config, rows, memory, tokens, provider, uuids, bounds, history>>

NativeUserID == 0
NativeRow == [uuid |-> NativeUserID, sub |-> "Admin"]

(* What native accounts have in the column of the subjects.  Nothing keeps *)
(* the provider's subjects from being among them.                          *)
NativeSubs == Usernames \cup {NativeRow.sub}

Idle == [at |-> "idle", sub |-> "", uuid |-> 0, rights |-> "", number |-> 0]
Rights == {"admin", "member"}

(* The map with an entry written. *)
Put(map, key, value) == [k \in DOMAIN map \cup {key} |-> IF k = key THEN value ELSE map[k]]

Fault == faults < MaxFaults /\ faults' = faults + 1

-----------------------------------------------------------------------------
(***************************************************************************)
(* Starting                                                                *)
(***************************************************************************)
(* CreateManager registers the native user for the methods that need it. *)
Registered(m) ==
  [id \in IF m \cap {"admin", "desktop"} # {} THEN {NativeUserID} ELSE {} |-> "admin"]

AuthInit ==
  /\ methods \in MethodSets
  /\ fixedSecret \in BOOLEAN
  /\ \/ rows = {NativeRow} /\ faults = 0 /\ orphans = {}
     \/ rows = {} /\ faults = 1 /\ orphans = {NativeUserID}
  /\ authenticatedUsers = Registered(methods)
  /\ accounts = <<>>
  /\ secret = 0
  /\ tokens = {}
  /\ provider \in [Subs -> Rights]
  /\ request = [p \in Requests |-> Idle]
  /\ uuids = 0 /\ logins = 0 /\ changes = 0 /\ restarts = 0
  /\ raced = {}
  /\ newest = <<>>

(* CreateService adds the row of the native user if the database says that *)
(* there is none; any other error is passed over.                          *)
Restart ==
  /\ restarts < MaxRestarts
  /\ restarts' = restarts + 1
  /\ authenticatedUsers' = Registered(methods)
  /\ accounts' = <<>>
  /\ request' = [p \in Requests |-> Idle]
  /\ secret' = IF fixedSecret THEN secret ELSE secret + 1
  /\ \/ rows' = rows \cup {NativeRow} /\ orphans' = orphans \ {NativeUserID} /\ UNCHANGED faults
     \/ NativeRow \notin rows /\ Fault /\ UNCHANGED <<rows, orphans>>
  /\ newest' = <<>>
  /\ UNCHANGED <<config, tokens, provider, uuids, logins, changes, raced>>

-----------------------------------------------------------------------------
(***************************************************************************)
(* Tokens                                                                  *)
(***************************************************************************)
AuthToken(id) == [kind |-> "auth", id |-> id, secret |-> secret, rights |-> ""]
AccessToken(id, rights) == [kind |-> "access", id |-> id, secret |-> secret, rights |-> rights]

Accepted(tok) == tok.secret = secret /\ tok.id \in DOMAIN authenticatedUsers

(* Mutant: the rights are those the token shows. *)
RightsInToken(tok) == IF tok.kind = "access" THEN tok.rights ELSE authenticatedUsers[tok.id]

(* AuthenticateUser of a token that is accepted: both kinds of token are. *)
AuthenticateUser(tok) == authenticatedUsers[tok.id]

RefreshAccessToken(tok) ==
  /\ Accepted(tok)
  /\ tokens' = tokens \cup {AccessToken(tok.id, AuthenticateUser(tok))}
  /\ UNCHANGED <<config, rows, memory, provider, uuids, bounds, history>>

(* Logout clears the cookies of a client and nothing else. *)
Logout(id) ==
  /\ tokens' = {t \in tokens : t.id # id}
  /\ tokens' # tokens
  /\ UNCHANGED <<config, rows, memory, provider, uuids, bounds, history>>

Expire(tok) ==
  /\ tokens' = tokens \ {tok}
  /\ UNCHANGED <<config, rows, memory, provider, uuids, bounds, history>>

-----------------------------------------------------------------------------
(***************************************************************************)
(* Native logins                                                           *)
(***************************************************************************)
(* With the credentials of the administrator, or of a native account. *)
LoginNative(id) ==
  /\ "admin" \in methods
  /\ id = NativeUserID \/ \E u \in DOMAIN accounts : accounts[u] = id
  /\ id \in DOMAIN authenticatedUsers
  /\ tokens' = tokens \cup {AuthToken(id), AccessToken(id, authenticatedUsers[id])}
  /\ UNCHANGED <<config, rows, memory, provider, uuids, bounds, history>>

LoginDesktop ==
  /\ "desktop" \in methods
  /\ tokens' = tokens \cup {AccessToken(NativeUserID, authenticatedUsers[NativeUserID])}
  /\ UNCHANGED <<config, rows, memory, provider, uuids, bounds, history>>

(* CreateNativeUser up to RegisterNativeUser, which does not replace an    *)
(* account.                                                                *)
RegisterNativeUser(p, tok, u) ==
  /\ request[p].at = "idle"
  /\ logins < MaxLogins
  /\ Accepted(tok) /\ AuthenticateUser(tok) = "admin"
  /\ "admin" \in methods
  /\ u \notin DOMAIN accounts
  /\ logins' = logins + 1
  /\ uuids' = uuids + 1
  /\ accounts' = Put(accounts, u, uuids')
  /\ authenticatedUsers' = Put(authenticatedUsers, uuids', "member")
  /\ request' = [request EXCEPT ![p] = [Idle EXCEPT !.at = "store", !.sub = u, !.uuid = uuids']]
  /\ UNCHANGED <<config, rows, secret, tokens, provider, changes, restarts, faults, history>>

StoreNativeUser(p) ==
  /\ request[p].at = "store"
  /\ \/ rows' = rows \cup {[uuid |-> request[p].uuid, sub |-> request[p].sub]} /\ UNCHANGED <<faults, orphans>>
     \/ Fault /\ orphans' = orphans \cup {request[p].uuid} /\ UNCHANGED rows
  /\ request' = [request EXCEPT ![p] = Idle]
  /\ UNCHANGED <<config, authenticatedUsers, accounts, secret, tokens, provider, uuids, logins, changes, restarts, raced, newest>>

-----------------------------------------------------------------------------
(***************************************************************************)
(* Logins through OpenID                                                   *)
(***************************************************************************)
ChangeRights(s) ==
  /\ changes < MaxChanges
  /\ changes' = changes + 1
  /\ \E r \in Rights \ {provider[s]} : provider' = [provider EXCEPT ![s] = r]
  /\ UNCHANGED <<config, rows, memory, tokens, uuids, logins, restarts, faults, history>>

(* AuthenticateWithCode up to the claims of the provider *)
UserInfo(p, s) ==
  /\ request[p].at = "idle"
  /\ logins < MaxLogins
  /\ "openid" \in methods
  /\ logins' = logins + 1
  /\ request' = [request EXCEPT ![p] = [Idle EXCEPT !.at = "lookup", !.sub = s, !.rights = provider[s], !.number = logins']]
  /\ UNCHANGED <<config, rows, authenticatedUsers, accounts, secret, tokens, provider, uuids, changes, restarts, faults, history>>

Missing(s) == \A r \in rows : r.sub # s

(* Mutant: an error of the database is taken for a user who is not known. *)
GetBySubOrCreate(p) ==
  LET s == request[p].sub IN
  /\ request[p].at = "lookup"
  /\ \/ \E r \in rows : r.sub = s /\ request' = [request EXCEPT ![p].at = "update", ![p].uuid = r.uuid] /\ UNCHANGED faults
     \/ Missing(s) /\ request' = [request EXCEPT ![p].at = "create"] /\ UNCHANGED faults
     \/ Fault /\ request' = [request EXCEPT ![p].at = "create"]
  /\ raced' = IF Missing(s) /\ \E q \in Requests \ {p} : request[q].at = "create" /\ request[q].sub = s THEN raced \cup {s} ELSE raced
  /\ UNCHANGED <<config, rows, authenticatedUsers, accounts, secret, tokens, provider, uuids, logins, changes, restarts, orphans, newest>>

GetBySub(p) ==
  LET s == request[p].sub IN
  /\ request[p].at = "lookup"
  /\ \/ \E r \in rows : r.sub = s /\ request' = [request EXCEPT ![p].at = "update", ![p].uuid = r.uuid] /\ UNCHANGED faults
     \/ Missing(s) /\ request' = [request EXCEPT ![p].at = "create"] /\ UNCHANGED faults
     \/ Fault /\ request' = [request EXCEPT ![p] = Idle]
  /\ raced' = IF Missing(s) /\ \E q \in Requests \ {p} : request[q].at = "create" /\ request[q].sub = s THEN raced \cup {s} ELSE raced
  /\ UNCHANGED <<config, rows, authenticatedUsers, accounts, secret, tokens, provider, uuids, logins, changes, restarts, orphans, newest>>

(* Mutant: a row that was not written does not stop the login. *)
CreateAnyway(p) ==
  /\ request[p].at = "create"
  /\ uuids' = uuids + 1
  /\ \/ rows' = rows \cup {[uuid |-> uuids', sub |-> request[p].sub]} /\ UNCHANGED faults
     \/ Fault /\ UNCHANGED rows
  /\ request' = [request EXCEPT ![p].at = "register", ![p].uuid = uuids']
  /\ UNCHANGED <<config, authenticatedUsers, accounts, secret, tokens, provider, logins, changes, restarts, history>>

(* The account is created, or the name of the one found is updated. *)
Create(p) ==
  /\ request[p].at = "create"
  /\ uuids' = uuids + 1
  /\ \/ /\ rows' = rows \cup {[uuid |-> uuids', sub |-> request[p].sub]}
        /\ request' = [request EXCEPT ![p].at = "register", ![p].uuid = uuids']
        /\ UNCHANGED faults
     \/ Fault /\ request' = [request EXCEPT ![p] = Idle] /\ UNCHANGED rows
  /\ UNCHANGED <<config, authenticatedUsers, accounts, secret, tokens, provider, logins, changes, restarts, history>>

Update(p) ==
  /\ request[p].at = "update"
  /\ \/ request' = [request EXCEPT ![p].at = "register"] /\ UNCHANGED faults
     \/ Fault /\ request' = [request EXCEPT ![p] = Idle]
  /\ UNCHANGED <<config, rows, authenticatedUsers, accounts, secret, tokens, provider, uuids, logins, changes, restarts, history>>

(* The rights are entered and the tokens made. *)
RegisterLogin(p) ==
  LET c == request[p] IN
  /\ c.at = "register"
  /\ authenticatedUsers' = Put(authenticatedUsers, c.uuid, c.rights)
  /\ tokens' = tokens \cup {AuthToken(c.uuid), AccessToken(c.uuid, c.rights)}
  /\ request' = [request EXCEPT ![p] = Idle]
  /\ newest' = IF c.uuid \in DOMAIN newest /\ newest[c.uuid].number > c.number
                 THEN [newest EXCEPT ![c.uuid].overtaken = TRUE]
                 ELSE Put(newest, c.uuid, [number |-> c.number, rights |-> c.rights, overtaken |-> FALSE])
  /\ UNCHANGED <<config, rows, accounts, secret, provider, uuids, bounds, raced, orphans>>

AuthNext ==
  \/ Restart \/ LoginDesktop
  \/ \E s \in Subs : ChangeRights(s) \/ \E p \in Requests : UserInfo(p, s)
  \/ \E tok \in tokens : RefreshAccessToken(tok) \/ Expire(tok)
  \/ \E id \in 0 .. uuids : Logout(id) \/ LoginNative(id)
  \/ \E p \in Requests : \/ GetBySub(p) \/ Create(p) \/ Update(p) \/ RegisterLogin(p) \/ StoreNativeUser(p)
                         \/ \E tok \in tokens, u \in Usernames : RegisterNativeUser(p, tok, u)

AuthSpec == AuthInit /\ [][AuthNext]_authVars

-----------------------------------------------------------------------------
AuthTypeOK ==
  /\ \A r \in rows : r.uuid \in 0 .. uuids /\ r.sub \in Subs \cup Usernames \cup {"Admin"}
  /\ DOMAIN authenticatedUsers \subseteq 0 .. uuids
  /\ \A id \in DOMAIN authenticatedUsers : authenticatedUsers[id] \in Rights
  /\ \A u \in DOMAIN accounts : u \in Usernames /\ accounts[u] \in DOMAIN authenticatedUsers
  /\ \A t \in tokens : t.secret \in 0 .. secret /\ t.id \in 0 .. uuids
  /\ \A p \in Requests : request[p].at \in {"idle", "lookup", "create", "update", "register", "store"}

(* Whoever logs in through OpenID has one account, unless the first two    *)
(* logins look it up before either has stored it: errors and restarts      *)
(* between the steps of AuthenticateWithCode do not make a second one.     *)
(* Subjects that are called like a native account are exempt.              *)
OneAccountPerSubject ==
  \A r1, r2 \in rows : r1.sub = r2.sub /\ r1.sub \in Subs \ (raced \cup NativeSubs) => r1 = r2

(* A user who is let in can be found in the database, where labs and       *)
(* collections look their creator up; except while CreateNativeUser is     *)
(* between its steps, and where the row was reported as not written.       *)
SessionsHaveAccounts ==
  \A t \in tokens : Accepted(t) =>
    \/ \E r \in rows : r.uuid = t.id
    \/ t.id \in orphans
    \/ \E p \in Requests : request[p].at = "store" /\ request[p].uuid = t.id

(* A token, however old, gives its user the rights of the newest answer of *)
(* the provider any login of the user registered since the server started. *)
(* A login that is overtaken by a newer one of the same user is exempt.    *)
NoStaleRights ==
  \A t \in tokens : Accepted(t) /\ t.id \in DOMAIN newest =>
    newest[t.id].overtaken \/ AuthenticateUser(t) = newest[t.id].rights

(* No login, no account and no restart takes the entry LoginDesktop and    *)
(* LoginNative rely on, and its rights stay until a login of a subject with *)
(* the native administrator's name has replaced them.                      *)
NativeEntryStays ==
  methods \cap {"admin", "desktop"} # {} =>
    /\ NativeUserID \in DOMAIN authenticatedUsers
    /\ authenticatedUsers[NativeUserID] = "admin" \/ NativeUserID \in DOMAIN newest

(* No other subject is given the native administrator's account.           *)
NativeAccountIsKept ==
  \A p \in Requests :
    request[p].at \in {"update", "register"} /\ request[p].uuid = NativeUserID => request[p].sub = NativeRow.sub

NativeAdminStays == NativeEntryStays /\ NativeAccountIsKept

(* Everybody has the one account they had, the native administrator        *)
(* included, as far as names do not collide (manager.go:83-131,            *)
(* user/service.go:21-113).                                                *)
AccountInv ==
  /\ AuthTypeOK
  /\ OneAccountPerSubject
  /\ NativeAdminStays
=============================================================================
