------------------------------ MODULE Accounts ------------------------------
(***************************************************************************)
(* Accounts and sessions: signing in with Steam, the first time and later, *)
(* the refresh token of a session, which every refresh exchanges for       *)
(* another one, and the keys that sign them (src/auth, PlayersService).    *)
(*                                                                         *)
(* Tokens of other purposes are not stored, and only expire.  Steam, ETF2L *)
(* and the clients are external: a check passes or not, an answer arrives  *)
(* or not.  There is one process.                                          *)
(***************************************************************************)
EXTENDS Naturals

CONSTANTS
  SteamIds,
  SuperUser,    \* the Steam ID that is not checked
  Requests,     \* requests that can be in progress at the same time
  MaxSessions,  \* bound: successful logins
  MaxRefreshes, \* bound: tokens of a session
  MaxStarts     \* bound: how often the process is started

ASSUME AccountsAssumption ==
  /\ SuperUser \in SteamIds
  /\ {MaxSessions, MaxRefreshes, MaxStarts} \subseteq Nat \ {0}

VARIABLES
  process,        \* what it is doing, its key, and how often it was started
  keyStore,       \* the keys collection: a key is the start it was generated in
  accounts,       \* Steam IDs of the players collection
  registrations,  \* how often playerRegisters was emitted for a Steam ID
  requests,       \* logins, forced creations and refreshes in progress
  refreshTokens,  \* the refresh tokens collection
  sessions        \* the clients' sessions

accountsVars == <<process, keyStore, accounts, registrations, requests, refreshTokens,
                  sessions>>

-----------------------------------------------------------------------------
SessionIds == 1..MaxSessions

NoKey == 0

\* The n-th token of a session, signed with a key.
Token == [session : SessionIds, n : 1..MaxRefreshes, key : 1..MaxStarts]

\* has is the last token the client got; a session is lost when its client did not get
\* the one after it, or let it expire.
Session == [state : {"none", "kept", "lost"}, has : 0..MaxRefreshes]

Idle == [step |-> "idle"]

Request ==
  {Idle}
  \cup [step : {"find", "hours", "etf2l", "create", "register", "issue"},
        steamId : SteamIds, forced : BOOLEAN]
  \cup [step : {"delete", "verify", "store"}, token : Token]

AccountsTypeOK ==
  /\ process \in [step : {"down", "import", "store", "up"}, key : 0..MaxStarts,
                  starts : 0..MaxStarts]
  /\ keyStore \in 0..MaxStarts
  /\ accounts \subseteq SteamIds
  /\ registrations \in [SteamIds -> Nat]
  /\ requests \in [Requests -> Request]
  /\ refreshTokens \subseteq Token
  /\ sessions \in [SessionIds -> Session]

AccountsInit ==
  /\ process = [step |-> "down", key |-> NoKey, starts |-> 0]
  /\ keyStore = NoKey
  /\ accounts = {}
  /\ registrations = [s \in SteamIds |-> 0]
  /\ requests = [r \in Requests |-> Idle]
  /\ refreshTokens = {}
  /\ sessions = [i \in SessionIds |-> [state |-> "none", has |-> 0]]

-----------------------------------------------------------------------------
(* The process and its keys *)

Start ==
  /\ process.step = "down"
  /\ process.starts < MaxStarts
  /\ process' = [step |-> "import", key |-> NoKey, starts |-> process.starts + 1]
  /\ UNCHANGED <<keyStore, accounts, registrations, requests, refreshTokens, sessions>>

\* importOrGenerateKeys()
ImportKeys ==
  /\ process.step = "import"
  /\ process' = IF keyStore # NoKey
                THEN [process EXCEPT !.step = "up", !.key = keyStore]
                ELSE [process EXCEPT !.step = "store", !.key = process.starts]
  /\ UNCHANGED <<keyStore, accounts, registrations, requests, refreshTokens, sessions>>

StoreKeys ==
  /\ process.step = "store"
  /\ keyStore' = process.key
  /\ process' = [process EXCEPT !.step = "up"]
  /\ UNCHANGED <<accounts, registrations, requests, refreshTokens, sessions>>

\* A token that was deleted and not replaced takes its session with it.
LostWith(rs) ==
  LET ids == {requests[r].token.session :
                r \in {x \in rs : requests[x].step \in {"verify", "store"}}}
  IN  [i \in SessionIds |-> IF i \in ids THEN [sessions[i] EXCEPT !.state = "lost"]
                                         ELSE sessions[i]]

Crash ==
  /\ process.step # "down"
  /\ process' = [process EXCEPT !.step = "down", !.key = NoKey]
  /\ requests' = [r \in Requests |-> Idle]
  /\ sessions' = LostWith(Requests)
  /\ UNCHANGED <<keyStore, accounts, registrations, refreshTokens>>

-----------------------------------------------------------------------------
(* Logging in *)

Begin(r, request) ==
  /\ process.step = "up"
  /\ requests[r] = Idle
  /\ requests' = [requests EXCEPT ![r] = request]
  /\ UNCHANGED <<process, keyStore, accounts, registrations, refreshTokens, sessions>>

SteamLogin(r, s) == Begin(r, [step |-> "find", steamId |-> s, forced |-> FALSE])

\* An admin creates the account.
ForceCreatePlayer(r, s) == Begin(r, [step |-> "create", steamId |-> s, forced |-> TRUE])

GoOn(r, step) == requests' = [requests EXCEPT ![r].step = step]

\* The player's avatar is updated.
FindPlayer(r) ==
  /\ requests[r].step = "find"
  /\ GoOn(r, IF requests[r].steamId \in accounts THEN "issue"
             ELSE IF requests[r].steamId = SuperUser THEN "create" ELSE "hours")
  /\ UNCHANGED <<process, keyStore, accounts, registrations, refreshTokens, sessions>>

VerifyTf2InGameHours(r) ==
  /\ requests[r].step = "hours"
  /\ GoOn(r, "etf2l")
  /\ UNCHANGED <<process, keyStore, accounts, registrations, refreshTokens, sessions>>

FetchPlayerInfo(r) ==
  /\ requests[r].step = "etf2l"
  /\ GoOn(r, "create")
  /\ UNCHANGED <<process, keyStore, accounts, registrations, refreshTokens, sessions>>
\* Steam IDs are unique.
CreatePlayer(r) ==
  /\ requests[r].step = "create"
  /\ requests[r].steamId \notin accounts
  /\ accounts' = accounts \cup {requests[r].steamId}
  /\ GoOn(r, "register")
  /\ UNCHANGED <<process, keyStore, registrations, refreshTokens, sessions>>

RegisterPlayer(r) ==
  /\ requests[r].step = "register"
  /\ registrations' = [registrations EXCEPT ![requests[r].steamId] = @ + 1]
  /\ requests' = IF requests[r].forced THEN [requests EXCEPT ![r] = Idle]
                                       ELSE [requests EXCEPT ![r].step = "issue"]
  /\ UNCHANGED <<process, keyStore, accounts, refreshTokens, sessions>>

\* The tokens go to the client with the redirection.
IssueTokens(r, i) ==
  /\ requests[r].step = "issue"
  /\ sessions[i].state = "none"
  /\ \A j \in SessionIds : j < i => sessions[j].state # "none"
  /\ refreshTokens' = refreshTokens \cup {[session |-> i, n |-> 1, key |-> process.key]}
  /\ sessions' = [sessions EXCEPT ![i] = [state |-> "kept", has |-> 1]]
  /\ requests' = [requests EXCEPT ![r] = Idle]
  /\ UNCHANGED <<process, keyStore, accounts, registrations>>

\* A check does not pass, an account is there already, or a service does not answer.
RequestFails(r) ==
  /\ requests[r] # Idle
  /\ requests' = [requests EXCEPT ![r] = Idle]
  /\ sessions' = LostWith({r})
  /\ UNCHANGED <<process, keyStore, accounts, registrations, refreshTokens>>

-----------------------------------------------------------------------------
(* refreshTokens() *)

\* A client sends the token it has, perhaps twice.
RefreshTokens(r, token) ==
  /\ sessions[token.session].state = "kept"
  /\ sessions[token.session].has = token.n
  /\ token.n < MaxRefreshes
  /\ Begin(r, [step |-> "delete", token |-> token])
\* Mutant: whether there was such a token is not looked at.
DeleteAnyToken(r) ==
  /\ requests[r].step = "delete"
  /\ refreshTokens' = refreshTokens \ {requests[r].token}
  /\ GoOn(r, "verify")
  /\ UNCHANGED <<process, keyStore, accounts, registrations, sessions>>

DeleteToken(r) ==
  /\ requests[r].step = "delete"
  /\ refreshTokens' = refreshTokens \ {requests[r].token}
  /\ requests' = IF requests[r].token \in refreshTokens
                 THEN [requests EXCEPT ![r].step = "verify"]
                 ELSE [requests EXCEPT ![r] = Idle]
  /\ UNCHANGED <<process, keyStore, accounts, registrations, sessions>>

VerifyToken(r) ==
  /\ requests[r].step = "verify"
  /\ requests[r].token.key = process.key
  /\ GoOn(r, "store")
  /\ UNCHANGED <<process, keyStore, accounts, registrations, refreshTokens, sessions>>

StoreToken(r, answered) ==
  /\ requests[r].step = "store"
  /\ LET old == requests[r].token
     IN  /\ refreshTokens' = refreshTokens \cup
              {[session |-> old.session, n |-> old.n + 1, key |-> process.key]}
         /\ sessions' = [sessions EXCEPT
              ![old.session] = IF answered THEN [@ EXCEPT !.has = old.n + 1]
                                           ELSE [@ EXCEPT !.state = "lost"]]
  /\ requests' = [requests EXCEPT ![r] = Idle]
  /\ UNCHANGED <<process, keyStore, accounts, registrations>>

\* After a week, by the index on createdAt.
TokenExpires(token) ==
  /\ token \in refreshTokens
  /\ refreshTokens' = refreshTokens \ {token}
  /\ sessions' = [sessions EXCEPT ![token.session].state = "lost"]
  /\ UNCHANGED <<process, keyStore, accounts, registrations, requests>>

AccountsNext ==
  \/ Start
  \/ ImportKeys
  \/ StoreKeys
  \/ Crash
  \/ \E r \in Requests :
       \/ \E s \in SteamIds : SteamLogin(r, s) \/ ForceCreatePlayer(r, s)
       \/ FindPlayer(r)
       \/ VerifyTf2InGameHours(r)
       \/ FetchPlayerInfo(r)
       \/ CreatePlayer(r)
       \/ RegisterPlayer(r)
       \/ \E i \in SessionIds : IssueTokens(r, i)
       \/ RequestFails(r)
       \/ \E token \in Token : RefreshTokens(r, token)
       \/ DeleteToken(r)
       \/ VerifyToken(r)
       \/ \E answered \in BOOLEAN : StoreToken(r, answered)
  \/ \E token \in Token : TokenExpires(token)

AccountsSpec == AccountsInit /\ [][AccountsNext]_accountsVars

-----------------------------------------------------------------------------
\* Requests that took the token of a session and did not store the next one yet.
Exchanging(i) ==
  {r \in Requests : /\ requests[r].step \in {"verify", "store"}
                    /\ requests[r].token.session = i}

TokensOf(i) == {token \in refreshTokens : token.session = i}

GoesOn(i) ==
  /\ \A token, other \in TokensOf(i) : token = other
  /\ \A r, q \in Exchanging(i) : r = q
  /\ TokensOf(i) = {} \/ Exchanging(i) = {}
  /\ sessions[i].state = "kept" /\ Exchanging(i) = {}
       => \E token \in TokensOf(i) : token.n = sessions[i].has /\ token.key = keyStore

\* A refresh token buys one successor, however often it is sent, and no session has
\* two.  A session whose client got every answer goes on, after restarts too: the token
\* the client has is stored and the keys verify it, or is just being exchanged.
SessionsGoOn == \A i \in SessionIds : GoesOn(i)

Registering(s) ==
  {r \in Requests : requests[r].step = "register" /\ requests[r].steamId = s}

\* However many logins find that a player is new, one account is created, and announced
\* once at most.
RegistersOnce ==
  \A s \in SteamIds :
    /\ \A r, q \in Registering(s) : r = q
    /\ registrations[s] <= IF Registering(s) = {} THEN 1 ELSE 0
    /\ registrations[s] = 1 \/ Registering(s) # {} => s \in accounts

=============================================================================
