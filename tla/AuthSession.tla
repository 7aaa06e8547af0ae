----------------------------- MODULE AuthSession -----------------------------
(***************************************************************************)
(* The sessions of one user on several devices: the access guard and its   *)
(* profile cache (apps/api/src/security/access.guard.ts and                *)
(* permission.service.ts), login, refresh, logout and password change      *)
(* (auth.service.ts), and the client that renews its session when a call   *)
(* is refused (apps/desktop/src/data/api.ts, apps/mobile/src/net/api.ts).  *)
(*                                                                         *)
(* An access token and a refresh token are always issued together, so one  *)
(* record stands for the pair.  A family is named after its first pair.    *)
(*                                                                         *)
(* Left out: wrong passwords and the lock after them, the first password   *)
(* that must be changed, the expiry of refresh tokens after days, lost     *)
(* answers of calls other than a refresh, the rows of devices and of the   *)
(* audit trail.                                                            *)
(***************************************************************************)
EXTENDS Naturals, Sequences

CONSTANTS
    Device,       \* the devices of the user
    Request,      \* slots for the requests in progress
    NoRequest,    \* no refresh is running on the device
    MaxVersion,   \* bound on users.version
    MaxIssued     \* bound on the pairs ever issued

ASSUME AuthAssumption ==
    NoRequest \notin Request /\ MaxVersion \in Nat \ {0} /\ MaxIssued \in Nat

VARIABLES
    version,      \* users.version
    tokenPair,    \* Seq of [dev, family, v, live, fresh]: the pairs, oldest first
    cache,        \* the version of the cached profile, 0 when there is none
    held,         \* [Device -> 0 or the number of the pair the client holds]
    refreshing,   \* [Device -> NoRequest or the request its refresh runs in]
    req,          \* [Request -> [at, dev, kind, with, body, v, seen, new, again, heard]]
    excused,      \* history: the families a fault or another device has ended
    overtaken     \* history: the cached profile was read before the last change

authVars == <<version, tokenPair, cache, held, refreshing, req, excused, overtaken>>

Pair == 1 .. Len(tokenPair)
Kind == {"data", "logout", "change", "login", "refresh"}
IdleRequest == [at |-> "idle"]

NewRequest(d, kind) ==
    [at |-> "sent", dev |-> d, kind |-> kind, with |-> held[d], body |-> held[d], v |-> 0, seen |-> 0,
     new |-> 0, again |-> FALSE, heard |-> TRUE]

\* Pairs, versions and requests are what the code can produce; a request carries the
\* number of a pair that exists, and a device refreshes in a request of its own.
AuthTypeOK ==
    /\ version \in 1 .. MaxVersion /\ cache \in 0 .. MaxVersion
    /\ \A i \in Pair : /\ tokenPair[i].dev \in Device /\ tokenPair[i].family \in 1 .. i
                       /\ tokenPair[i].v \in 1 .. version
    /\ held \in [Device -> {0} \cup Pair]
    /\ \A k \in Request : req[k].at # "idle" =>
          req[k].kind \in Kind /\ {req[k].with, req[k].new} \subseteq {0} \cup Pair
    /\ \A d \in Device : refreshing[d] # NoRequest =>
          /\ req[refreshing[d]].at # "idle"
          /\ req[refreshing[d]].kind = "refresh" /\ req[refreshing[d]].dev = d
    /\ excused \subseteq Pair /\ overtaken \in BOOLEAN

AuthInit ==
    /\ version = 1 /\ cache = 0
    /\ tokenPair = <<>>
    /\ held = [d \in Device |-> 0]
    /\ refreshing = [d \in Device |-> NoRequest]
    /\ req = [k \in Request |-> IdleRequest]
    /\ excused = {} /\ overtaken = FALSE

\* A request moves on; what the step before had read is not used again.
Moved(k, at) == req' = [req EXCEPT ![k].at = at, ![k].v = 0, ![k].seen = 0]

----------------------------------------------------------------------------
(* The guard in front of every route *)

\* What the guard answers to a request whose profile has version v: the token must
\* carry that version.  A route that asks for no session is judged like any other
\* when the request brings a token.
Verdict(k, v) ==
    IF tokenPair[req[k].with].v # v THEN "refused" ELSE "passed"

\* No token on an anonymous route, an expired token, or a profile in the cache.
GuardCheck(k) ==
    /\ req[k].at = "sent"
    /\ \/ req[k].with = 0 /\ Moved(k, IF req[k].kind \in {"login", "refresh"} THEN "passed" ELSE "refused")
       \/ req[k].with # 0 /\ ~tokenPair[req[k].with].fresh /\ Moved(k, "refused")
       \/ /\ req[k].with # 0 /\ tokenPair[req[k].with].fresh /\ cache # 0
          /\ Moved(k, Verdict(k, cache))
    /\ UNCHANGED <<version, tokenPair, cache, held, refreshing, excused, overtaken>>

\* No profile in the cache: load reads the user ...
GuardRead(k) ==
    /\ req[k].at = "sent" /\ req[k].with # 0 /\ tokenPair[req[k].with].fresh /\ cache = 0
    /\ req' = [req EXCEPT ![k].at = "loading", ![k].v = version]
    /\ UNCHANGED <<version, tokenPair, cache, held, refreshing, excused, overtaken>>

\* ... and caches what it read, whatever was changed or invalidated in between.
Cached(v) == cache' = v /\ overtaken' = (v # version)

GuardStore(k) ==
    /\ req[k].at = "loading"
    /\ Cached(req[k].v)
    /\ Moved(k, Verdict(k, req[k].v))
    /\ UNCHANGED <<version, tokenPair, held, refreshing, excused>>

CacheExpires ==
    /\ cache # 0
    /\ cache' = 0 /\ overtaken' = FALSE
    /\ UNCHANGED <<version, tokenPair, held, refreshing, req, excused>>

\* Access tokens live equally long: they expire in the order they were issued.
AccessExpires(i) ==
    /\ i \in Pair /\ tokenPair[i].fresh
    /\ \A j \in 1 .. (i - 1) : ~tokenPair[j].fresh
    /\ tokenPair' = [tokenPair EXCEPT ![i].fresh = FALSE]
    /\ UNCHANGED <<version, cache, held, refreshing, req, excused, overtaken>>

----------------------------------------------------------------------------
(* The handlers *)

Revoked(I) == [i \in Pair |-> [tokenPair[i] EXCEPT !.live = @ /\ i \notin I]]
FamilyOf(i) == {j \in Pair : tokenPair[j].family = tokenPair[i].family}

\* Any handler that only needs the profile.
DataServed(k) ==
    /\ req[k].at = "passed" /\ req[k].kind = "data"
    /\ Moved(k, "done")
    /\ UNCHANGED <<version, tokenPair, cache, held, refreshing, excused, overtaken>>

\* logout revokes the refresh token the body names.
LogoutServed(k) ==
    /\ req[k].at = "passed" /\ req[k].kind = "logout"
    /\ tokenPair' = Revoked({req[k].body})
    /\ Moved(k, "done")
    /\ UNCHANGED <<version, cache, held, refreshing, excused, overtaken>>

\* Mutant: the session that asked for the change is revoked with the others.
RevokedByAll(dev) == Pair

\* changePassword keeps the sessions of the device that asked.
RevokedByChange(dev) == {i \in Pair : tokenPair[i].dev # dev}

ChangePassword(k) ==
    /\ req[k].at = "passed" /\ req[k].kind = "change" /\ version < MaxVersion
    /\ LET others == {i \in Pair : tokenPair[i].dev # tokenPair[req[k].with].dev}
       IN  excused' = excused \cup {tokenPair[i].family : i \in others}
    /\ tokenPair' = Revoked(RevokedByChange(tokenPair[req[k].with].dev))
    /\ version' = version + 1
    /\ Moved(k, "invalidating")
    /\ UNCHANGED <<cache, held, refreshing, overtaken>>

\* Mutant: the cache is left to expire.
InvalidateLater(k) ==
    /\ req[k].at = "invalidating"
    /\ Moved(k, "done")
    /\ UNCHANGED <<version, tokenPair, cache, held, refreshing, excused, overtaken>>

Invalidate(k) ==
    /\ req[k].at = "invalidating"
    /\ cache' = 0 /\ overtaken' = FALSE
    /\ Moved(k, "done")
    /\ UNCHANGED <<version, tokenPair, held, refreshing, excused>>

\* An administrator grants the user a role: the version is raised, the cache is left to
\* expire.
GrantRole ==
    /\ version < MaxVersion
    /\ version' = version + 1
    /\ overtaken' = (cache # 0)
    /\ UNCHANGED <<tokenPair, cache, held, refreshing, req, excused>>

\* login reads the user, whose version it will sign ...
LoginRead(k) ==
    /\ req[k].at = "passed" /\ req[k].kind = "login"
    /\ req' = [req EXCEPT ![k].at = "forcing", ![k].v = version]
    /\ UNCHANGED <<version, tokenPair, cache, held, refreshing, excused, overtaken>>

\* ... loads the profile past the cache (a read, then a store that may be late) ...
ForceRead(k) ==
    /\ req[k].at = "forcing"
    /\ req' = [req EXCEPT ![k].at = "forced", ![k].seen = version]
    /\ UNCHANGED <<version, tokenPair, cache, held, refreshing, excused, overtaken>>

NewPair(d, family, v) == [dev |-> d, family |-> family, v |-> v, live |-> TRUE, fresh |-> TRUE]

\* ... and then issues the pair: a new family.
LoginIssue(k) ==
    /\ req[k].at = "forced" /\ req[k].kind = "login" /\ Len(tokenPair) < MaxIssued
    /\ Cached(req[k].seen)
    /\ tokenPair' = Append(tokenPair, NewPair(req[k].dev, Len(tokenPair) + 1, req[k].v))
    /\ req' = [req EXCEPT ![k].at = "done", ![k].v = 0, ![k].seen = 0, ![k].new = Len(tokenPair) + 1]
    /\ UNCHANGED <<version, held, refreshing, excused>>

\* refresh finds the token with its user; a token that was revoked is taken for a
\* stolen one and its whole family revoked ...
RefreshFind(k) ==
    /\ req[k].at = "passed" /\ req[k].kind = "refresh"
    /\ IF tokenPair[req[k].with].live
       THEN /\ req' = [req EXCEPT ![k].at = "found", ![k].v = version]
            /\ UNCHANGED tokenPair
       ELSE /\ tokenPair' = Revoked(FamilyOf(req[k].with))
            /\ Moved(k, "refused")
    /\ UNCHANGED <<version, cache, held, refreshing, excused, overtaken>>

\* Mutant: the token that was used stays live beside its successor.
RefreshKeepsOld(k) ==
    /\ req[k].at = "found" /\ Len(tokenPair) < MaxIssued
    /\ tokenPair' = Append(tokenPair, NewPair(req[k].dev, tokenPair[req[k].with].family, req[k].v))
    /\ req' = [req EXCEPT ![k].at = "forcing", ![k].v = 0, ![k].new = Len(tokenPair) + 1]
    /\ UNCHANGED <<version, cache, held, refreshing, excused, overtaken>>

\* ... revokes it and issues its successor in the family (two writes; nothing that
\* reads a token tells their order apart) ...
RefreshRotate(k) ==
    /\ req[k].at = "found" /\ Len(tokenPair) < MaxIssued
    /\ tokenPair' = Append(Revoked({req[k].with}),
                        NewPair(req[k].dev, tokenPair[req[k].with].family, req[k].v))
    /\ req' = [req EXCEPT ![k].at = "forcing", ![k].v = 0, ![k].new = Len(tokenPair) + 1]
    /\ UNCHANGED <<version, cache, held, refreshing, excused, overtaken>>

\* ... and loads the profile past the cache before it answers.
RefreshAnswer(k) ==
    /\ req[k].at = "forced" /\ req[k].kind = "refresh"
    /\ Cached(req[k].seen)
    /\ Moved(k, "done")
    /\ UNCHANGED <<version, tokenPair, held, refreshing, excused>>

----------------------------------------------------------------------------
(* The client *)

\* A call of the program, with the tokens the client holds.  The user signs in only
\* when signed out, and signs out or changes the password only when signed in.
Send(k, d, kind) ==
    /\ req[k].at = "idle" /\ kind # "refresh"
    /\ kind = "login" <=> held[d] = 0
    /\ \A j \in Request : req[j].at # "idle" /\ req[j].dev = d => req[j].kind \in {"data", "refresh"}
    /\ req' = [req EXCEPT ![k] = NewRequest(d, kind)]
    /\ UNCHANGED <<version, tokenPair, cache, held, refreshing, excused, overtaken>>

Waiting(d) == {j \in Request : req[j].at = "waiting" /\ req[j].dev = d}

\* The calls that waited for the refresh of d are sent once more, the same body under
\* the new access token, or fail with it (pair 0).
Resumed(d, pair) ==
    [j \in Request |->
        IF j \notin Waiting(d) THEN req[j]
        ELSE IF pair = 0 THEN IdleRequest
        ELSE [req[j] EXCEPT !.at = "sent", !.with = pair, !.again = TRUE]]

\* persist: what the client holds after an answer to request k.
HeldAfter(k) ==
    CASE req[k].kind \in {"login", "refresh"} -> [held EXCEPT ![req[k].dev] = req[k].new]
      [] req[k].kind = "logout"               -> [held EXCEPT ![req[k].dev] = 0]
      [] OTHER                                -> held

\* An answer arrives.  After a password change the client signs in again at once,
\* with the tokens it still holds.
Answered(k) ==
    /\ req[k].at = "done" /\ req[k].heard
    /\ held' = HeldAfter(k)
    /\ req' = [(IF req[k].kind = "refresh" THEN Resumed(req[k].dev, req[k].new) ELSE req)
                 EXCEPT ![k] = IF req[k].kind = "change" THEN NewRequest(req[k].dev, "login")
                               ELSE IdleRequest]
    /\ refreshing' = IF req[k].kind = "refresh" THEN [refreshing EXCEPT ![req[k].dev] = NoRequest]
                     ELSE refreshing
    /\ UNCHANGED <<version, tokenPair, cache, excused, overtaken>>

\* One refresh at a time: the others wait for its promise.
MayRefresh(d) == refreshing[d] = NoRequest

\* A call is refused for the first time: doRefresh.
RefusedOnce(k) == req[k].at = "refused" /\ ~req[k].again /\ req[k].kind \in {"data", "logout", "change"}

StartRefresh(k, j) ==
    /\ RefusedOnce(k) /\ held[req[k].dev] # 0 /\ MayRefresh(req[k].dev)
    /\ req[j].at = "idle"
    /\ req' = [req EXCEPT ![k].at = "waiting", ![j] = NewRequest(req[k].dev, "refresh")]
    /\ refreshing' = [refreshing EXCEPT ![req[k].dev] = j]
    /\ UNCHANGED <<version, tokenPair, cache, held, excused, overtaken>>

JoinRefresh(k) ==
    /\ RefusedOnce(k) /\ held[req[k].dev] # 0 /\ refreshing[req[k].dev] # NoRequest
    /\ Moved(k, "waiting")
    /\ UNCHANGED <<version, tokenPair, cache, held, refreshing, excused, overtaken>>

\* A call fails for good: refused twice, refused a sign-in, or refused with
\* nothing to refresh with.  Signing out clears the tokens even so.
Failed(k) ==
    /\ req[k].at = "refused" /\ (req[k].again \/ req[k].kind = "login" \/ held[req[k].dev] = 0)
    /\ req[k].kind # "refresh"
    /\ held' = IF req[k].kind = "logout" THEN [held EXCEPT ![req[k].dev] = 0] ELSE held
    /\ req' = [req EXCEPT ![k] = IdleRequest]
    /\ UNCHANGED <<version, tokenPair, cache, refreshing, excused, overtaken>>

\* Mutant: the promise is kept when the refresh fails.
RefreshRefusedKept(k) ==
    /\ req[k].at = "refused" /\ req[k].kind = "refresh"
    /\ held' = IF req[k].heard THEN [held EXCEPT ![req[k].dev] = 0] ELSE held
    /\ req' = [(IF req[k].heard THEN Resumed(req[k].dev, 0) ELSE req) EXCEPT ![k] = IdleRequest]
    /\ UNCHANGED <<version, tokenPair, cache, refreshing, excused, overtaken>>

\* Any answer to a refresh but success ends the session on the device.
RefreshRefused(k) ==
    /\ req[k].at = "refused" /\ req[k].kind = "refresh"
    /\ held' = IF req[k].heard THEN [held EXCEPT ![req[k].dev] = 0] ELSE held
    /\ refreshing' = IF req[k].heard THEN [refreshing EXCEPT ![req[k].dev] = NoRequest] ELSE refreshing
    /\ req' = [(IF req[k].heard THEN Resumed(req[k].dev, 0) ELSE req) EXCEPT ![k] = IdleRequest]
    /\ UNCHANGED <<version, tokenPair, cache, excused, overtaken>>

\* The network fails under a refresh, or the client's timer does: the tokens are kept
\* (unless a sign-out waited, which clears them in any case) and whoever waited fails,
\* while the server goes on with the request.
RefreshLost(k) ==
    /\ req[k].at # "idle" /\ req[k].kind = "refresh" /\ req[k].heard
    /\ refreshing' = [refreshing EXCEPT ![req[k].dev] = NoRequest]
    /\ excused' = excused \cup {tokenPair[req[k].with].family}
    /\ held' = IF \E j \in Waiting(req[k].dev) : req[j].kind = "logout"
               THEN [held EXCEPT ![req[k].dev] = 0] ELSE held
    /\ req' = [Resumed(req[k].dev, 0) EXCEPT ![k].heard = FALSE]
    /\ UNCHANGED <<version, tokenPair, cache, overtaken>>

\* Nobody is waiting for the answer any more.
Unheard(k) ==
    /\ req[k].at = "done" /\ ~req[k].heard
    /\ req' = [req EXCEPT ![k] = IdleRequest]
    /\ UNCHANGED <<version, tokenPair, cache, held, refreshing, excused, overtaken>>

Handle(k) ==
    \/ GuardCheck(k) \/ GuardRead(k) \/ GuardStore(k)
    \/ DataServed(k) \/ LogoutServed(k) \/ ChangePassword(k) \/ Invalidate(k)
    \/ LoginRead(k) \/ ForceRead(k) \/ LoginIssue(k)
    \/ RefreshFind(k) \/ RefreshRotate(k) \/ RefreshAnswer(k)

Client(k) ==
    \/ \E d \in Device, kind \in Kind : Send(k, d, kind)
    \/ Answered(k) \/ JoinRefresh(k) \/ Failed(k)
    \/ \E j \in Request : StartRefresh(k, j)
    \/ RefreshRefused(k) \/ RefreshLost(k) \/ Unheard(k)

AuthNext ==
    \/ \E k \in Request : Handle(k) \/ Client(k)
    \/ CacheExpires \/ GrantRole
    \/ \E i \in 1 .. MaxIssued : AccessExpires(i)

AuthSpec == AuthInit /\ [][AuthNext]_authVars

----------------------------------------------------------------------------
(* Properties *)

\* A family has one live refresh token, so that a stolen copy shows itself: the
\* rotation reads and writes in two steps, and only the client's single flight keeps
\* two rotations of one token apart.  A family whose refresh was given up is excused.
OneLiveTokenPerFamily ==
    \A i, j \in Pair :
        (/\ i # j /\ tokenPair[i].family = tokenPair[j].family /\ tokenPair[i].family \notin excused)
            => ~(tokenPair[i].live /\ tokenPair[j].live)

\* The refresh token a device holds is live, whatever the other devices and its own
\* calls do, unless it is being renewed or revoked, its family lost an answer, or
\* another device changed the password.
HeldTokenIsLive ==
    \A d \in Device :
        (/\ held[d] # 0 /\ refreshing[d] = NoRequest
         /\ tokenPair[held[d]].family \notin excused
         /\ \A k \in Request : req[k].at # "idle" /\ req[k].dev = d => req[k].kind # "logout")
            => tokenPair[held[d]].live

\* The guard judges by a profile older than the user only while a password change has
\* yet to invalidate the cache, when a load that had read the user before the change
\* stored it after the invalidation, or when the change was the grant of a role, which
\* invalidates nothing (organization.service.ts:95 has the old tokens refused at the
\* first request); in the last two cases until the entry expires.
CacheFollowsVersion ==
    cache \in {0, version} \/ overtaken \/ \E k \in Request : req[k].at = "invalidating"

\* A device that holds a live refresh token is not signed out because its access
\* token expired: it loses its session by signing out, or by an answer to a refresh
\* whose token is no longer live.
ExpiryIsRenewed ==
    [][\A d \in Device :
          held[d] # 0 /\ held'[d] = 0 =>
             \/ ~tokenPair[held[d]].live
             \/ \E k \in Request : req[k].at # "idle" /\ req[k].dev = d /\ req[k].kind = "logout"]_authVars
=============================================================================
